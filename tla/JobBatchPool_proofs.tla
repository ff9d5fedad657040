------------------------ MODULE JobBatchPool_proofs ------------------------
(***************************************************************************)
(* Proofs about the pool of job batches: whoever has pinned a batch has    *)
(* it until he gives the pin back, and a slot is referenced, being dropped *)
(* by one thread or free, for every number of threads, slots and batches,  *)
(* whatever the handles and the dependencies are.  And a batch is pushed   *)
(* once, after its dependencies, as long as no batch has more dependents   *)
(* than there is room for.                                                 *)
(***************************************************************************)
EXTENDS JobBatchPool, FiniteSetTheorems, SequenceTheorems, TLAPS

----------------------------------------------------------------------------
(* Stacks of calls *)

\* Thread t keeps its k outermost calls and has the calls fs above them.
Restack(t, k, fs) ==
  /\ stack' \in [Threads -> Seq(CallFrames)]
  /\ Len(stack'[t]) = k + Len(fs)
  /\ \A d \in 1 .. k : CallAt(t, d)' = CallAt(t, d)
  /\ \A i \in 1 .. Len(fs) : CallAt(t, k + i)' = fs[Len(fs) + 1 - i]
  /\ \A u \in Threads \ {t} : stack'[u] = stack[u]

LEMMA Restacked ==
  ASSUME stack \in [Threads -> Seq(CallFrames)], NEW t \in Threads,
         NEW fs \in Seq(CallFrames), NEW rest \in Seq(CallFrames),
         Len(rest) <= Len(stack[t]),
         \A d \in 1 .. Len(rest) : rest[d] = stack[t][Len(stack[t]) - Len(rest) + d],
         stack' = [stack EXCEPT ![t] = fs \o rest]
  PROVE  Restack(t, Len(rest), fs)
<1> DEFINE new == fs \o rest
           L == Len(stack[t])
           k == Len(rest)
           n == Len(fs)
<1>1. /\ new \in Seq(CallFrames) /\ Len(new) = n + k /\ n \in Nat /\ k \in Nat /\ L \in Nat
      /\ \A i \in 1 .. n : new[i] = fs[i]
      /\ \A i \in n + 1 .. n + k : new[i] = rest[i - n]
  BY ConcatProperties, LenProperties
<1>2. /\ stack'[t] = new /\ \A u \in Threads \ {t} : stack'[u] = stack[u]
      /\ stack' \in [Threads -> Seq(CallFrames)]
  BY <1>1
<1>3. \A d : CallAt(t, d)' = new[n + k + 1 - d] /\ CallAt(t, d) = stack[t][L + 1 - d]
  BY <1>1, <1>2 DEF CallAt
<1> HIDE DEF new, L, k, n
<1>4. ASSUME NEW d \in 1 .. k
      PROVE  CallAt(t, d)' = CallAt(t, d)
  <2>1. n + k + 1 - d \in n + 1 .. n + k /\ (n + k + 1 - d) - n = k + 1 - d
        /\ k + 1 - d \in 1 .. k
    BY <1>1
  <2>2. CallAt(t, d)' = rest[k + 1 - d]
    BY <1>1, <1>3, <2>1
  <2>3. rest[k + 1 - d] = stack[t][L + 1 - d]
    <3>1. PICK e \in 1 .. k : e = k + 1 - d
      BY <2>1
    <3>2. rest[e] = stack[t][L - k + e]
      BY DEF L, k
    <3>3. L - k + e = L + 1 - d
      BY <1>1, <3>1
    <3> QED BY <3>1, <3>2, <3>3
  <2> QED BY <1>3, <2>2, <2>3
<1>5. ASSUME NEW i \in 1 .. n
      PROVE  CallAt(t, k + i)' = fs[n + 1 - i]
  <2>1. n + k + 1 - (k + i) = n + 1 - i /\ n + 1 - i \in 1 .. n
    BY <1>1
  <2> QED BY <1>1, <1>3, <2>1
<1> QED BY <1>1, <1>2, <1>4, <1>5 DEF Restack, n, k

\* What t does with the innermost of its calls: it replaces one, replaces two when
\* a pin returns to its caller, or begins another.
LEMMA Continued ==
  ASSUME PoolTyped, NEW t \in Threads, stack[t] # <<>>, NEW fs \in Seq(CallFrames),
         Continue(t, fs)
  PROVE  Restack(t, Len(stack[t]) - 1, fs)
<1> DEFINE s == stack[t]
           rest == Tail(s)
<1>1. s \in Seq(CallFrames) /\ s # <<>> /\ stack \in [Threads -> Seq(CallFrames)]
  BY DEF PoolTyped
<1>2. stack' = [stack EXCEPT ![t] = fs \o rest]
  BY DEF Continue
<1> HIDE DEF s
<1>3. /\ rest \in Seq(CallFrames) /\ Len(rest) = Len(s) - 1 /\ Len(s) \in Nat
      /\ \A d \in 1 .. Len(rest) : rest[d] = s[d + 1]
  BY <1>1, HeadTailProperties, LenProperties
<1> HIDE DEF rest
<1>4. \A d \in 1 .. Len(rest) : d + 1 = Len(s) - Len(rest) + d
  BY <1>3
<1>5. Len(rest) <= Len(s) /\ \A d \in 1 .. Len(rest) : rest[d] = s[Len(s) - Len(rest) + d]
  BY <1>3, <1>4
<1> QED BY <1>1, <1>2, <1>3, <1>5, Restacked DEF s

LEMMA Continued0 ==
  ASSUME PoolTyped, NEW t \in Threads, stack[t] # <<>>, Continue(t, <<>>)
  PROVE  Restack(t, Len(stack[t]) - 1, <<>>)
<1> DEFINE fs == <<>>
<1>1. fs \in Seq(CallFrames) /\ Continue(t, fs)
  OBVIOUS
<1> HIDE DEF fs
<1>2. Restack(t, Len(stack[t]) - 1, fs)
  BY <1>1, Continued
<1> QED BY <1>2 DEF fs

LEMMA Continued1 ==
  ASSUME PoolTyped, NEW t \in Threads, stack[t] # <<>>, NEW f \in CallFrames,
         Continue(t, <<f>>)
  PROVE  Restack(t, Len(stack[t]) - 1, <<f>>)
<1> DEFINE fs == <<f>>
<1>1. fs \in Seq(CallFrames) /\ Continue(t, fs)
  OBVIOUS
<1> HIDE DEF fs
<1>2. Restack(t, Len(stack[t]) - 1, fs)
  BY <1>1, Continued
<1> QED BY <1>2 DEF fs

LEMMA Continued2 ==
  ASSUME PoolTyped, NEW t \in Threads, stack[t] # <<>>, NEW f \in CallFrames,
         NEW g \in CallFrames, Continue(t, <<g, f>>)
  PROVE  Restack(t, Len(stack[t]) - 1, <<g, f>>)
<1> DEFINE fs == <<g, f>>
<1>1. fs \in Seq(CallFrames) /\ Continue(t, fs)
  OBVIOUS
<1> HIDE DEF fs
<1>2. Restack(t, Len(stack[t]) - 1, fs)
  BY <1>1, Continued
<1> QED BY <1>2 DEF fs

LEMMA Continued3 ==
  ASSUME PoolTyped, NEW t \in Threads, stack[t] # <<>>, NEW f \in CallFrames,
         NEW g \in CallFrames, NEW h \in CallFrames, Continue(t, <<h, g, f>>)
  PROVE  Restack(t, Len(stack[t]) - 1, <<h, g, f>>)
<1> DEFINE fs == <<h, g, f>>
<1>1. fs \in Seq(CallFrames) /\ Continue(t, fs)
  OBVIOUS
<1> HIDE DEF fs
<1>2. Restack(t, Len(stack[t]) - 1, fs)
  BY <1>1, Continued
<1> QED BY <1>2 DEF fs

LEMMA Returned ==
  ASSUME PoolTyped, NEW t \in Threads, Len(stack[t]) >= 2, NEW fs \in Seq(CallFrames),
         stack' = [stack EXCEPT ![t] = fs \o Tail(Tail(@))]
  PROVE  Restack(t, Len(stack[t]) - 2, fs)
<1> DEFINE s == stack[t]
           q == Tail(s)
           rest == Tail(q)
<1>1. s \in Seq(CallFrames) /\ stack \in [Threads -> Seq(CallFrames)] /\ Len(s) >= 2
  BY DEF PoolTyped
<1>2. stack' = [stack EXCEPT ![t] = fs \o rest]
  OBVIOUS
<1> HIDE DEF s
<1>3. /\ q \in Seq(CallFrames) /\ Len(q) = Len(s) - 1 /\ Len(s) \in Nat
      /\ \A d \in 1 .. Len(q) : q[d] = s[d + 1]
  <2>1. s # <<>>
    BY <1>1
  <2> QED BY <1>1, <2>1, HeadTailProperties, LenProperties
<1> HIDE DEF q
<1>4. /\ rest \in Seq(CallFrames) /\ Len(rest) = Len(q) - 1
      /\ \A d \in 1 .. Len(rest) : rest[d] = q[d + 1]
  <2>1. q # <<>>
    BY <1>1, <1>3
  <2> QED BY <1>3, <2>1, HeadTailProperties, LenProperties
<1> HIDE DEF rest
<1>5. Len(rest) = Len(s) - 2
  BY <1>1, <1>3, <1>4
<1>6. \A d \in 1 .. Len(rest) : d + 1 \in 1 .. Len(q) /\ d + 1 + 1 = Len(s) - Len(rest) + d
  BY <1>1, <1>3, <1>4, <1>5
<1>7. Len(rest) <= Len(s) /\ \A d \in 1 .. Len(rest) : rest[d] = s[Len(s) - Len(rest) + d]
  BY <1>3, <1>4, <1>5, <1>6
<1>8. /\ stack \in [Threads -> Seq(CallFrames)] /\ t \in Threads
      /\ stack' = [stack EXCEPT ![t] = fs \o rest]
      /\ rest \in Seq(CallFrames) /\ Len(rest) <= Len(stack[t])
      /\ \A d \in 1 .. Len(rest) : rest[d] = stack[t][Len(stack[t]) - Len(rest) + d]
  BY <1>1, <1>2, <1>4, <1>7 DEF s
<1>9. Restack(t, Len(rest), fs)
  BY ONLY <1>8, fs \in Seq(CallFrames), Restacked
<1>10. Len(rest) = Len(stack[t]) - 2
  BY <1>5 DEF s
<1> QED BY <1>9, <1>10

LEMMA Called ==
  ASSUME PoolTyped, NEW t \in Threads, NEW f \in CallFrames,
         stack' = [stack EXCEPT ![t] = <<f>> \o @]
  PROVE  Restack(t, Len(stack[t]), <<f>>)
<1> DEFINE rest == stack[t]
           fs == <<f>>
<1>1. /\ rest \in Seq(CallFrames) /\ stack \in [Threads -> Seq(CallFrames)]
      /\ Len(rest) \in Nat /\ fs \in Seq(CallFrames)
  BY LenProperties DEF PoolTyped
<1>2. stack' = [stack EXCEPT ![t] = fs \o rest]
  OBVIOUS
<1> HIDE DEF fs
<1>3. \A d \in 1 .. Len(rest) : rest[d] = stack[t][Len(stack[t]) - Len(rest) + d]
  <2>1. \A d \in 1 .. Len(rest) : Len(stack[t]) - Len(rest) + d = d
    BY <1>1
  <2> QED BY <2>1
<1>4. Len(rest) <= Len(stack[t])
  BY <1>1
<1>5. Restack(t, Len(rest), fs)
  BY <1>1, <1>2, <1>3, <1>4, Restacked
<1> QED BY <1>5 DEF fs

----------------------------------------------------------------------------
(* Where the calls of a kind are *)

\* The calls whose frame is in F.
CallsIn(F) == {c \in Calls : CallAt(c[1], c[2]) \in F}
Where(c, f, F) == IF f \in F THEN {c} ELSE {}
RefFrames(s) == {f \in CallFrames : RefOf(f) = s}
DropFrames(s) == {f \in CallFrames : f.at \in DropPoints /\ f.id.slot = s}

LEMMA CallsInForm ==
  ASSUME NEW F
  PROVE  /\ \A c : c \in CallsIn(F) <=> \E u \in Threads : \E d \in 1 .. Len(stack[u]) :
                                          c = <<u, d>> /\ CallAt(u, d) \in F
         /\ \A c : c \in CallsIn(F)' <=> \E u \in Threads : \E d \in 1 .. Len(stack'[u]) :
                                           c = <<u, d>> /\ CallAt(u, d)' \in F
<1>1. \A c : c \in Calls <=> \E u \in Threads : \E d \in 1 .. Len(stack[u]) : c = <<u, d>>
  BY DEF Calls
<1>2. \A c : c \in Calls' <=> \E u \in Threads : \E d \in 1 .. Len(stack'[u]) : c = <<u, d>>
  BY DEF Calls
<1> QED BY <1>1, <1>2 DEF CallsIn

LEMMA CallsInStep ==
  ASSUME PoolTyped, NEW t \in Threads, NEW k \in Nat, k <= Len(stack[t]),
         NEW fs \in Seq(CallFrames), Restack(t, k, fs), NEW F
  PROVE  \A c : c \in CallsIn(F)' <=>
                  \/ c \in CallsIn(F) /\ (c[1] # t \/ c[2] <= k)
                  \/ \E i \in 1 .. Len(fs) : c = <<t, k + i>> /\ fs[Len(fs) + 1 - i] \in F
<1>1. Len(fs) \in Nat /\ Len(stack[t]) \in Nat /\ Len(stack'[t]) = k + Len(fs)
  BY LenProperties DEF PoolTyped, Restack
<1>2. ASSUME NEW u \in Threads, u # t
      PROVE  stack'[u] = stack[u] /\ \A d : CallAt(u, d)' = CallAt(u, d)
  BY <1>2 DEF Restack, CallAt
<1>3. ASSUME NEW c, c \in CallsIn(F)'
      PROVE  \/ c \in CallsIn(F) /\ (c[1] # t \/ c[2] <= k)
             \/ \E i \in 1 .. Len(fs) : c = <<t, k + i>> /\ fs[Len(fs) + 1 - i] \in F
  <2>1. PICK u \in Threads : \E d \in 1 .. Len(stack'[u]) : c = <<u, d>> /\ CallAt(u, d)' \in F
    BY <1>3, CallsInForm
  <2>2. PICK d \in 1 .. Len(stack'[u]) : c = <<u, d>> /\ CallAt(u, d)' \in F
    BY <2>1
  <2>3. CASE u # t
    BY <1>2, <2>2, <2>3, CallsInForm
  <2>4. CASE u = t /\ d <= k
    <3>1. d \in 1 .. k /\ d \in 1 .. Len(stack[t])
      BY <1>1, <2>2, <2>4
    <3>2. CallAt(t, d) \in F
      BY <2>2, <2>4, <3>1 DEF Restack
    <3> QED BY <2>2, <2>4, <3>1, <3>2, CallsInForm
  <2>5. CASE u = t /\ d > k
    <3>1. PICK i \in 1 .. Len(fs) : d = k + i
      <4>1. d - k \in 1 .. Len(fs) /\ d = k + (d - k)
        BY <1>1, <2>2, <2>5
      <4> QED BY <4>1
    <3>2. fs[Len(fs) + 1 - i] \in F
      BY <2>2, <2>5, <3>1 DEF Restack
    <3> QED BY <2>2, <2>5, <3>1, <3>2
  <2> QED BY <1>1, <2>3, <2>4, <2>5
<1>4. ASSUME NEW c, c \in CallsIn(F), c[1] # t \/ c[2] <= k
      PROVE  c \in CallsIn(F)'
  <2>1. PICK u \in Threads : \E d \in 1 .. Len(stack[u]) : c = <<u, d>> /\ CallAt(u, d) \in F
    BY <1>4, CallsInForm
  <2>2. PICK d \in 1 .. Len(stack[u]) : c = <<u, d>> /\ CallAt(u, d) \in F
    BY <2>1
  <2>3. CASE u # t
    BY <1>2, <2>2, <2>3, CallsInForm
  <2>4. CASE u = t
    <3>1. d \in 1 .. k /\ d \in 1 .. Len(stack'[t])
      BY <1>1, <1>4, <2>2, <2>4
    <3>2. CallAt(t, d)' \in F
      BY <2>2, <2>4, <3>1 DEF Restack
    <3> QED BY <2>2, <2>4, <3>1, <3>2, CallsInForm
  <2> QED BY <2>3, <2>4
<1>5. ASSUME NEW i \in 1 .. Len(fs), fs[Len(fs) + 1 - i] \in F
      PROVE  <<t, k + i>> \in CallsIn(F)'
  <2>1. CallAt(t, k + i)' \in F
    BY <1>5 DEF Restack
  <2>2. k + i \in 1 .. Len(stack'[t])
    BY <1>1
  <2> QED BY <2>1, <2>2, CallsInForm
<1> QED BY <1>3, <1>4, <1>5

\* The innermost call of t, and the place above it.
LEMMA InnermostIn ==
  ASSUME PoolTyped, NEW t \in Threads, NEW F
  PROVE  /\ Len(stack[t]) \in Nat
         /\ \A d : <<t, d>> \in CallsIn(F) => d \in 1 .. Len(stack[t]) /\ CallAt(t, d) \in F
         /\ <<t, Len(stack[t]) + 1>> \notin CallsIn(F)
         /\ stack[t] # <<>> =>
              /\ Len(stack[t]) >= 1 /\ Head(stack[t]) = CallAt(t, Len(stack[t]))
              /\ Head(stack[t]) \in CallFrames
              /\ <<t, Len(stack[t])>> \in CallsIn(F) <=> Head(stack[t]) \in F
<1> DEFINE s == stack[t]
<1>1. s \in Seq(CallFrames) /\ Len(s) \in Nat
  BY LenProperties DEF PoolTyped
<1>2. \A d : CallAt(t, d) = s[Len(s) + 1 - d]
  BY DEF CallAt
<1>3. \A d : <<t, d>> \in CallsIn(F) <=> d \in 1 .. Len(s) /\ CallAt(t, d) \in F
  BY CallsInForm
<1> HIDE DEF s
<1>4. Len(s) + 1 \notin 1 .. Len(s)
  BY <1>1
<1>5. s # <<>> => Len(s) >= 1 /\ Head(s) = CallAt(t, Len(s)) /\ Head(s) \in CallFrames
  <2>1. s # <<>> => Len(s) >= 1 /\ Len(s) + 1 - Len(s) = 1 /\ Head(s) = s[1] /\ Head(s) \in CallFrames
    BY <1>1
  <2> QED BY <1>2, <2>1
<1>6. s # <<>> => (<<t, Len(s)>> \in CallsIn(F) <=> Head(s) \in F)
  <2>1. s # <<>> => Len(s) \in 1 .. Len(s)
    BY <1>1, <1>5
  <2> QED BY <1>3, <1>5, <2>1
<1> QED BY <1>1, <1>3, <1>4, <1>5, <1>6 DEF s

\* What k calls of t, and those above them, leave among the calls whose frame is in F.
LEMMA NoneAbove ==
  ASSUME PoolTyped, NEW t \in Threads, NEW F, NEW k \in Nat, k <= Len(stack[t]),
         Restack(t, k, <<>>)
  PROVE  \A c : c \in CallsIn(F)' <=> c \in CallsIn(F) /\ (c[1] # t \/ c[2] <= k)
<1> DEFINE fs == <<>>
<1>1. fs \in Seq(CallFrames) /\ \A i \in 1 .. Len(fs) : FALSE
  OBVIOUS
<1> HIDE DEF fs
<1>2. Restack(t, k, fs)
  BY DEF fs
<1>9. \A c : c \in CallsIn(F)' <=>
          \/ c \in CallsIn(F) /\ (c[1] # t \/ c[2] <= k)
          \/ \E i \in 1 .. Len(fs) : c = <<t, k + i>> /\ fs[Len(fs) + 1 - i] \in F
  BY <1>1, <1>2, CallsInStep
<1> QED BY <1>1, <1>9

LEMMA OneAbove ==
  ASSUME PoolTyped, NEW t \in Threads, NEW F, NEW k \in Nat, k <= Len(stack[t]),
         NEW a \in CallFrames, Restack(t, k, <<a>>)
  PROVE  \A c : c \in CallsIn(F)' <=>
               \/ c \in CallsIn(F) /\ (c[1] # t \/ c[2] <= k)
               \/ c \in Where(<<t, k + 1>>, a, F)
<1> DEFINE fs == <<a>>
<1>1. fs \in Seq(CallFrames) /\ Len(fs) = 1 /\ fs[1] = a
  OBVIOUS
<1>2. Restack(t, k, fs)
  OBVIOUS
<1> HIDE DEF fs
<1>3. \A c : (\E i \in 1 .. Len(fs) : c = <<t, k + i>> /\ fs[Len(fs) + 1 - i] \in F)
               <=> c \in Where(<<t, k + 1>>, a, F)
  BY <1>1 DEF Where
<1>9. \A c : c \in CallsIn(F)' <=>
          \/ c \in CallsIn(F) /\ (c[1] # t \/ c[2] <= k)
          \/ \E i \in 1 .. Len(fs) : c = <<t, k + i>> /\ fs[Len(fs) + 1 - i] \in F
  BY <1>1, <1>2, CallsInStep
<1> QED BY <1>3, <1>9

LEMMA TwoAbove ==
  ASSUME PoolTyped, NEW t \in Threads, NEW F, NEW k \in Nat, k <= Len(stack[t]),
         NEW a \in CallFrames, NEW b \in CallFrames,
         Restack(t, k, <<b, a>>)
  PROVE  \A c : c \in CallsIn(F)' <=>
               \/ c \in CallsIn(F) /\ (c[1] # t \/ c[2] <= k)
               \/ c \in Where(<<t, k + 1>>, a, F)
               \/ c \in Where(<<t, k + 2>>, b, F)
<1> DEFINE fs == <<b, a>>
<1>1. fs \in Seq(CallFrames) /\ Len(fs) = 2 /\ fs[1] = b /\ fs[2] = a
  OBVIOUS
<1>2. Restack(t, k, fs)
  OBVIOUS
<1> HIDE DEF fs
<1>3. \A c : (\E i \in 1 .. Len(fs) : c = <<t, k + i>> /\ fs[Len(fs) + 1 - i] \in F)
               <=> \/ c = <<t, k + 1>> /\ fs[2] \in F
                   \/ c = <<t, k + 2>> /\ fs[1] \in F
  <2>1. 1 .. Len(fs) = {1, 2} /\ Len(fs) + 1 - 1 = 2 /\ Len(fs) + 1 - 2 = 1
    BY <1>1
  <2> QED BY <2>1
<1>4. \A c : (\E i \in 1 .. Len(fs) : c = <<t, k + i>> /\ fs[Len(fs) + 1 - i] \in F)
               <=> c \in Where(<<t, k + 1>>, a, F) \/ c \in Where(<<t, k + 2>>, b, F)
  BY <1>1, <1>3 DEF Where
<1>9. \A c : c \in CallsIn(F)' <=>
          \/ c \in CallsIn(F) /\ (c[1] # t \/ c[2] <= k)
          \/ \E i \in 1 .. Len(fs) : c = <<t, k + i>> /\ fs[Len(fs) + 1 - i] \in F
  BY <1>1, <1>2, CallsInStep
<1> QED BY <1>4, <1>9

LEMMA ThreeAbove ==
  ASSUME PoolTyped, NEW t \in Threads, NEW F, NEW k \in Nat, k <= Len(stack[t]),
         NEW a \in CallFrames, NEW b \in CallFrames,
         NEW e \in CallFrames, Restack(t, k, <<e, b, a>>)
  PROVE  \A c : c \in CallsIn(F)' <=>
               \/ c \in CallsIn(F) /\ (c[1] # t \/ c[2] <= k)
               \/ c \in Where(<<t, k + 1>>, a, F)
               \/ c \in Where(<<t, k + 2>>, b, F)
               \/ c \in Where(<<t, k + 3>>, e, F)
<1> DEFINE fs == <<e, b, a>>
<1>1. fs \in Seq(CallFrames) /\ Len(fs) = 3 /\ fs[1] = e /\ fs[2] = b /\ fs[3] = a
  OBVIOUS
<1>2. Restack(t, k, fs)
  OBVIOUS
<1> HIDE DEF fs
<1>3. \A c : (\E i \in 1 .. Len(fs) : c = <<t, k + i>> /\ fs[Len(fs) + 1 - i] \in F)
               <=> \/ c = <<t, k + 1>> /\ fs[3] \in F
                   \/ c = <<t, k + 2>> /\ fs[2] \in F
                   \/ c = <<t, k + 3>> /\ fs[1] \in F
  <2>1. /\ 1 .. Len(fs) = {1, 2, 3}
        /\ Len(fs) + 1 - 1 = 3 /\ Len(fs) + 1 - 2 = 2 /\ Len(fs) + 1 - 3 = 1
    BY <1>1
  <2> QED BY <2>1
<1>4. \A c : (\E i \in 1 .. Len(fs) : c = <<t, k + i>> /\ fs[Len(fs) + 1 - i] \in F)
               <=> \/ c \in Where(<<t, k + 1>>, a, F) \/ c \in Where(<<t, k + 2>>, b, F)
                   \/ c \in Where(<<t, k + 3>>, e, F)
  BY <1>1, <1>3 DEF Where
<1>9. \A c : c \in CallsIn(F)' <=>
          \/ c \in CallsIn(F) /\ (c[1] # t \/ c[2] <= k)
          \/ \E i \in 1 .. Len(fs) : c = <<t, k + i>> /\ fs[Len(fs) + 1 - i] \in F
  BY <1>1, <1>2, CallsInStep
<1> QED BY <1>4, <1>9

\* Among the calls of t, those beneath the innermost one or two.
LEMMA Beneath ==
  ASSUME PoolTyped, NEW t \in Threads, NEW F
  PROVE  LET L == Len(stack[t])
         IN /\ L \in Nat
            /\ \A c \in CallsIn(F) : c[1] # t \/ c[2] <= L
            /\ L >= 1 => \A c \in CallsIn(F) : (c[1] # t \/ c[2] <= L - 1) <=> c # <<t, L>>
            /\ L >= 2 => \A c \in CallsIn(F) : (c[1] # t \/ c[2] <= L - 2) <=>
                                              (c # <<t, L>> /\ c # <<t, L - 1>>)
            /\ stack[t] # <<>> => L >= 1
<1> DEFINE L == Len(stack[t])
<1>1. L \in Nat /\ (stack[t] # <<>> => L >= 1)
  BY InnermostIn
<1>2. \A c : c \in CallsIn(F) => \/ c[1] # t
                                 \/ \E d \in 1 .. L : c = <<t, d>>
  BY CallsInForm
<1> HIDE DEF L
<1>4. \A c \in CallsIn(F) : (c[1] # t \/ c[2] <= L)
  BY <1>1, <1>2
<1>5. ASSUME L >= 1
      PROVE  \A c \in CallsIn(F) : (c[1] # t \/ c[2] <= L - 1) <=> c # <<t, L>>
  BY <1>1, <1>2, <1>5
<1>6. ASSUME L >= 2
      PROVE  \A c \in CallsIn(F) : (c[1] # t \/ c[2] <= L - 2) <=> (c # <<t, L>> /\ c # <<t, L - 1>>)
  BY <1>1, <1>2, <1>6
<1> QED BY <1>1, <1>4, <1>5, <1>6 DEF L

LEMMA Push1 ==
  ASSUME PoolTyped, NEW t \in Threads, NEW F, NEW f \in CallFrames,
         Restack(t, Len(stack[t]), <<f>>)
  PROVE  CallsIn(F)' = CallsIn(F) \cup Where(<<t, Len(stack[t]) + 1>>, f, F)
<1> DEFINE L == Len(stack[t])
<1>1. L \in Nat
  BY Beneath
<1>2. L \in Nat /\ L <= L
  BY <1>1
<1>3. \A c \in CallsIn(F) : c[1] # t \/ c[2] <= L
  BY <1>1, Beneath
<1> QED BY <1>2, <1>3, OneAbove

LEMMA Pop ==
  ASSUME PoolTyped, NEW t \in Threads, NEW F,
         stack[t] # <<>>, Restack(t, Len(stack[t]) - 1, <<>>)
  PROVE  CallsIn(F)' = CallsIn(F) \ {<<t, Len(stack[t])>>}
<1> DEFINE L == Len(stack[t])
<1>1. L \in Nat /\ L >= 1
  BY Beneath
<1>2. L - 1 \in Nat /\ L - 1 <= L /\ L - 1 + 1 = L /\ L - 1 + 2 = L + 1 /\ L - 1 + 3 = L + 2
  BY <1>1
<1>3. \A c \in CallsIn(F) : (c[1] # t \/ c[2] <= L - 1) <=> c # <<t, L>>
  BY <1>1, Beneath
<1> QED BY <1>2, <1>3, NoneAbove

LEMMA Replace1 ==
  ASSUME PoolTyped, NEW t \in Threads, NEW F, NEW f \in CallFrames,
         stack[t] # <<>>, Restack(t, Len(stack[t]) - 1, <<f>>)
  PROVE  CallsIn(F)' = (CallsIn(F) \ {<<t, Len(stack[t])>>})
                          \cup Where(<<t, Len(stack[t])>>, f, F)
<1> DEFINE L == Len(stack[t])
<1>1. L \in Nat /\ L >= 1
  BY Beneath
<1>2. L - 1 \in Nat /\ L - 1 <= L /\ L - 1 + 1 = L /\ L - 1 + 2 = L + 1 /\ L - 1 + 3 = L + 2
  BY <1>1
<1>3. \A c \in CallsIn(F) : (c[1] # t \/ c[2] <= L - 1) <=> c # <<t, L>>
  BY <1>1, Beneath
<1> QED BY <1>2, <1>3, OneAbove

LEMMA Replace2 ==
  ASSUME PoolTyped, NEW t \in Threads, NEW F, NEW f \in CallFrames, NEW g \in CallFrames,
         stack[t] # <<>>, Restack(t, Len(stack[t]) - 1, <<g, f>>)
  PROVE  CallsIn(F)' = (CallsIn(F) \ {<<t, Len(stack[t])>>})
                          \cup Where(<<t, Len(stack[t])>>, f, F)
                          \cup Where(<<t, Len(stack[t]) + 1>>, g, F)
<1> DEFINE L == Len(stack[t])
<1>1. L \in Nat /\ L >= 1
  BY Beneath
<1>2. L - 1 \in Nat /\ L - 1 <= L /\ L - 1 + 1 = L /\ L - 1 + 2 = L + 1 /\ L - 1 + 3 = L + 2
  BY <1>1
<1>3. \A c \in CallsIn(F) : (c[1] # t \/ c[2] <= L - 1) <=> c # <<t, L>>
  BY <1>1, Beneath
<1>4. \A c : c \in CallsIn(F)' <=>
          \/ c \in CallsIn(F) /\ (c[1] # t \/ c[2] <= L - 1)
          \/ c \in Where(<<t, L - 1 + 1>>, f, F)
          \/ c \in Where(<<t, L - 1 + 2>>, g, F)
  BY <1>2, TwoAbove
<1> HIDE DEF L
<1>5. \A c : c \in CallsIn(F)' <=>
          \/ c \in CallsIn(F) /\ (c[1] # t \/ c[2] <= L - 1)
          \/ c \in Where(<<t, L>>, f, F)
          \/ c \in Where(<<t, L + 1>>, g, F)
  BY <1>2, <1>4
<1> QED BY <1>3, <1>5 DEF L

LEMMA Replace3 ==
  ASSUME PoolTyped, NEW t \in Threads, NEW F, NEW f \in CallFrames, NEW g \in CallFrames,
         NEW h \in CallFrames,
         stack[t] # <<>>, Restack(t, Len(stack[t]) - 1, <<h, g, f>>)
  PROVE  CallsIn(F)' = (CallsIn(F) \ {<<t, Len(stack[t])>>})
                          \cup Where(<<t, Len(stack[t])>>, f, F)
                          \cup Where(<<t, Len(stack[t]) + 1>>, g, F)
                          \cup Where(<<t, Len(stack[t]) + 2>>, h, F)
<1> DEFINE L == Len(stack[t])
<1>1. L \in Nat /\ L >= 1
  BY Beneath
<1>2. L - 1 \in Nat /\ L - 1 <= L /\ L - 1 + 1 = L /\ L - 1 + 2 = L + 1 /\ L - 1 + 3 = L + 2
  BY <1>1
<1>3. \A c \in CallsIn(F) : (c[1] # t \/ c[2] <= L - 1) <=> c # <<t, L>>
  BY <1>1, Beneath
<1>4. \A c : c \in CallsIn(F)' <=>
          \/ c \in CallsIn(F) /\ (c[1] # t \/ c[2] <= L - 1)
          \/ c \in Where(<<t, L - 1 + 1>>, f, F)
          \/ c \in Where(<<t, L - 1 + 2>>, g, F)
          \/ c \in Where(<<t, L - 1 + 3>>, h, F)
  BY <1>2, ThreeAbove
<1> HIDE DEF L
<1>5. \A c : c \in CallsIn(F)' <=>
          \/ c \in CallsIn(F) /\ (c[1] # t \/ c[2] <= L - 1)
          \/ c \in Where(<<t, L>>, f, F)
          \/ c \in Where(<<t, L + 1>>, g, F)
          \/ c \in Where(<<t, L + 2>>, h, F)
  BY <1>2, <1>4
<1> QED BY <1>3, <1>5 DEF L

LEMMA Return1 ==
  ASSUME PoolTyped, NEW t \in Threads, NEW F, NEW f \in CallFrames,
         Len(stack[t]) >= 2, Restack(t, Len(stack[t]) - 2, <<f>>)
  PROVE  CallsIn(F)' = (CallsIn(F) \ {<<t, Len(stack[t])>>, <<t, Len(stack[t]) - 1>>})
                          \cup Where(<<t, Len(stack[t]) - 1>>, f, F)
<1> DEFINE L == Len(stack[t])
<1>1. L \in Nat /\ L >= 2
  BY Beneath
<1>2. L - 2 \in Nat /\ L - 2 <= L /\ L - 2 + 1 = L - 1 /\ L - 2 + 2 = L
  BY <1>1
<1>3. \A c \in CallsIn(F) : (c[1] # t \/ c[2] <= L - 2) <=> (c # <<t, L>> /\ c # <<t, L - 1>>)
  BY <1>1, Beneath
<1> QED BY <1>2, <1>3, OneAbove

LEMMA Return2 ==
  ASSUME PoolTyped, NEW t \in Threads, NEW F, NEW f \in CallFrames, NEW g \in CallFrames,
         Len(stack[t]) >= 2, Restack(t, Len(stack[t]) - 2, <<g, f>>)
  PROVE  CallsIn(F)' = (CallsIn(F) \ {<<t, Len(stack[t])>>, <<t, Len(stack[t]) - 1>>})
                          \cup Where(<<t, Len(stack[t]) - 1>>, f, F)
                          \cup Where(<<t, Len(stack[t])>>, g, F)
<1> DEFINE L == Len(stack[t])
<1>1. L \in Nat /\ L >= 2
  BY Beneath
<1>2. L - 2 \in Nat /\ L - 2 <= L /\ L - 2 + 1 = L - 1 /\ L - 2 + 2 = L
  BY <1>1
<1>3. \A c \in CallsIn(F) : (c[1] # t \/ c[2] <= L - 2) <=> (c # <<t, L>> /\ c # <<t, L - 1>>)
  BY <1>1, Beneath
<1> QED BY <1>2, <1>3, TwoAbove

LEMMA CallTyped ==
  ASSUME PoolTyped, NEW u \in Threads, NEW d \in 1 .. Len(stack[u])
  PROVE  CallAt(u, d) \in CallFrames
<1>1. stack[u] \in Seq(CallFrames) /\ Len(stack[u]) \in Nat
  BY LenProperties DEF PoolTyped
<1>2. Len(stack[u]) + 1 - d \in 1 .. Len(stack[u])
  BY <1>1
<1> QED BY <1>1, <1>2 DEF CallAt

LEMMA RefsForm ==
  ASSUME PoolTyped, NEW s \in Slots
  PROVE  /\ Refs(s) = CallsIn(RefFrames(s)) \cup BirthRef(s)
         /\ Droppers(s) = CallsIn(DropFrames(s))
         /\ \A F : <<Main, 0>> \notin CallsIn(F)
<1>1. \A c \in Calls : CallAt(c[1], c[2]) \in CallFrames
  BY CallTyped DEF Calls
<1>2. ASSUME NEW F, <<Main, 0>> \in CallsIn(F)
      PROVE  FALSE
  BY <1>2, CallsInForm
<1> QED BY <1>1, <1>2 DEF Refs, Droppers, CallsIn, RefFrames, DropFrames

LEMMA RefsFormNext ==
  ASSUME PoolTyped', NEW s \in Slots
  PROVE  /\ Refs(s)' = CallsIn(RefFrames(s))' \cup BirthRef(s)'
         /\ Droppers(s)' = CallsIn(DropFrames(s))'
<1>1. \A c \in Calls' : CallAt(c[1], c[2])' \in CallFrames
  <2>1. SUFFICES ASSUME NEW u \in Threads, NEW d \in 1 .. Len(stack'[u])
                 PROVE  CallAt(u, d)' \in CallFrames
    BY DEF Calls
  <2>2. stack'[u] \in Seq(CallFrames) /\ Len(stack'[u]) \in Nat
    BY LenProperties DEF PoolTyped
  <2>3. Len(stack'[u]) + 1 - d \in 1 .. Len(stack'[u])
    BY <2>2
  <2> QED BY <2>2, <2>3 DEF CallAt
<1> QED BY <1>1 DEF Refs, Droppers, CallsIn, RefFrames, DropFrames

----------------------------------------------------------------------------
(* Counting references and placing slots *)

LEMMA OneMoved ==
  ASSUME NEW R, IsFiniteSet(R), NEW a \in R, NEW b, b \notin R \ {a}
  PROVE  IsFiniteSet((R \ {a}) \cup {b}) /\ Cardinality((R \ {a}) \cup {b}) = Cardinality(R)
<1>1. /\ IsFiniteSet(R \ {a}) /\ Cardinality(R \ {a}) = Cardinality(R) - 1
      /\ Cardinality(R) \in Nat
  BY FS_RemoveElement, FS_CardinalityType
<1>2. /\ IsFiniteSet((R \ {a}) \cup {b})
      /\ Cardinality((R \ {a}) \cup {b}) = Cardinality(R \ {a}) + 1
  BY <1>1, FS_AddElement
<1> QED BY <1>1, <1>2

\* A reference may be handed from one call to another.
Handed(s) ==
  \/ Refs(s)' = Refs(s)
  \/ \E a \in Refs(s) : \E b : b \notin Refs(s) \ {a} /\ Refs(s)' = (Refs(s) \ {a}) \cup {b}

LEMMA CountKept ==
  ASSUME RefsCounted, \A s \in Slots : Handed(s) /\ slots'[s].refCount = slots[s].refCount
  PROVE  RefsCounted'
<1>1. SUFFICES ASSUME NEW s \in Slots
               PROVE  IsFiniteSet(Refs(s)') /\ slots'[s].refCount = Cardinality(Refs(s)')
  BY DEF RefsCounted
<1>2. IsFiniteSet(Refs(s)) /\ slots[s].refCount = Cardinality(Refs(s)) /\ Handed(s)
      /\ slots'[s].refCount = slots[s].refCount
  BY DEF RefsCounted
<1>3. CASE Refs(s)' = Refs(s)
  BY <1>2, <1>3
<1>4. CASE \E a \in Refs(s) : \E b : b \notin Refs(s) \ {a} /\ Refs(s)' = (Refs(s) \ {a}) \cup {b}
  BY <1>2, <1>4, OneMoved
<1> QED BY <1>2, <1>3, <1>4 DEF Handed

LEMMA CountRaised ==
  ASSUME RefsCounted, NEW r \in Slots, NEW b, b \notin Refs(r), Refs(r)' = Refs(r) \cup {b},
         slots'[r].refCount = slots[r].refCount + 1,
         \A s \in Slots \ {r} : Refs(s)' = Refs(s) /\ slots'[s].refCount = slots[s].refCount
  PROVE  RefsCounted'
<1>1. SUFFICES ASSUME NEW s \in Slots
               PROVE  IsFiniteSet(Refs(s)') /\ slots'[s].refCount = Cardinality(Refs(s)')
  BY DEF RefsCounted
<1>2. IsFiniteSet(Refs(s)) /\ slots[s].refCount = Cardinality(Refs(s))
  BY DEF RefsCounted
<1>3. CASE s = r
  <2>1. IsFiniteSet(Refs(r) \cup {b}) /\ Cardinality(Refs(r) \cup {b}) = Cardinality(Refs(r)) + 1
    BY <1>2, <1>3, FS_AddElement
  <2> QED BY <1>2, <1>3, <2>1
<1>4. CASE s # r
  BY <1>2, <1>4
<1> QED BY <1>3, <1>4

LEMMA CountLowered ==
  ASSUME RefsCounted, NEW r \in Slots, NEW a \in Refs(r), Refs(r)' = Refs(r) \ {a},
         slots'[r].refCount = slots[r].refCount - 1,
         \A s \in Slots \ {r} : Refs(s)' = Refs(s) /\ slots'[s].refCount = slots[s].refCount
  PROVE  RefsCounted'
<1>1. SUFFICES ASSUME NEW s \in Slots
               PROVE  IsFiniteSet(Refs(s)') /\ slots'[s].refCount = Cardinality(Refs(s)')
  BY DEF RefsCounted
<1>2. IsFiniteSet(Refs(s)) /\ slots[s].refCount = Cardinality(Refs(s))
  BY DEF RefsCounted
<1>3. CASE s = r
  <2>1. IsFiniteSet(Refs(r) \ {a}) /\ Cardinality(Refs(r) \ {a}) = Cardinality(Refs(r)) - 1
    BY <1>2, <1>3, FS_RemoveElement
  <2> QED BY <1>2, <1>3, <2>1
<1>4. CASE s # r
  BY <1>2, <1>4
<1> QED BY <1>3, <1>4

\* A slot with a reference counts at least one, and one without counts none.
LEMMA CountPositive ==
  ASSUME RefsCounted, NEW s \in Slots
  PROVE  /\ slots[s].refCount \in Nat
         /\ slots[s].refCount > 0 <=> Refs(s) # {}
<1>1. IsFiniteSet(Refs(s)) /\ slots[s].refCount = Cardinality(Refs(s))
  BY DEF RefsCounted
<1>2. Cardinality(Refs(s)) \in Nat /\ (Cardinality(Refs(s)) = 0 <=> Refs(s) = {})
  BY <1>1, FS_CardinalityType, FS_EmptySet
<1> QED BY <1>1, <1>2

LEMMA PlacesKept ==
  ASSUME SlotsPlaced, free' = free,
         \A s \in Slots : /\ Droppers(s)' = Droppers(s)
                          /\ slots'[s].refCount > 0 <=> slots[s].refCount > 0
  PROVE  SlotsPlaced'
BY DEF SlotsPlaced, Listed

\* The last reference to slot r goes, and the call c drops the batch.
LEMMA DropBegins ==
  ASSUME SlotsPlaced, free' = free, NEW r \in Slots, NEW c,
         slots[r].refCount > 0, ~(slots'[r].refCount > 0),
         Droppers(r)' = Droppers(r) \cup {c},
         \A s \in Slots \ {r} : /\ Droppers(s)' = Droppers(s)
                                /\ slots'[s].refCount > 0 <=> slots[s].refCount > 0
  PROVE  SlotsPlaced'
BY DEF SlotsPlaced, Listed

----------------------------------------------------------------------------
(* Pins *)

\* The call f, told that its pin succeeded, has the batch while the slots are ps.
Holding(f, ps) ==
  /\ f.at = "signal" => ps[f.id.slot].generation = f.id.gen
  /\ f.at \in Pinned => ps[Head(f.todo).slot].generation = Head(f.todo).gen

LEMMA CallsRestacked ==
  ASSUME PoolTyped, NEW t \in Threads, NEW k \in Nat, k <= Len(stack[t]),
         NEW fs \in Seq(CallFrames), Restack(t, k, fs),
         NEW u \in Threads, NEW d \in 1 .. Len(stack'[u])
  PROVE  \/ d \in 1 .. Len(stack[u]) /\ CallAt(u, d)' = CallAt(u, d) /\ (u # t \/ d <= k)
         \/ u = t /\ \E i \in 1 .. Len(fs) : d = k + i /\ CallAt(u, d)' = fs[Len(fs) + 1 - i]
<1>1. Len(fs) \in Nat /\ Len(stack[t]) \in Nat /\ Len(stack'[t]) = k + Len(fs)
  BY LenProperties DEF PoolTyped, Restack
<1>2. CASE u # t
  BY <1>2 DEF Restack, CallAt
<1>3. CASE u = t /\ d <= k
  <2>1. d \in 1 .. k /\ d \in 1 .. Len(stack[t])
    BY <1>1, <1>3
  <2> QED BY <1>3, <2>1 DEF Restack
<1>4. CASE u = t /\ d > k
  <2>1. PICK i \in 1 .. Len(fs) : d = k + i
    <3>1. d - k \in 1 .. Len(fs) /\ d = k + (d - k)
      BY <1>1, <1>4
    <3> QED BY <3>1
  <2> QED BY <1>4, <2>1 DEF Restack
<1> QED BY <1>1, <1>2, <1>3, <1>4

\* What fits without regard to the calls beneath.
Fits(f) == f.at \notin PinPoints /\ (f.at \in Pinned => f.todo # <<>>)

LEMMA CallsReplaced1 ==
  ASSUME PoolTyped, NEW t \in Threads, stack[t] # <<>>, NEW f \in CallFrames,
         Restack(t, Len(stack[t]) - 1, <<f>>),
         NEW u \in Threads, NEW d \in 1 .. Len(stack'[u])
  PROVE  /\ d \in 1 .. Len(stack[u])
         /\ CallAt(u, d)' = CallAt(u, d) \/ CallAt(u, d)' = f
<1>1. PICK k \in Nat : k = Len(stack[t]) - 1
  <2>1. Len(stack[t]) \in Nat /\ Len(stack[t]) >= 1
    BY InnermostIn
  <2>2. Len(stack[t]) - 1 \in Nat
    BY <2>1
  <2> QED BY <2>2
<1>2. k <= Len(stack[t]) /\ Restack(t, k, <<f>>)
  BY <1>1
<1>3. PICK fs \in Seq(CallFrames) : fs = <<f>>
  <2>1. <<f>> \in Seq(CallFrames)
    OBVIOUS
  <2> QED BY <2>1
<1>4. Len(fs) = 1 /\ fs[1] = f
  BY <1>3
<1>7. Restack(t, k, fs)
  BY <1>2, <1>3
<1>8. k <= Len(stack[t])
  BY <1>2
<1>5. \/ d \in 1 .. Len(stack[u]) /\ CallAt(u, d)' = CallAt(u, d) /\ (u # t \/ d <= k)
      \/ u = t /\ \E i \in 1 .. Len(fs) : d = k + i /\ CallAt(u, d)' = fs[Len(fs) + 1 - i]
  BY <1>7, <1>8, CallsRestacked
<1>6. \A i \in 1 .. Len(fs) : fs[Len(fs) + 1 - i] = f
  <2>1. \A i \in 1 .. Len(fs) : Len(fs) + 1 - i = 1
    BY <1>4
  <2> QED BY <1>4, <2>1
<1>9. u = t => k + 1 \in 1 .. Len(stack[u])
  <2>1. Len(stack[t]) \in Nat /\ Len(stack[t]) >= 1
    BY InnermostIn
  <2> QED BY <1>1, <2>1
<1>10. CASE d \in 1 .. Len(stack[u]) /\ CallAt(u, d)' = CallAt(u, d)
  BY <1>10
<1>11. CASE u = t /\ \E i \in 1 .. Len(fs) : d = k + i /\ CallAt(u, d)' = fs[Len(fs) + 1 - i]
  <2>1. PICK i \in 1 .. Len(fs) : d = k + i /\ CallAt(u, d)' = fs[Len(fs) + 1 - i]
    BY <1>11
  <2>2. i = 1
    BY <1>4, <2>1
  <2> QED BY <1>6, <1>9, <1>11, <2>1, <2>2
<1> QED BY <1>5, <1>10, <1>11

LEMMA PinsKept ==
  ASSUME PoolTyped, CallsFit, PinsHold, NEW t \in Threads, NEW k \in Nat,
         k <= Len(stack[t]), NEW fs \in Seq(CallFrames), Restack(t, k, fs),
         \A s \in Slots : slots'[s].generation = slots[s].generation,
         \A i \in 1 .. Len(fs) :
            Holding(fs[i], slots) /\ (fs[i].at \in Pinned => fs[i].todo # <<>>)
  PROVE  PinsHold'
<1>1. SUFFICES ASSUME NEW u \in Threads, NEW d \in 1 .. Len(stack'[u])
               PROVE  Holding(CallAt(u, d)', slots')
  BY DEF PinsHold, Holding, Slot
<1>2. ASSUME NEW f \in CallFrames, Holding(f, slots), f.at \in Pinned => f.todo # <<>>,
             CallAt(u, d)' = f
      PROVE  Holding(CallAt(u, d)', slots')
  <2>1. f.id.slot \in Slots
    BY DEF CallFrames, Ids
  <2>2. f.at \in Pinned => Head(f.todo).slot \in Slots
    <3>1. f.todo \in Seq(Ids)
      BY DEF CallFrames
    <3>2. f.at \in Pinned => Head(f.todo) \in Ids
      BY <1>2, <3>1
    <3> QED BY <3>2 DEF Ids
  <2> QED BY <1>2, <2>1, <2>2 DEF Holding, Slot
<1>3. CASE d \in 1 .. Len(stack[u]) /\ CallAt(u, d)' = CallAt(u, d)
  <2>1. CallAt(u, d) \in CallFrames
    BY <1>3, CallTyped
  <2>2. Holding(CallAt(u, d), slots)
    BY <1>3 DEF PinsHold, Holding, Slot
  <2>3. CallAt(u, d).at \in Pinned => CallAt(u, d).todo # <<>>
    BY <1>3 DEF CallsFit
  <2> QED BY <1>2, <1>3, <2>1, <2>2, <2>3
<1>4. CASE \E i \in 1 .. Len(fs) : CallAt(u, d)' = fs[Len(fs) + 1 - i]
  <2>1. PICK i \in 1 .. Len(fs) : CallAt(u, d)' = fs[Len(fs) + 1 - i]
    BY <1>4
  <2>2. Len(fs) + 1 - i \in 1 .. Len(fs) /\ fs[Len(fs) + 1 - i] \in CallFrames
    BY LenProperties
  <2> QED BY <1>2, <2>1, <2>2
<1> QED BY <1>3, <1>4, CallsRestacked

LEMMA FitKept ==
  ASSUME PoolTyped, CallsFit, NEW t \in Threads, NEW k \in Nat, k <= Len(stack[t]),
         NEW fs \in Seq(CallFrames), Restack(t, k, fs),
         k < Len(stack[t]) \/ stack[t] = <<>> \/ Head(stack[t]).at \notin PinPoints,
         \A i \in 1 .. Len(fs) : Fits(fs[i])
  PROVE  CallsFit'
<1>1. Len(stack[t]) \in Nat /\ Len(fs) \in Nat /\ Len(stack'[t]) = k + Len(fs)
  BY LenProperties DEF PoolTyped, Restack
<1>2. ASSUME NEW d \in 1 .. Len(stack[t]), d <= k
      PROVE  CallAt(t, d).at \notin PinPoints
  <2>1. CASE d < Len(stack[t])
    BY <2>1, <1>1 DEF CallsFit
  <2>2. CASE d = Len(stack[t])
    <3>1. stack[t] # <<>> /\ ~(k < Len(stack[t]))
      BY <1>1, <1>2, <2>2
    <3>2. Head(stack[t]) = CallAt(t, Len(stack[t]))
      BY <3>1, InnermostIn
    <3> QED BY <2>2, <3>1, <3>2
  <2> QED BY <1>1, <2>1, <2>2
<1>3. ASSUME NEW u \in Threads, NEW d \in 1 .. Len(stack'[u]), u = t
      PROVE  Fits(CallAt(u, d)')
  <2>1. CASE d \in 1 .. Len(stack[u]) /\ CallAt(u, d)' = CallAt(u, d) /\ d <= k
    BY <1>2, <1>3, <2>1 DEF CallsFit, Fits
  <2>2. CASE \E i \in 1 .. Len(fs) : CallAt(u, d)' = fs[Len(fs) + 1 - i]
    <3>1. PICK i \in 1 .. Len(fs) : CallAt(u, d)' = fs[Len(fs) + 1 - i]
      BY <2>2
    <3>2. Len(fs) + 1 - i \in 1 .. Len(fs)
      BY <1>1
    <3> QED BY <3>1, <3>2
  <2> QED BY <1>3, <2>1, <2>2, CallsRestacked
<1>4. ASSUME NEW u \in Threads, u # t
      PROVE  stack'[u] = stack[u] /\ \A d : CallAt(u, d)' = CallAt(u, d)
  BY <1>4 DEF Restack, CallAt
<1> QED BY <1>3, <1>4 DEF CallsFit, Fits

\* A pin goes on, or is begun, above the call that asks for it.
LEMMA FitPin ==
  ASSUME PoolTyped, CallsFit, NEW t \in Threads, NEW k \in Nat \ {0}, k <= Len(stack[t]),
         NEW f \in CallFrames, Restack(t, k, <<f>>),
         k < Len(stack[t]) \/ Head(stack[t]).at \notin PinPoints,
         f.at \in PinPoints, CallAt(t, k).at \in {"dependents", "addDependents"},
         CallAt(t, k).todo # <<>>, f.id = Head(CallAt(t, k).todo)
  PROVE  CallsFit'
<1>1. /\ Len(stack[t]) \in Nat /\ Len(stack'[t]) = k + 1
      /\ CallAt(t, k + 1)' = f /\ \A d \in 1 .. k : CallAt(t, d)' = CallAt(t, d)
  <2> DEFINE fs == <<f>>
  <2>1. Len(fs) = 1 /\ fs[1] = f /\ Restack(t, k, fs)
    OBVIOUS
  <2> HIDE DEF fs
  <2>2. Len(stack[t]) \in Nat
    BY LenProperties DEF PoolTyped
  <2>3. CallAt(t, k + 1)' = fs[Len(fs) + 1 - 1]
    BY <2>1 DEF Restack
  <2> QED BY <2>1, <2>2, <2>3 DEF Restack
<1>2. ASSUME NEW d \in 1 .. k
      PROVE  d \in 1 .. Len(stack[t]) /\ CallAt(t, d).at \notin PinPoints
  <2>1. CASE d < Len(stack[t])
    BY <2>1, <1>1 DEF CallsFit
  <2>2. CASE d = Len(stack[t])
    <3>1. stack[t] # <<>> /\ ~(k < Len(stack[t]))
      BY <1>1, <2>2
    <3>2. Head(stack[t]) = CallAt(t, Len(stack[t]))
      BY <3>1, InnermostIn
    <3> QED BY <1>1, <2>2, <3>1, <3>2
  <2> QED BY <1>1, <2>1, <2>2
<1>3. f.at \notin Pinned
  BY DEF PinPoints, Pinned
<1>4. \A d \in 1 .. k : Fits(CallAt(t, d)')
  BY <1>1, <1>2 DEF CallsFit, Fits
<1>5. ASSUME NEW u \in Threads, u # t
      PROVE  stack'[u] = stack[u] /\ \A d : CallAt(u, d)' = CallAt(u, d)
  BY <1>5 DEF Restack, CallAt
<1>6. ASSUME NEW d \in 1 .. Len(stack'[t])
      PROVE  /\ CallAt(t, d)'.at \in PinPoints =>
                  /\ d = Len(stack'[t]) /\ d > 1
                  /\ CallAt(t, d - 1)'.at \in {"dependents", "addDependents"}
                  /\ CallAt(t, d - 1)'.todo # <<>>
                  /\ CallAt(t, d)'.id = Head(CallAt(t, d - 1)'.todo)
             /\ CallAt(t, d)'.at \in Pinned => CallAt(t, d)'.todo # <<>>
  <2>1. CASE d = k + 1
    <3>1. d - 1 = k /\ k \in 1 .. k /\ d > 1
      BY <2>1
    <3> QED BY <1>1, <1>3, <2>1, <3>1
  <2>2. CASE d # k + 1
    <3>1. d \in 1 .. k
      BY <1>1, <2>2
    <3> QED BY <1>4, <3>1 DEF Fits
  <2> QED BY <2>1, <2>2
<1> QED BY <1>5, <1>6 DEF CallsFit

----------------------------------------------------------------------------
(* Frames, and the call a thread is in *)

LEMMA Joined ==
  ASSUME NEW f \in CallFrames, NEW g \in CallFrames, NEW h \in CallFrames
  PROVE  /\ <<g>> \o <<f>> = <<g, f>>
         /\ <<h>> \o <<g>> \o <<f>> = <<h, g, f>>
         /\ <<>> \o <<g>> \o <<f>> = <<g, f>>
         /\ <<g>> \o <<>> = <<g>>
<1>1. ASSUME NEW a \in CallFrames, NEW b \in CallFrames
      PROVE  <<a>> \o <<b>> = <<a, b>>
  <2> DEFINE p == <<a>>
             q == <<b>>
             v == <<a, b>>
  <2>1. /\ p \in Seq(CallFrames) /\ Len(p) = 1 /\ p[1] = a
        /\ q \in Seq(CallFrames) /\ Len(q) = 1 /\ q[1] = b
        /\ v \in Seq(CallFrames) /\ Len(v) = 2 /\ v[1] = a /\ v[2] = b
    OBVIOUS
  <2> HIDE DEF p, q, v
  <2>2. p \o q \in Seq(CallFrames) /\ Len(p \o q) = 2 /\ (p \o q)[1] = a /\ (p \o q)[2] = b
    BY <2>1, ConcatProperties
  <2>3. \A i \in 1 .. Len(v) : (p \o q)[i] = v[i]
    <3>1. \A i \in 1 .. Len(v) : i = 1 \/ i = 2
      BY <2>1
    <3> QED BY <2>1, <2>2, <3>1
  <2>4. p \o q = v
    BY <2>1, <2>2, <2>3, SeqEqual
  <2> QED BY <2>4 DEF p, q, v
<1>2. <<h, g>> \o <<f>> = <<h, g, f>>
  <2> DEFINE p == <<h, g>>
             q == <<f>>
             v == <<h, g, f>>
  <2>1. /\ p \in Seq(CallFrames) /\ Len(p) = 2 /\ p[1] = h /\ p[2] = g
        /\ q \in Seq(CallFrames) /\ Len(q) = 1 /\ q[1] = f
        /\ v \in Seq(CallFrames) /\ Len(v) = 3 /\ v[1] = h /\ v[2] = g /\ v[3] = f
    OBVIOUS
  <2> HIDE DEF p, q, v
  <2>2. /\ p \o q \in Seq(CallFrames) /\ Len(p \o q) = 3
        /\ (p \o q)[1] = h /\ (p \o q)[2] = g /\ (p \o q)[3] = f
    <3>1. /\ p \o q \in Seq(CallFrames) /\ Len(p \o q) = Len(p) + Len(q)
          /\ \A i \in 1 .. Len(p) + Len(q) :
               (p \o q)[i] = IF i <= Len(p) THEN p[i] ELSE q[i - Len(p)]
      BY <2>1, ConcatProperties
    <3>2. Len(p \o q) = 3
      BY <2>1, <3>1
    <3>3. \A i \in 1 .. 3 : (p \o q)[i] = IF i <= 2 THEN p[i] ELSE q[i - 2]
      BY <2>1, <3>1
    <3> QED BY <2>1, <3>1, <3>2, <3>3
  <2>3. \A i \in 1 .. Len(v) : (p \o q)[i] = v[i]
    <3>1. \A i \in 1 .. Len(v) : i = 1 \/ i = 2 \/ i = 3
      BY <2>1
    <3> QED BY <2>1, <2>2, <3>1
  <2>4. p \o q = v
    BY <2>1, <2>2, <2>3, SeqEqual
  <2> QED BY <2>4 DEF p, q, v
<1>3. <<>> \o <<g>> = <<g>> /\ <<g>> \o <<>> = <<g>>
  OBVIOUS
<1>4. <<g>> \o <<f>> = <<g, f>> /\ <<h>> \o <<g>> = <<h, g>>
  BY <1>1
<1> QED BY <1>2, <1>3, <1>4

LEMMA RefOfCases ==
  ASSUME NEW f \in CallFrames
  PROVE  /\ f.at \in {"pinVerify", "unpin", "signal", "complete"} => RefOf(f) = f.id.slot
         /\ f.at \in Pinned => RefOf(f) = Head(f.todo).slot
         /\ f.at \notin {"pinVerify", "unpin", "signal", "complete", "register", "resolve"}
              => RefOf(f) = 0
         /\ \A s : f \in RefFrames(s) <=> RefOf(f) = s
         /\ \A s : f \in DropFrames(s) <=> f.at \in DropPoints /\ f.id.slot = s
<1>1. f.at \in {"pinVerify", "unpin", "signal", "complete"} => RefOf(f) = f.id.slot
  BY DEF RefOf, Pinned
<1>2. f.at \in Pinned => RefOf(f) = Head(f.todo).slot
  BY DEF RefOf, Pinned
<1>3. f.at \notin {"pinVerify", "unpin", "signal", "complete", "register", "resolve"}
        => RefOf(f) = 0
  BY DEF RefOf, Pinned
<1> QED BY <1>1, <1>2, <1>3 DEF RefFrames, DropFrames

LEMMA SlotsPositive == \A s \in Slots : s # 0
BY PoolAssumption DEF Slots

\* The innermost call h of t.
LEMMA Innermost ==
  ASSUME PoolInv, NEW t \in Threads, stack[t] # <<>>
  PROVE  LET h == Head(stack[t])
             L == Len(stack[t])
         IN /\ L \in Nat /\ L >= 1 /\ L - 1 \in Nat /\ L - 1 <= L /\ L - 1 < L
            /\ h \in CallFrames /\ h.at \in Points /\ h.id \in Ids /\ h.todo \in Seq(Ids)
            /\ h.id.slot \in Slots /\ h.id.gen \in Nat
            /\ h.todo # <<>> => /\ Head(h.todo) \in Ids /\ Head(h.todo).slot \in Slots
                                /\ Tail(h.todo) \in Seq(Ids)
            /\ slots[h.id.slot] \in SlotStates
            /\ Id(t) = h.id /\ Todo(t) = h.todo /\ h = CallAt(t, L)
            /\ \A F : <<t, L>> \in CallsIn(F) <=> h \in F
            /\ \A F : <<t, L + 1>> \notin CallsIn(F)
            /\ h.at \in Pinned => h.todo # <<>>
<1> DEFINE h == Head(stack[t])
           L == Len(stack[t])
<1>1. PoolTyped /\ CallsFit
  BY DEF PoolInv
<1>2. L \in Nat /\ L >= 1 /\ h \in CallFrames /\ h = CallAt(t, L)
  BY <1>1, InnermostIn
<1>3. \A F : (<<t, L>> \in CallsIn(F) <=> h \in F) /\ <<t, L + 1>> \notin CallsIn(F)
  BY <1>1, InnermostIn
<1>4. L \in 1 .. Len(stack[t])
  BY <1>2
<1>5. h.at \in Pinned => h.todo # <<>>
  BY <1>1, <1>2, <1>4 DEF CallsFit
<1>6. Id(t) = h.id /\ Todo(t) = h.todo
  BY DEF Id, Todo
<1> HIDE DEF h, L
<1>7. h.at \in Points /\ h.id \in Ids /\ h.todo \in Seq(Ids) /\ h.id.slot \in Slots
      /\ h.id.gen \in Nat
  BY <1>2 DEF CallFrames, Ids
<1>8. h.todo # <<>> => /\ Head(h.todo) \in Ids /\ Head(h.todo).slot \in Slots
                       /\ Tail(h.todo) \in Seq(Ids)
  <2>1. h.todo # <<>> => Head(h.todo) \in Ids /\ Tail(h.todo) \in Seq(Ids)
    BY <1>7, HeadTailProperties
  <2> QED BY <2>1 DEF Ids
<1>9. slots[h.id.slot] \in SlotStates
  BY <1>1, <1>7 DEF PoolTyped
<1>10. L - 1 \in Nat /\ L - 1 <= L /\ L - 1 < L
  BY <1>2
<1> QED BY <1>2, <1>3, <1>5, <1>6, <1>7, <1>8, <1>9, <1>10 DEF h, L

\* The call beneath a pin is the one that asked for it.
LEMMA PinCaller ==
  ASSUME PoolInv, NEW t \in Threads, stack[t] # <<>>, Head(stack[t]).at \in PinPoints
  PROVE  LET c == stack[t][2]
             L == Len(stack[t])
         IN /\ L >= 2 /\ L - 1 \in Nat \ {0} /\ L - 2 \in Nat /\ L - 2 <= L /\ L - 2 < L
            /\ c \in CallFrames /\ c.at \in {"dependents", "addDependents"}
            /\ c.id \in Ids /\ c.todo \in Seq(Ids) /\ c.todo # <<>>
            /\ Head(stack[t]).id = Head(c.todo) /\ Tail(c.todo) \in Seq(Ids)
            /\ c = CallAt(t, L - 1)
            /\ \A F : <<t, L - 1>> \in CallsIn(F) <=> c \in F
<1> DEFINE h == Head(stack[t])
           L == Len(stack[t])
           c == stack[t][2]
<1>1. PoolTyped /\ CallsFit
  BY DEF PoolInv
<1>2. L \in Nat /\ h = CallAt(t, L) /\ L >= 1
  BY Innermost
<1>3. L \in 1 .. Len(stack[t])
  BY <1>2
<1>4. /\ L > 1 /\ CallAt(t, L - 1).at \in {"dependents", "addDependents"}
      /\ CallAt(t, L - 1).todo # <<>> /\ h.id = Head(CallAt(t, L - 1).todo)
  BY <1>1, <1>2, <1>3 DEF CallsFit
<1>5. L - 1 \in 1 .. Len(stack[t]) /\ L + 1 - (L - 1) = 2
  BY <1>2, <1>4
<1>6. c = CallAt(t, L - 1) /\ c \in CallFrames
  BY <1>1, <1>5, CallTyped DEF CallAt
<1>7. \A F : <<t, L - 1>> \in CallsIn(F) <=> c \in F
  BY <1>5, <1>6, CallsInForm
<1> HIDE DEF h, L, c
<1>8. c.id \in Ids /\ c.todo \in Seq(Ids)
  BY <1>6 DEF CallFrames
<1>9. Tail(c.todo) \in Seq(Ids)
  BY <1>4, <1>6, <1>8, HeadTailProperties
<1>10. L >= 2 /\ L - 1 \in Nat \ {0} /\ L - 2 \in Nat /\ L - 2 <= L /\ L - 2 < L
  BY <1>2, <1>4
<1> QED BY <1>4, <1>6, <1>7, <1>8, <1>9, <1>10 DEF h, L, c

----------------------------------------------------------------------------
(* Steps that move no reference and drop nothing *)

\* Frames that have the same reference and drop the same batch; frames with neither.
SameKind(f, g) ==
  /\ RefOf(f) = RefOf(g)
  /\ f.at \in DropPoints <=> g.at \in DropPoints
  /\ f.at \in DropPoints => f.id.slot = g.id.slot
Idle(f) == RefOf(f) = 0 /\ f.at \notin DropPoints

LEMMA KindsIn ==
  ASSUME NEW f \in CallFrames, NEW g \in CallFrames, NEW s \in Slots,
         NEW F \in {RefFrames(s), DropFrames(s)}
  PROVE  /\ SameKind(f, g) => (f \in F <=> g \in F)
         /\ Idle(f) => f \notin F
BY RefOfCases, SlotsPositive DEF SameKind, Idle

\* The calls with references and the calls that drop are the same as before.
CallsKept ==
  \A s \in Slots : /\ CallsIn(RefFrames(s))' = CallsIn(RefFrames(s))
                   /\ CallsIn(DropFrames(s))' = CallsIn(DropFrames(s))

LEMMA KeptByChange ==
  ASSUME PoolInv, NEW t \in Threads, NEW f \in CallFrames, NEW g \in CallFrames,
         \/ Restack(t, Len(stack[t]), <<g>>) /\ Idle(g)
         \/ /\ stack[t] # <<>>
            /\ \/ Restack(t, Len(stack[t]) - 1, <<>>) /\ Idle(Head(stack[t]))
               \/ Restack(t, Len(stack[t]) - 1, <<f>>) /\ SameKind(f, Head(stack[t]))
               \/ /\ Restack(t, Len(stack[t]) - 1, <<g, f>>)
                  /\ SameKind(f, Head(stack[t])) /\ Idle(g)
         \/ /\ stack[t] # <<>> /\ Head(stack[t]).at \in PinPoints
            /\ SameKind(f, stack[t][2])
            /\ \/ Restack(t, Len(stack[t]) - 2, <<f>>) /\ Idle(Head(stack[t]))
               \/ /\ Restack(t, Len(stack[t]) - 2, <<g, f>>)
                  /\ SameKind(g, Head(stack[t]))
  PROVE  CallsKept
<1> DEFINE L == Len(stack[t])
           h == Head(stack[t])
           c == stack[t][2]
<1>0. PoolTyped
  BY DEF PoolInv
<1>1. SUFFICES ASSUME NEW s \in Slots, NEW F \in {RefFrames(s), DropFrames(s)}
               PROVE  CallsIn(F)' = CallsIn(F)
  BY DEF CallsKept
<1>2. /\ SameKind(f, h) /\ stack[t] # <<>> => (f \in F <=> h \in F)
      /\ SameKind(g, h) /\ stack[t] # <<>> => (g \in F <=> h \in F)
      /\ Idle(h) /\ stack[t] # <<>> => h \notin F
      /\ Idle(g) => g \notin F
  BY KindsIn, Innermost
<1>3. stack[t] # <<>> => (<<t, L>> \in CallsIn(F) <=> h \in F)
  BY Innermost
<1>4. CASE Restack(t, L, <<g>>) /\ Idle(g)
  <2>1. CallsIn(F)' = CallsIn(F) \cup Where(<<t, L + 1>>, g, F)
    BY <1>0, <1>4, Push1
  <2> QED BY <1>2, <1>4, <2>1 DEF Where
<1>5. CASE stack[t] # <<>> /\ Restack(t, L - 1, <<>>) /\ Idle(h)
  <2>1. CallsIn(F)' = CallsIn(F) \ {<<t, L>>}
    BY <1>0, <1>5, Pop
  <2> QED BY <1>2, <1>3, <1>5, <2>1
<1>6. CASE stack[t] # <<>> /\ Restack(t, L - 1, <<f>>) /\ SameKind(f, h)
  <2>1. CallsIn(F)' = (CallsIn(F) \ {<<t, L>>}) \cup Where(<<t, L>>, f, F)
    BY <1>0, <1>6, Replace1
  <2> QED BY <1>2, <1>3, <1>6, <2>1 DEF Where
<1>7. CASE stack[t] # <<>> /\ Restack(t, L - 1, <<g, f>>) /\ SameKind(f, h) /\ Idle(g)
  <2>1. CallsIn(F)' = (CallsIn(F) \ {<<t, L>>}) \cup Where(<<t, L>>, f, F)
                        \cup Where(<<t, L + 1>>, g, F)
    BY <1>0, <1>7, Replace2
  <2> QED BY <1>2, <1>3, <1>7, <2>1 DEF Where
<1>8. ASSUME stack[t] # <<>>, h.at \in PinPoints, SameKind(f, c)
      PROVE  L >= 2 /\ (f \in F <=> <<t, L - 1>> \in CallsIn(F)) /\ L # L - 1
  <2>1. /\ L >= 2 /\ c \in CallFrames /\ (<<t, L - 1>> \in CallsIn(F) <=> c \in F)
        /\ L - 1 < L
    BY <1>8, PinCaller, Innermost
  <2> QED BY <1>8, <2>1, KindsIn
<1>9. CASE /\ stack[t] # <<>> /\ h.at \in PinPoints /\ SameKind(f, c)
           /\ Restack(t, L - 2, <<f>>) /\ Idle(h)
  <2>1. CallsIn(F)' = (CallsIn(F) \ {<<t, L>>, <<t, L - 1>>}) \cup Where(<<t, L - 1>>, f, F)
    BY <1>0, <1>8, <1>9, Return1
  <2> QED BY <1>2, <1>3, <1>8, <1>9, <2>1 DEF Where
<1>10. CASE /\ stack[t] # <<>> /\ h.at \in PinPoints /\ SameKind(f, c)
            /\ Restack(t, L - 2, <<g, f>>) /\ SameKind(g, h)
  <2>1. CallsIn(F)' = (CallsIn(F) \ {<<t, L>>, <<t, L - 1>>})
                        \cup Where(<<t, L - 1>>, f, F) \cup Where(<<t, L>>, g, F)
    BY <1>0, <1>8, <1>10, Return2
  <2> QED BY <1>2, <1>3, <1>8, <1>10, <2>1 DEF Where
<1> QED BY <1>4, <1>5, <1>6, <1>7, <1>9, <1>10

LEMMA UnmovedStep ==
  ASSUME PoolInv, PoolTyped', CallsKept, free' = free,
         \A s \in Slots : /\ slots'[s].refCount = slots[s].refCount
                          /\ slots'[s].remainingJobs > 0 <=> slots[s].remainingJobs > 0
  PROVE  RefsCounted' /\ SlotsPlaced'
<1>1. PoolTyped /\ RefsCounted /\ SlotsPlaced
  BY DEF PoolInv
<1>2. \A s \in Slots : BirthRef(s)' = BirthRef(s)
  BY DEF BirthRef
<1>3. \A s \in Slots : Refs(s)' = Refs(s) /\ Droppers(s)' = Droppers(s)
  BY <1>1, <1>2, RefsForm, RefsFormNext DEF CallsKept
<1>4. \A s \in Slots : Handed(s)
  BY <1>3 DEF Handed
<1> QED BY <1>1, <1>3, <1>4, CountKept, PlacesKept

\* A slot gets new contents.
LEMMA SlotSet ==
  ASSUME PoolTyped, NEW r \in Slots, NEW e \in SlotStates, slots' = [slots EXCEPT ![r] = e]
  PROVE  /\ slots' \in [Slots -> SlotStates] /\ slots'[r] = e
         /\ \A s \in Slots : s # r => slots'[s] = slots[s]
BY DEF PoolTyped

LEMMA FieldSet ==
  ASSUME NEW e \in SlotStates
  PROVE  /\ \A n \in Nat : LET x == [e EXCEPT !["refCount"] = n] IN
              /\ x \in SlotStates /\ x.refCount = n
              /\ x.generation = e.generation /\ x.remainingJobs = e.remainingJobs
         /\ \A n \in Int : LET x == [e EXCEPT !["dependencyCount"] = n] IN
              /\ x \in SlotStates /\ x.refCount = e.refCount
              /\ x.generation = e.generation /\ x.remainingJobs = e.remainingJobs
         /\ \A n \in Int : LET x == [e EXCEPT !["toStart"] = n] IN
              /\ x \in SlotStates /\ x.refCount = e.refCount
              /\ x.generation = e.generation /\ x.remainingJobs = e.remainingJobs
         /\ \A n \in Int : LET x == [e EXCEPT !["remainingJobs"] = n] IN
              /\ x \in SlotStates /\ x.refCount = e.refCount
              /\ x.generation = e.generation /\ x.remainingJobs = n
BY DEF SlotStates

----------------------------------------------------------------------------
(* One lemma per action: tryPin and unpin *)

\* A pin that has failed without taking a reference.
LEMMA PinGivenUp ==
  ASSUME PoolInv, NEW t \in Threads, stack[t] # <<>>,
         Head(stack[t]).at \in {"pinCheck", "pinTake"}, PinFails(t, <<>>),
         UNCHANGED <<slots, free, queue, issued>>
  PROVE  PoolInv'
<1> DEFINE c == stack[t][2]
           L == Len(stack[t])
           f == Frame(c.at, c.id, Tail(c.todo))
           fs == <<f>>
<1>0. PoolTyped /\ CallsFit /\ PinsHold
  BY DEF PoolInv
<1>1. Head(stack[t]).at \in PinPoints
  BY DEF PinPoints
<1>2. /\ L >= 2 /\ L - 2 \in Nat /\ L - 2 <= L /\ L - 2 < L
      /\ c \in CallFrames /\ c.at \in {"dependents", "addDependents"}
      /\ c.id \in Ids /\ Tail(c.todo) \in Seq(Ids) /\ c.at \in Points
  BY <1>1, PinCaller DEF CallFrames
<1>3. f \in CallFrames /\ f.at = c.at /\ f.id = c.id
  BY <1>2 DEF Frame, CallFrames
<1>4. stack' = [stack EXCEPT ![t] = <<f>> \o Tail(Tail(@))]
  <2>1. stack' = [stack EXCEPT ![t] = <<>> \o <<f>> \o Tail(Tail(@))]
    BY DEF PinFails
  <2>2. <<>> \o <<f>> = <<f>>
    BY <1>3
  <2> QED BY <2>1, <2>2
<1> HIDE DEF f
<1>5. fs \in Seq(CallFrames) /\ Len(fs) = 1 /\ fs[1] = f
  BY <1>3
<1>6. Restack(t, L - 2, fs)
  BY <1>0, <1>2, <1>4, <1>5, Returned
<1>7. SameKind(f, c) /\ Idle(Head(stack[t]))
  BY <1>2, <1>3, RefOfCases, Innermost DEF SameKind, Idle, DropPoints, Pinned
<1>8. CallsKept
  BY <1>1, <1>3, <1>6, <1>7, KeptByChange
<1>9. PoolTyped'
  BY <1>0, <1>6 DEF PoolTyped, Restack
<1>10. RefsCounted' /\ SlotsPlaced'
  BY <1>8, <1>9, UnmovedStep
<1>11. Fits(f) /\ Holding(f, slots)
  BY <1>2, <1>3 DEF Fits, Holding, PinPoints, Pinned
<1> HIDE DEF fs
<1>12. CallsFit'
  BY <1>0, <1>2, <1>5, <1>6, <1>11, FitKept DEF Fits
<1>13. PinsHold'
  BY <1>0, <1>2, <1>5, <1>6, <1>11, PinsKept, SMTT(30) DEF Fits
<1> QED BY <1>9, <1>10, <1>12, <1>13 DEF PoolInv

\* A pin has come one step further.
LEMMA PinGoesOn ==
  ASSUME PoolInv, NEW t \in Threads, stack[t] # <<>>, NEW f \in CallFrames,
         Head(stack[t]).at \in PinPoints, f.at \in PinPoints, f.id = Head(stack[t]).id,
         Restack(t, Len(stack[t]) - 1, <<f>>),
         \A s \in Slots : slots'[s].generation = slots[s].generation
  PROVE  CallsFit' /\ PinsHold'
<1> DEFINE L == Len(stack[t])
           c == stack[t][2]
           fs == <<f>>
<1>1. PoolTyped /\ CallsFit /\ PinsHold
  BY DEF PoolInv
<1>2. /\ L - 1 \in Nat \ {0} /\ L - 1 <= L /\ L - 1 < L /\ c = CallAt(t, L - 1)
      /\ c.at \in {"dependents", "addDependents"} /\ c.todo # <<>> /\ f.id = Head(c.todo)
  BY PinCaller, Innermost
<1>3. CallsFit'
  BY <1>1, <1>2, FitPin
<1>4. fs \in Seq(CallFrames) /\ Len(fs) = 1 /\ fs[1] = f /\ Restack(t, L - 1, fs)
  OBVIOUS
<1>5. Holding(f, slots) /\ f.at \notin Pinned
  BY DEF Holding, PinPoints, Pinned
<1> HIDE DEF fs
<1>6. PinsHold'
  BY <1>1, <1>2, <1>4, <1>5, PinsKept
<1> QED BY <1>3, <1>6

\* The innermost call, which had none, takes a reference to slot r.
LEMMA ReferenceTaken ==
  ASSUME PoolInv, PoolTyped', NEW t \in Threads, stack[t] # <<>>, NEW f \in CallFrames,
         Restack(t, Len(stack[t]) - 1, <<f>>), Idle(Head(stack[t])),
         NEW r \in Slots, RefOf(f) = r, f.at \notin DropPoints, free' = free,
         slots[r].refCount > 0, slots'[r].refCount = slots[r].refCount + 1,
         \A s \in Slots \ {r} : slots'[s].refCount = slots[s].refCount,
         \A s \in Slots : slots'[s].remainingJobs = slots[s].remainingJobs
  PROVE  RefsCounted' /\ SlotsPlaced'
<1> DEFINE x == <<t, Len(stack[t])>>
           h == Head(stack[t])
<1>1. PoolTyped /\ RefsCounted /\ SlotsPlaced
  BY DEF PoolInv
<1>2. \A F : CallsIn(F)' = (CallsIn(F) \ {x}) \cup Where(x, f, F)
  BY <1>1, Replace1
<1>3. h \in CallFrames /\ (\A F : x \in CallsIn(F) <=> h \in F) /\ x # <<Main, 0>>
  <2>1. h \in CallFrames /\ (\A F : <<t, Len(stack[t])>> \in CallsIn(F) <=> h \in F)
    BY Innermost
  <2>2. Len(stack[t]) # 0
    BY Innermost
  <2> QED BY <2>1, <2>2
<1> HIDE DEF x, h
<1>4. \A s \in Slots : /\ x \notin CallsIn(RefFrames(s)) /\ x \notin CallsIn(DropFrames(s))
                       /\ f \in RefFrames(s) <=> s = r
                       /\ f \notin DropFrames(s)
  BY <1>3, RefOfCases, KindsIn DEF h
<1>5. \A s \in Slots : /\ CallsIn(DropFrames(s))' = CallsIn(DropFrames(s))
                       /\ s # r => CallsIn(RefFrames(s))' = CallsIn(RefFrames(s))
                       /\ s = r => CallsIn(RefFrames(s))' = CallsIn(RefFrames(s)) \cup {x}
  BY <1>2, <1>4 DEF Where
<1>6. \A s \in Slots : BirthRef(s)' = BirthRef(s) /\ x \notin BirthRef(s)
  BY <1>3 DEF BirthRef
<1>7. /\ \A s \in Slots : Droppers(s)' = Droppers(s) /\ (s # r => Refs(s)' = Refs(s))
      /\ Refs(r)' = Refs(r) \cup {x} /\ x \notin Refs(r)
  <2>1. \A s \in Slots : /\ Droppers(s) = CallsIn(DropFrames(s))
                         /\ Refs(s) = CallsIn(RefFrames(s)) \cup BirthRef(s)
    BY <1>1, RefsForm
  <2>2. \A s \in Slots : /\ Droppers(s)' = CallsIn(DropFrames(s))'
                         /\ Refs(s)' = CallsIn(RefFrames(s))' \cup BirthRef(s)'
    BY <1>1, RefsFormNext
  <2>3. \A s \in Slots : Droppers(s)' = Droppers(s) /\ (s # r => Refs(s)' = Refs(s))
    BY <1>5, <1>6, <2>1, <2>2
  <2>4. Refs(r)' = Refs(r) \cup {x} /\ x \notin Refs(r)
    BY <1>4, <1>5, <1>6, <2>1, <2>2
  <2> QED BY <2>3, <2>4
<1>8. RefsCounted'
  BY <1>1, <1>7, CountRaised
<1>9. \A s \in Slots : slots'[s].refCount > 0 <=> slots[s].refCount > 0
  <2>1. slots[r].refCount \in Nat
    BY <1>1, CountPositive
  <2> QED BY <2>1
<1>10. SlotsPlaced'
  BY <1>1, <1>7, <1>9, PlacesKept
<1> QED BY <1>8, <1>10

\* The innermost call gives the reference it has to slot r back; the last one
\* leaves a call that drops the batch.
LEMMA ReferenceGiven ==
  ASSUME PoolInv, PoolTyped', NEW t \in Threads, stack[t] # <<>>,
         NEW r \in Slots, RefOf(Head(stack[t])) = r, free' = free,
         \A s \in Slots : CallsIn(RefFrames(s))' = CallsIn(RefFrames(s)) \ {<<t, Len(stack[t])>>},
         slots'[r].refCount = slots[r].refCount - 1,
         \A s \in Slots \ {r} : slots'[s].refCount = slots[s].refCount,
         \A s \in Slots : slots'[s].remainingJobs = slots[s].remainingJobs,
         \A s \in Slots \ {r} : CallsIn(DropFrames(s))' = CallsIn(DropFrames(s)),
         slots[r].refCount # 1 => CallsIn(DropFrames(r))' = CallsIn(DropFrames(r)),
         NEW y, slots[r].refCount = 1 =>
                   CallsIn(DropFrames(r))' = CallsIn(DropFrames(r)) \cup {y}
  PROVE  RefsCounted' /\ SlotsPlaced'
<1> DEFINE x == <<t, Len(stack[t])>>
           h == Head(stack[t])
<1>1. PoolTyped /\ RefsCounted /\ SlotsPlaced
  BY DEF PoolInv
<1>2. h \in CallFrames /\ (\A F : x \in CallsIn(F) <=> h \in F) /\ x # <<Main, 0>>
  <2>1. h \in CallFrames /\ (\A F : <<t, Len(stack[t])>> \in CallsIn(F) <=> h \in F)
    BY Innermost
  <2>2. Len(stack[t]) # 0
    BY Innermost
  <2> QED BY <2>1, <2>2
<1> HIDE DEF x
<1>3. \A s \in Slots : x \in CallsIn(RefFrames(s)) <=> s = r
  BY <1>2, RefOfCases
<1>4. \A s \in Slots : BirthRef(s)' = BirthRef(s) /\ x \notin BirthRef(s)
  BY <1>2 DEF BirthRef
<1>5. \A s \in Slots : Refs(s)' = Refs(s) \ {x} /\ (x \in Refs(s) <=> s = r)
  <2>1. \A s \in Slots : Refs(s) = CallsIn(RefFrames(s)) \cup BirthRef(s)
    BY <1>1, RefsForm
  <2>2. \A s \in Slots : Refs(s)' = CallsIn(RefFrames(s))' \cup BirthRef(s)'
    BY <1>1, RefsFormNext
  <2>3. \A s \in Slots : CallsIn(RefFrames(s))' = CallsIn(RefFrames(s)) \ {x}
    BY DEF x
  <2> QED BY <1>3, <1>4, <2>1, <2>2, <2>3
<1>6. RefsCounted'
  <2>1. x \in Refs(r) /\ Refs(r)' = Refs(r) \ {x}
    BY <1>5
  <2>2. \A s \in Slots \ {r} : Refs(s)' = Refs(s)
    <3>1. ASSUME NEW s \in Slots \ {r}
          PROVE  Refs(s)' = Refs(s)
      <4>1. Refs(s)' = Refs(s) \ {x} /\ x \notin Refs(s)
        BY <1>5, <3>1
      <4> QED BY <4>1
    <3> QED BY <3>1
  <2> QED BY <1>1, <2>1, <2>2, CountLowered
<1>7. slots[r].refCount \in Nat /\ slots[r].refCount > 0
  BY <1>1, <1>5, CountPositive
<1>8. \A s \in Slots : /\ Droppers(s) = CallsIn(DropFrames(s))
                       /\ Droppers(s)' = CallsIn(DropFrames(s))'
  BY <1>1, RefsForm, RefsFormNext
<1>9. CASE slots[r].refCount = 1
  <2>1. ~(slots'[r].refCount > 0) /\ Droppers(r)' = Droppers(r) \cup {y}
    BY <1>8, <1>9
  <2>2. \A s \in Slots \ {r} : /\ Droppers(s)' = Droppers(s)
                               /\ slots'[s].refCount > 0 <=> slots[s].refCount > 0
    BY <1>8
  <2>3. SlotsPlaced'
    BY <1>1, <1>7, <2>1, <2>2, DropBegins
  <2> QED BY <1>6, <2>3
<1>10. CASE slots[r].refCount # 1
  <2>1. slots'[r].refCount > 0
    BY <1>7, <1>10
  <2>2. \A s \in Slots : /\ Droppers(s)' = Droppers(s)
                         /\ slots'[s].refCount > 0 <=> slots[s].refCount > 0
    BY <1>7, <1>8, <1>10, <2>1
  <2> QED BY <1>1, <1>6, <2>2, PlacesKept
<1> QED BY <1>9, <1>10

LEMMA PinCheckKeeps == ASSUME PoolInv, NEW t \in Threads, PinCheck(t) PROVE PoolInv'
<1> DEFINE L == Len(stack[t])
           h == Head(stack[t])
           f == Frame("pinTake", Id(t), <<>>)
<1>1. /\ stack[t] # <<>> /\ h.at = "pinCheck" /\ PoolTyped
      /\ slots' = slots /\ free' = free /\ queue' = queue /\ issued' = issued
  BY DEF PinCheck, At, PoolInv
<1>2. CASE PinFails(t, <<>>)
  BY <1>1, <1>2, PinGivenUp
<1>3. CASE Continue(t, <<f>>)
  <2>1. Id(t) = h.id /\ h \in CallFrames /\ h.id \in Ids /\ L - 1 \in Nat
    BY <1>1, Innermost
  <2>2. f \in CallFrames /\ f.at = "pinTake" /\ f.id = h.id
    BY <2>1 DEF Frame, CallFrames, Points
  <2> HIDE DEF f
  <2>3. Restack(t, L - 1, <<f>>)
    BY <1>1, <1>3, <2>2, Continued1
  <2>4. SameKind(f, h)
    BY <1>1, <2>1, <2>2, RefOfCases DEF SameKind, DropPoints
  <2>5. CallsKept
    BY <1>1, <2>2, <2>3, <2>4, KeptByChange
  <2>6. PoolTyped'
    BY <1>1, <2>3 DEF PoolTyped, Restack
  <2>7. RefsCounted' /\ SlotsPlaced'
    BY <1>1, <2>5, <2>6, UnmovedStep
  <2>8. CallsFit' /\ PinsHold'
    BY <1>1, <2>2, <2>3, PinGoesOn DEF PinPoints
  <2> QED BY <2>6, <2>7, <2>8 DEF PoolInv
<1> QED BY <1>2, <1>3 DEF PinCheck

LEMMA PinTakeKeeps == ASSUME PoolInv, NEW t \in Threads, PinTake(t) PROVE PoolInv'
<1> DEFINE L == Len(stack[t])
           h == Head(stack[t])
           r == h.id.slot
           f == Frame("pinVerify", Id(t), <<>>)
           e == [slots[r] EXCEPT !["refCount"] = slots[r].refCount + 1]
<1>1. /\ stack[t] # <<>> /\ h.at = "pinTake" /\ PoolTyped /\ RefsCounted
      /\ free' = free /\ queue' = queue /\ issued' = issued
  BY DEF PinTake, At, PoolInv
<1>2. /\ Id(t) = h.id /\ h \in CallFrames /\ h.id \in Ids /\ L - 1 \in Nat
      /\ r \in Slots /\ slots[r] \in SlotStates
  BY <1>1, Innermost
<1>3. slots[r].refCount \in Nat
  BY <1>1, <1>2, CountPositive
<1>4. CASE slots[r].refCount = 0
  <2>1. PinFails(t, <<>>) /\ slots' = slots
    BY <1>2, <1>4 DEF PinTake, Slot
  <2> QED BY <1>1, <2>1, PinGivenUp
<1>5. CASE slots[r].refCount # 0
  <2>1. Continue(t, <<f>>) /\ slots' = [slots EXCEPT ![r] = e]
    BY <1>2, <1>5 DEF PinTake, Slot, Set
  <2>2. f \in CallFrames /\ f.at = "pinVerify" /\ f.id = h.id
    BY <1>2 DEF Frame, CallFrames, Points
  <2>3. /\ e \in SlotStates /\ e.refCount = slots[r].refCount + 1
        /\ e.generation = slots[r].generation /\ e.remainingJobs = slots[r].remainingJobs
    BY <1>2, <1>3, FieldSet
  <2> HIDE DEF f, e
  <2>4. /\ slots' \in [Slots -> SlotStates] /\ slots'[r] = e
        /\ \A s \in Slots : s # r => slots'[s] = slots[s]
    BY <1>1, <1>2, <2>1, <2>3, SlotSet
  <2>5. Restack(t, L - 1, <<f>>)
    BY <1>1, <2>1, <2>2, Continued1
  <2>6. PoolTyped'
    BY <1>1, <2>4, <2>5 DEF PoolTyped, Restack
  <2>7. Idle(h) /\ RefOf(f) = r /\ f.at \notin DropPoints
    BY <1>1, <1>2, <2>2, RefOfCases DEF Idle, DropPoints
  <2>8. RefsCounted' /\ SlotsPlaced'
    BY <1>1, <1>2, <1>3, <1>5, <2>2, <2>3, <2>4, <2>5, <2>6, <2>7, ReferenceTaken, SMTT(30)
  <2>9. CallsFit' /\ PinsHold'
    BY <1>1, <2>2, <2>3, <2>4, <2>5, PinGoesOn DEF PinPoints
  <2> QED BY <2>6, <2>8, <2>9 DEF PoolInv
<1> QED BY <1>4, <1>5

\* The pin was taken and its handle still names the batch: the reference goes to
\* the call that asked for it.
LEMMA PinVerified ==
  ASSUME PoolInv, NEW t \in Threads, stack[t] # <<>>, Head(stack[t]).at = "pinVerify",
         Slot(Id(t)).generation = Id(t).gen, PinSucceeds(t),
         UNCHANGED <<slots, free, queue, issued>>
  PROVE  PoolInv'
<1> DEFINE L == Len(stack[t])
           h == Head(stack[t])
           c == stack[t][2]
           f == Frame(IF c.at = "dependents" THEN "resolve" ELSE "register", c.id, c.todo)
           fs == <<f>>
           x == <<t, L>>
           y == <<t, L - 1>>
           r == h.id.slot
<1>1. PoolTyped /\ CallsFit /\ PinsHold /\ RefsCounted /\ SlotsPlaced
  BY DEF PoolInv
<1>2. h.at \in PinPoints
  BY DEF PinPoints
<1>3. /\ L >= 2 /\ L - 2 \in Nat /\ L - 2 <= L /\ L - 2 < L
      /\ c \in CallFrames /\ c.at \in {"dependents", "addDependents"}
      /\ c.id \in Ids /\ c.todo \in Seq(Ids) /\ c.todo # <<>> /\ h.id = Head(c.todo)
  BY <1>2, PinCaller
<1>4. \A F : y \in CallsIn(F) <=> c \in F
  BY <1>2, PinCaller
<1>5. \A F : x \in CallsIn(F) <=> h \in F
  BY Innermost
<1>6. h \in CallFrames /\ r \in Slots /\ Id(t) = h.id
  BY Innermost
<1>7. f \in CallFrames /\ f.at \in {"resolve", "register"} /\ f.id = c.id /\ f.todo = c.todo
  BY <1>3 DEF Frame, CallFrames, Points
<1>8. x # y /\ x # <<Main, 0>> /\ y # <<Main, 0>>
  BY <1>3
<1>9. stack' = [stack EXCEPT ![t] = fs \o Tail(Tail(@))]
  BY DEF PinSucceeds
<1> HIDE DEF f
<1>10. fs \in Seq(CallFrames) /\ Len(fs) = 1 /\ fs[1] = f
  BY <1>7
<1>11. Restack(t, L - 2, fs)
  BY <1>1, <1>3, <1>9, <1>10, Returned
<1>12. \A F : CallsIn(F)' = (CallsIn(F) \ {x, y}) \cup Where(y, f, F)
  BY <1>1, <1>3, <1>7, <1>11, Return1
<1>13. RefOf(h) = r /\ RefOf(f) = r /\ RefOf(c) = 0
  BY <1>3, <1>6, <1>7, RefOfCases DEF Pinned
<1> HIDE DEF x, y, h, c
<1>14. \A s \in Slots : /\ x \in CallsIn(RefFrames(s)) <=> s = r
                        /\ y \notin CallsIn(RefFrames(s))
                        /\ f \in RefFrames(s) <=> s = r
                        /\ x \notin CallsIn(DropFrames(s))
                        /\ y \in CallsIn(DropFrames(s)) <=> f \in DropFrames(s)
  <2>1. h.at \notin DropPoints
    BY DEF h, DropPoints
  <2>2. (f.at \in DropPoints <=> c.at \in DropPoints) /\ f.id = c.id
    <3>1. c.at = "dependents" => f.at = "resolve"
      BY <1>3 DEF f, c, Frame
    <3>2. c.at # "dependents" => f.at = "register"
      BY <1>3 DEF f, c, Frame
    <3> QED BY <1>3, <1>7, <3>1, <3>2 DEF DropPoints
  <2> QED BY <1>3, <1>4, <1>5, <1>6, <1>7, <1>13, <2>1, <2>2, RefOfCases, SlotsPositive
<1>15. \A s \in Slots : /\ CallsIn(DropFrames(s))' = CallsIn(DropFrames(s))
                        /\ s # r => CallsIn(RefFrames(s))' = CallsIn(RefFrames(s))
                        /\ s = r => CallsIn(RefFrames(s))' =
                                       (CallsIn(RefFrames(s)) \ {x}) \cup {y}
  BY <1>8, <1>12, <1>14 DEF Where
<1>16. PoolTyped'
  BY <1>1, <1>11 DEF PoolTyped, Restack
<1>17. \A s \in Slots : BirthRef(s)' = BirthRef(s) /\ x \notin BirthRef(s) /\ y \notin BirthRef(s)
  BY <1>8 DEF BirthRef
<1>18. ASSUME NEW s \in Slots
       PROVE  Droppers(s)' = Droppers(s) /\ Handed(s)
  <2>1. /\ Refs(s) = CallsIn(RefFrames(s)) \cup BirthRef(s)
        /\ Refs(s)' = CallsIn(RefFrames(s))' \cup BirthRef(s)'
        /\ Droppers(s) = CallsIn(DropFrames(s))
        /\ Droppers(s)' = CallsIn(DropFrames(s))'
    BY <1>1, <1>16, RefsForm, RefsFormNext
  <2>2. Droppers(s)' = Droppers(s)
    BY <1>15, <2>1
  <2>3. CASE s # r
    <3>1. Refs(s)' = Refs(s)
      BY <1>15, <1>17, <2>1, <2>3
    <3> QED BY <2>2, <3>1 DEF Handed
  <2>4. CASE s = r
    <3>1. x \in Refs(s) /\ y \notin Refs(s)
      BY <1>14, <1>17, <2>1, <2>4
    <3>2. Refs(s)' = (CallsIn(RefFrames(s)) \ {x}) \cup {y} \cup BirthRef(s)
      BY <1>15, <1>17, <2>1, <2>4
    <3>3. Refs(s)' = (Refs(s) \ {x}) \cup {y}
      BY <1>17, <2>1, <3>2
    <3> QED BY <2>2, <3>1, <3>3 DEF Handed
  <2> QED BY <2>3, <2>4
<1>20. RefsCounted' /\ SlotsPlaced'
  BY <1>1, <1>18, CountKept, PlacesKept
<1>21. Fits(f) /\ Holding(f, slots)
  BY <1>3, <1>6, <1>7 DEF Fits, Holding, PinPoints, Slot
<1> HIDE DEF fs
<1>23. \A i \in 1 .. Len(fs) : Fits(fs[i]) /\ Holding(fs[i], slots)
  BY <1>10, <1>21
<1>22. CallsFit' /\ PinsHold'
  BY <1>1, <1>3, <1>10, <1>11, <1>23, FitKept, PinsKept DEF Fits
<1> QED BY <1>16, <1>20, <1>22 DEF PoolInv

LEMMA PinVerifyKeeps == ASSUME PoolInv, NEW t \in Threads, PinVerify(t) PROVE PoolInv'
<1> DEFINE L == Len(stack[t])
           h == Head(stack[t])
           c == stack[t][2]
           f == Frame(c.at, c.id, Tail(c.todo))
           g == Frame("unpin", Id(t), <<>>)
           fs == <<g, f>>
<1>1. /\ stack[t] # <<>> /\ h.at = "pinVerify"
      /\ slots' = slots /\ free' = free /\ queue' = queue /\ issued' = issued
  BY DEF PinVerify, At
<1>2. PoolTyped /\ CallsFit /\ PinsHold
  BY DEF PoolInv
<1>3. CASE Slot(Id(t)).generation = Id(t).gen
  BY <1>1, <1>3, PinVerified DEF PinVerify
<1>4. CASE PinFails(t, <<g>>)
  <2>1. h.at \in PinPoints
    BY <1>1 DEF PinPoints
  <2>2. /\ L >= 2 /\ L - 2 \in Nat /\ L - 2 <= L /\ L - 2 < L
        /\ c \in CallFrames /\ c.at \in {"dependents", "addDependents"}
        /\ c.id \in Ids /\ Tail(c.todo) \in Seq(Ids) /\ c.at \in Points
    BY <1>1, <2>1, PinCaller DEF CallFrames
  <2>3. h \in CallFrames /\ Id(t) = h.id /\ h.id \in Ids
    BY <1>1, Innermost
  <2>4. f \in CallFrames /\ f.at = c.at /\ f.id = c.id
    BY <2>2 DEF Frame, CallFrames
  <2>5. g \in CallFrames /\ g.at = "unpin" /\ g.id = h.id
    BY <2>3 DEF Frame, CallFrames, Points
  <2>6. stack' = [stack EXCEPT ![t] = <<g, f>> \o Tail(Tail(@))]
    <3>1. stack' = [stack EXCEPT ![t] = <<g>> \o <<f>> \o Tail(Tail(@))]
      BY <1>4 DEF PinFails
    <3>2. <<g>> \o <<f>> = <<g, f>>
      BY <2>4, <2>5, Joined
    <3> QED BY <3>1, <3>2
  <2> HIDE DEF f, g
  <2>7. fs \in Seq(CallFrames) /\ Len(fs) = 2 /\ fs[1] = g /\ fs[2] = f
    BY <2>4, <2>5
  <2>8. Restack(t, L - 2, fs)
    BY <1>2, <2>2, <2>6, <2>7, Returned
  <2>9. SameKind(f, c) /\ SameKind(g, h)
    BY <1>1, <2>2, <2>3, <2>4, <2>5, RefOfCases DEF SameKind, DropPoints, Pinned
  <2>10. CallsKept
    BY <1>1, <2>1, <2>4, <2>5, <2>8, <2>9, KeptByChange
  <2>11. PoolTyped'
    BY <1>1, <1>2, <2>8 DEF PoolTyped, Restack
  <2>12. RefsCounted' /\ SlotsPlaced'
    BY <1>1, <2>10, <2>11, UnmovedStep
  <2>13. Fits(f) /\ Holding(f, slots) /\ Fits(g) /\ Holding(g, slots)
    BY <2>2, <2>4, <2>5 DEF Fits, Holding, PinPoints, Pinned
  <2> HIDE DEF fs
  <2>14. \A i \in 1 .. Len(fs) : Fits(fs[i]) /\ Holding(fs[i], slots)
    BY <2>7, <2>13
  <2>15. CallsFit' /\ PinsHold'
    BY <1>1, <1>2, <2>2, <2>7, <2>8, <2>14, FitKept, PinsKept DEF Fits
  <2> QED BY <2>11, <2>12, <2>15 DEF PoolInv
<1> QED BY <1>3, <1>4 DEF PinVerify

----------------------------------------------------------------------------
(* Steps that begin no pin *)

\* A call that is not pinning and has not pinned.
Plain(f) == f.at \notin PinPoints \cup Pinned \cup {"signal"}

LEMMA PlainAbove ==
  ASSUME PoolInv, NEW t \in Threads, NEW k \in Nat, k <= Len(stack[t]),
         NEW fs \in Seq(CallFrames), Restack(t, k, fs),
         k < Len(stack[t]) \/ stack[t] = <<>> \/ Head(stack[t]).at \notin PinPoints,
         \A s \in Slots : slots'[s].generation = slots[s].generation,
         \A i \in 1 .. Len(fs) : Plain(fs[i])
  PROVE  CallsFit' /\ PinsHold'
<1>1. PoolTyped /\ CallsFit /\ PinsHold
  BY DEF PoolInv
<1>2. \A i \in 1 .. Len(fs) : Fits(fs[i]) /\ Holding(fs[i], slots)
  BY DEF Plain, Fits, Holding
<1>3. CallsFit'
  BY <1>1, <1>2, FitKept
<1>4. \A i \in 1 .. Len(fs) :
        Holding(fs[i], slots) /\ (fs[i].at \in Pinned => fs[i].todo # <<>>)
  BY <1>2 DEF Fits
<1>5. PinsHold'
  BY <1>1, <1>4, PinsKept
<1> QED BY <1>3, <1>5

LEMMA PlainStep ==
  ASSUME PoolInv, NEW t \in Threads, stack[t] # <<>>,
         NEW f \in CallFrames, NEW g \in CallFrames, NEW h \in CallFrames,
         Plain(f), Plain(g), Plain(h),
         \A s \in Slots : slots'[s].generation = slots[s].generation,
         \/ Restack(t, Len(stack[t]) - 1, <<>>)
         \/ Restack(t, Len(stack[t]) - 1, <<f>>)
         \/ Restack(t, Len(stack[t]) - 1, <<g, f>>)
         \/ Restack(t, Len(stack[t]) - 1, <<h, g, f>>)
  PROVE  CallsFit' /\ PinsHold'
<1>1. /\ Len(stack[t]) - 1 \in Nat /\ Len(stack[t]) - 1 <= Len(stack[t])
      /\ Len(stack[t]) - 1 < Len(stack[t])
  BY Innermost
<1>2. ASSUME NEW fs \in Seq(CallFrames), \A i \in 1 .. Len(fs) : Plain(fs[i]),
             Restack(t, Len(stack[t]) - 1, fs)
      PROVE  CallsFit' /\ PinsHold'
  BY <1>1, <1>2, PlainAbove
<1>3. CASE Restack(t, Len(stack[t]) - 1, <<>>)
  <2> DEFINE fs == <<>>
  <2>1. fs \in Seq(CallFrames) /\ Len(fs) = 0 /\ Restack(t, Len(stack[t]) - 1, fs)
    BY <1>3
  <2> HIDE DEF fs
  <2>2. \A i \in 1 .. Len(fs) : Plain(fs[i])
    BY <2>1
  <2> QED BY <1>2, <2>1, <2>2
<1>4. CASE Restack(t, Len(stack[t]) - 1, <<f>>)
  <2> DEFINE fs == <<f>>
  <2>1. fs \in Seq(CallFrames) /\ Len(fs) = 1 /\ fs[1] = f /\ Restack(t, Len(stack[t]) - 1, fs)
    BY <1>4
  <2> HIDE DEF fs
  <2>2. \A i \in 1 .. Len(fs) : Plain(fs[i])
    BY <2>1
  <2> QED BY <1>2, <2>1, <2>2
<1>5. CASE Restack(t, Len(stack[t]) - 1, <<g, f>>)
  <2> DEFINE fs == <<g, f>>
  <2>1. /\ fs \in Seq(CallFrames) /\ Len(fs) = 2 /\ fs[1] = g /\ fs[2] = f
        /\ Restack(t, Len(stack[t]) - 1, fs)
    BY <1>5
  <2> HIDE DEF fs
  <2>2. \A i \in 1 .. Len(fs) : Plain(fs[i])
    BY <2>1
  <2> QED BY <1>2, <2>1, <2>2
<1>6. CASE Restack(t, Len(stack[t]) - 1, <<h, g, f>>)
  <2> DEFINE fs == <<h, g, f>>
  <2>1. /\ fs \in Seq(CallFrames) /\ Len(fs) = 3 /\ fs[1] = h /\ fs[2] = g /\ fs[3] = f
        /\ Restack(t, Len(stack[t]) - 1, fs)
    BY <1>6
  <2> HIDE DEF fs
  <2>2. \A i \in 1 .. Len(fs) : Plain(fs[i])
    BY <2>1
  <2> QED BY <1>2, <2>1, <2>2
<1> QED BY <1>3, <1>4, <1>5, <1>6

LEMMA PlainCall ==
  ASSUME PoolInv, NEW t \in Threads, NEW f \in CallFrames, Plain(f),
         stack[t] = <<>> \/ Head(stack[t]).at \notin PinPoints,
         \A s \in Slots : slots'[s].generation = slots[s].generation,
         Restack(t, Len(stack[t]), <<f>>)
  PROVE  CallsFit' /\ PinsHold'
<1> DEFINE fs == <<f>>
<1>1. /\ fs \in Seq(CallFrames) /\ Len(fs) = 1 /\ fs[1] = f
      /\ Restack(t, Len(stack[t]), fs)
  OBVIOUS
<1>2. Len(stack[t]) \in Nat /\ Len(stack[t]) <= Len(stack[t])
  <2>1. Len(stack[t]) \in Nat
    BY InnermostIn DEF PoolInv
  <2> QED BY <2>1
<1> HIDE DEF fs
<1>3. \A i \in 1 .. Len(fs) : Plain(fs[i])
  BY <1>1
<1> QED BY <1>1, <1>2, <1>3, PlainAbove

----------------------------------------------------------------------------
(* References given back: unpin, and freeJobBatch *)

LEMMA GivesBack ==
  ASSUME PoolInv, NEW t \in Threads, stack[t] # <<>>,
         Head(stack[t]).at \in {"unpin", "complete"},
         NEW w \in CallFrames, w.at = "workDone",
         DropReference(t, <<>>) \/ DropReference(t, <<w>>),
         UNCHANGED <<free, queue, issued>>
  PROVE  PoolInv'
<1> DEFINE L == Len(stack[t])
           h == Head(stack[t])
           x == <<t, L>>
<1>0. PICK r \in Slots : r = h.id.slot
  BY Innermost
<1> DEFINE d == Frame("drop", [slot |-> r, gen |-> slots[r].generation], <<>>)
           e == [slots[r] EXCEPT !["refCount"] = slots[r].refCount - 1]
           last == slots[r].refCount = 1
<1>1. PoolTyped /\ RefsCounted
  BY DEF PoolInv
<1>2. /\ Id(t) = h.id /\ h \in CallFrames /\ r \in Slots /\ slots[r] \in SlotStates
      /\ h.id.slot = r
  BY <1>0, Innermost
<1>3. \A F : <<t, L>> \in CallsIn(F) <=> h \in F
  BY Innermost
<1>4. RefOf(h) = r
  BY <1>2, RefOfCases
<1>5. slots[r].refCount \in Nat /\ slots[r].refCount - 1 \in Nat
  <2>1. <<t, L>> \in CallsIn(RefFrames(r))
    BY <1>2, <1>3, <1>4, RefOfCases
  <2>2. Refs(r) # {}
    BY <1>1, <1>2, <2>1, RefsForm
  <2>3. slots[r].refCount \in Nat /\ slots[r].refCount > 0
    BY <1>1, <1>2, <2>2, CountPositive
  <2> QED BY <2>3
<1>6. slots[r].generation \in Nat
  BY <1>2 DEF SlotStates
<1>7. /\ d \in CallFrames /\ d.at = "drop" /\ d.id.slot = r
  BY <1>2, <1>6 DEF Frame, CallFrames, Points, Ids
<1>8. slots' = [slots EXCEPT ![r] = e]
  BY <1>2 DEF DropReference, Set
<1>9. /\ e \in SlotStates /\ e.refCount = slots[r].refCount - 1
      /\ e.generation = slots[r].generation /\ e.remainingJobs = slots[r].remainingJobs
  BY <1>2, <1>5, FieldSet
<1>10. \/ Continue(t, IF last THEN <<d>> \o <<>> ELSE <<>>)
       \/ Continue(t, IF last THEN <<d>> \o <<w>> ELSE <<w>>)
  BY <1>2 DEF DropReference
<1> HIDE DEF d, e
<1>11. /\ slots' \in [Slots -> SlotStates] /\ slots'[r] = e
       /\ \A s \in Slots : s # r => slots'[s] = slots[s]
  BY <1>1, <1>2, <1>8, <1>9, SlotSet
<1>12. <<d>> \o <<>> = <<d>> /\ <<d>> \o <<w>> = <<d, w>>
  BY <1>7, Joined
<1>13. \/ last /\ Restack(t, L - 1, <<d>>)
       \/ last /\ Restack(t, L - 1, <<d, w>>)
       \/ ~last /\ Restack(t, L - 1, <<>>)
       \/ ~last /\ Restack(t, L - 1, <<w>>)
  BY <1>1, <1>7, <1>10, <1>12, Continued0, Continued1, Continued2
<1>14. PoolTyped'
  BY <1>1, <1>11, <1>13 DEF PoolTyped, Restack
<1>15. Plain(d) /\ Plain(w)
  BY <1>7 DEF Plain, PinPoints, Pinned
<1>16. \A s \in Slots : /\ slots'[s].generation = slots[s].generation
                        /\ slots'[s].remainingJobs = slots[s].remainingJobs
                        /\ s # r => slots'[s].refCount = slots[s].refCount
                        /\ s = r => slots'[s].refCount = slots[r].refCount - 1
  BY <1>9, <1>11
<1>17. CallsFit' /\ PinsHold'
  BY <1>7, <1>13, <1>15, <1>16, PlainStep
<1>18. /\ RefOf(d) = 0 /\ RefOf(w) = 0 /\ w.at \notin DropPoints /\ h.at \notin DropPoints
       /\ d.at \in DropPoints
  BY <1>7, RefOfCases DEF DropPoints
<1>19. ASSUME NEW s \in Slots
       PROVE  /\ d \notin RefFrames(s) /\ w \notin RefFrames(s)
              /\ w \notin DropFrames(s) /\ h \notin DropFrames(s)
              /\ d \in DropFrames(s) <=> s = r
  BY <1>2, <1>7, <1>18, RefOfCases, SlotsPositive
<1>22. \A s \in Slots : x \notin CallsIn(DropFrames(s))
  BY <1>3, <1>19
<1>20. \E y : /\ \A s \in Slots : CallsIn(RefFrames(s))' = CallsIn(RefFrames(s)) \ {x}
              /\ \A s \in Slots \ {r} : CallsIn(DropFrames(s))' = CallsIn(DropFrames(s))
              /\ ~last => CallsIn(DropFrames(r))' = CallsIn(DropFrames(r))
              /\ last => CallsIn(DropFrames(r))' = CallsIn(DropFrames(r)) \cup {y}
  <2>1. CASE last /\ Restack(t, L - 1, <<d>>)
    <3>1. \A F : CallsIn(F)' = (CallsIn(F) \ {x}) \cup Where(x, d, F)
      BY <1>1, <1>7, <2>1, Replace1
    <3>2. \A s \in Slots : CallsIn(RefFrames(s))' = CallsIn(RefFrames(s)) \ {x}
      BY <1>19, <3>1 DEF Where
    <3>3. \A s \in Slots \ {r} : CallsIn(DropFrames(s))' = CallsIn(DropFrames(s))
      BY <1>22, <1>19, <3>1 DEF Where
    <3>4. CallsIn(DropFrames(r))' = CallsIn(DropFrames(r)) \cup {x}
      BY <1>2, <1>22, <1>19, <3>1 DEF Where
    <3> QED BY <2>1, <3>2, <3>3, <3>4
  <2>2. CASE last /\ Restack(t, L - 1, <<d, w>>)
    <3>1. \A F : CallsIn(F)' = (CallsIn(F) \ {x}) \cup Where(x, w, F)
                               \cup Where(<<t, L + 1>>, d, F)
      BY <1>1, <1>7, <2>2, Replace2
    <3>2. \A s \in Slots : CallsIn(RefFrames(s))' = CallsIn(RefFrames(s)) \ {x}
      BY <1>19, <3>1 DEF Where
    <3>3. \A s \in Slots \ {r} : CallsIn(DropFrames(s))' = CallsIn(DropFrames(s))
      BY <1>22, <1>19, <3>1 DEF Where
    <3>4. CallsIn(DropFrames(r))' = CallsIn(DropFrames(r)) \cup {<<t, L + 1>>}
      BY <1>2, <1>22, <1>19, <3>1 DEF Where
    <3> QED BY <2>2, <3>2, <3>3, <3>4
  <2>3. CASE ~last /\ Restack(t, L - 1, <<>>)
    <3>1. \A F : CallsIn(F)' = CallsIn(F) \ {x}
      BY <1>1, <1>7, <2>3, Pop
    <3>2. \A s \in Slots : CallsIn(RefFrames(s))' = CallsIn(RefFrames(s)) \ {x}
      BY <1>19, <3>1
    <3>3. \A s \in Slots \ {r} : CallsIn(DropFrames(s))' = CallsIn(DropFrames(s))
      BY <1>22, <1>19, <3>1
    <3>4. CallsIn(DropFrames(r))' = CallsIn(DropFrames(r))
      BY <1>2, <1>22, <1>19, <3>1
    <3> QED BY <2>3, <3>2, <3>3, <3>4
  <2>4. CASE ~last /\ Restack(t, L - 1, <<w>>)
    <3>1. \A F : CallsIn(F)' = (CallsIn(F) \ {x}) \cup Where(x, w, F)
      BY <1>1, <1>7, <2>4, Replace1
    <3>2. \A s \in Slots : CallsIn(RefFrames(s))' = CallsIn(RefFrames(s)) \ {x}
      BY <1>19, <3>1 DEF Where
    <3>3. \A s \in Slots \ {r} : CallsIn(DropFrames(s))' = CallsIn(DropFrames(s))
      BY <1>22, <1>19, <3>1 DEF Where
    <3>4. CallsIn(DropFrames(r))' = CallsIn(DropFrames(r))
      BY <1>2, <1>22, <1>19, <3>1 DEF Where
    <3> QED BY <2>4, <3>2, <3>3, <3>4
  <2> QED BY <1>13, <2>1, <2>2, <2>3, <2>4
<1>21. RefsCounted' /\ SlotsPlaced'
  <2>1. PICK y : /\ \A s \in Slots : CallsIn(RefFrames(s))' = CallsIn(RefFrames(s)) \ {x}
                 /\ \A s \in Slots \ {r} : CallsIn(DropFrames(s))' = CallsIn(DropFrames(s))
                 /\ ~last => CallsIn(DropFrames(r))' = CallsIn(DropFrames(r))
                 /\ last => CallsIn(DropFrames(r))' = CallsIn(DropFrames(r)) \cup {y}
    BY <1>20
  <2>2. /\ \A s \in Slots \ {r} : slots'[s].refCount = slots[s].refCount
        /\ \A s \in Slots : slots'[s].remainingJobs = slots[s].remainingJobs
        /\ slots'[r].refCount = slots[r].refCount - 1
    BY <1>2, <1>16
  <2> QED BY <1>2, <1>4, <1>14, <2>1, <2>2, ReferenceGiven
<1> QED BY <1>14, <1>17, <1>21 DEF PoolInv

LEMMA UnpinKeeps == ASSUME PoolInv, NEW t \in Threads, Unpin(t) PROVE PoolInv'
<1> DEFINE w == Frame("workDone", Id(t), <<>>)
<1>1. stack[t] # <<>> /\ Head(stack[t]).at = "unpin" /\ DropReference(t, <<>>)
      /\ UNCHANGED <<free, queue, issued>>
  BY DEF Unpin, At
<1>2. Id(t) \in Ids
  BY <1>1, Innermost
<1>3. w \in CallFrames /\ w.at = "workDone"
  BY <1>2 DEF Frame, CallFrames, Points
<1> QED BY <1>1, <1>3, GivesBack

LEMMA CompleteBatchKeeps == ASSUME PoolInv, NEW t \in Threads, CompleteBatch(t) PROVE PoolInv'
<1> DEFINE w == Frame("workDone", Id(t), <<>>)
<1>1. stack[t] # <<>> /\ Head(stack[t]).at = "complete" /\ DropReference(t, <<w>>)
      /\ UNCHANGED <<free, queue, issued>>
  BY DEF CompleteBatch, At
<1>2. Id(t) \in Ids
  BY <1>1, Innermost
<1>3. w \in CallFrames /\ w.at = "workDone"
  BY <1>2 DEF Frame, CallFrames, Points
<1> QED BY <1>1, <1>3, GivesBack

----------------------------------------------------------------------------
(* dropHandle *)

\* A batch that is being dropped has no reference.
LEMMA DroppedUnreferenced ==
  ASSUME PoolInv, NEW r \in Slots, Droppers(r) # {}
  PROVE  slots[r].refCount = 0 /\ Refs(r) = {} /\ ~Listed(r)
<1>1. SlotsPlaced /\ RefsCounted
  BY DEF PoolInv
<1>2. ~(slots[r].refCount > 0) /\ ~Listed(r)
  BY <1>1 DEF SlotsPlaced
<1> QED BY <1>1, <1>2, CountPositive

\* No call that has pinned names a slot without a reference.
LEMMA NoReferenceNoPin ==
  ASSUME PoolInv, NEW r \in Slots, Refs(r) = {}, NEW u \in Threads,
         NEW d \in 1 .. Len(stack[u])
  PROVE  LET f == CallAt(u, d)
         IN /\ f.at = "signal" => f.id.slot # r
            /\ f.at \in Pinned => Head(f.todo).slot # r
<1>1. PoolTyped
  BY DEF PoolInv
<1>2. CallAt(u, d) \in CallFrames
  BY <1>1, CallTyped
<1>3. RefOf(CallAt(u, d)) # r
  <2>1. CallsIn(RefFrames(r)) = {}
    BY <1>1, RefsForm
  <2>2. CallAt(u, d) \in RefFrames(r) => <<u, d>> \in CallsIn(RefFrames(r))
    BY CallsInForm
  <2> QED BY <1>2, <2>1, <2>2, RefOfCases
<1> QED BY <1>2, <1>3, RefOfCases

LEMMA SlotInvalidated ==
  ASSUME NEW x \in SlotStates
  PROVE  LET e == [x EXCEPT !.generation = @ + 1, !.dependentCount = 0, !.dependents = <<>>]
         IN e \in SlotStates /\ e.refCount = x.refCount /\ e.remainingJobs = x.remainingJobs
<1>1. <<>> \in Seq(Ids)
  OBVIOUS
<1> DEFINE none == <<>>
           e == [x EXCEPT !.generation = @ + 1, !.dependentCount = 0, !.dependents = none]
<1>2. none \in Seq(Ids)
  BY <1>1
<1> HIDE DEF none
<1>3. x.generation + 1 \in Nat
  BY DEF SlotStates
<1>4. \A y \in SlotStates : \A n \in Nat :
        LET z == [y EXCEPT !.generation = n]
        IN z \in SlotStates /\ z.refCount = y.refCount /\ z.remainingJobs = y.remainingJobs
  BY DEF SlotStates
<1>5. \A y \in SlotStates : \A n \in Int :
        LET z == [y EXCEPT !.dependentCount = n]
        IN z \in SlotStates /\ z.refCount = y.refCount /\ z.remainingJobs = y.remainingJobs
  BY DEF SlotStates
<1>6. \A y \in SlotStates : \A q \in Seq(Ids) :
        LET z == [y EXCEPT !.dependents = q]
        IN z \in SlotStates /\ z.refCount = y.refCount /\ z.remainingJobs = y.remainingJobs
  BY DEF SlotStates
<1>7. e \in SlotStates /\ e.refCount = x.refCount /\ e.remainingJobs = x.remainingJobs
  <2> DEFINE e1 == [x EXCEPT !.generation = x.generation + 1]
             e2 == [e1 EXCEPT !.dependentCount = 0]
             e3 == [e2 EXCEPT !.dependents = none]
  <2>1. e = e3
    OBVIOUS
  <2>2. e1 \in SlotStates /\ e1.refCount = x.refCount /\ e1.remainingJobs = x.remainingJobs
    BY <1>3, <1>4
  <2> HIDE DEF e, e1
  <2>3. e2 \in SlotStates /\ e2.refCount = x.refCount /\ e2.remainingJobs = x.remainingJobs
    BY <1>5, <2>2
  <2> HIDE DEF e2
  <2> QED BY <1>2, <1>6, <2>1, <2>3
<1> QED BY <1>7 DEF none

LEMMA DropInvalidateKeeps == ASSUME PoolInv, NEW t \in Threads, DropInvalidate(t) PROVE PoolInv'
<1> DEFINE L == Len(stack[t])
           h == Head(stack[t])
<1>1. /\ stack[t] # <<>> /\ h.at = "drop" /\ PoolTyped /\ CallsFit /\ PinsHold
      /\ free' = free /\ queue' = queue /\ issued' = issued
  BY DEF DropInvalidate, At, PoolInv
<1>2. PICK r \in Slots : r = h.id.slot
  BY <1>1, Innermost
<1>3. Id(t) = h.id /\ h \in CallFrames /\ h.id \in Ids /\ slots[r] \in SlotStates /\ L - 1 \in Nat
      /\ L - 1 <= L /\ L - 1 < L
  BY <1>1, <1>2, Innermost
<1>4. slots' = [slots EXCEPT ![r].generation = @ + 1, ![r].dependentCount = 0,
                             ![r].dependents = <<>>]
  BY <1>2, <1>3 DEF DropInvalidate
<1>5. /\ slots' \in [Slots -> SlotStates]
      /\ \A s \in Slots : /\ slots'[s].refCount = slots[s].refCount
                          /\ slots'[s].remainingJobs = slots[s].remainingJobs
                          /\ s # r => slots'[s].generation = slots[s].generation
  <2> DEFINE e == [slots[r] EXCEPT !.generation = @ + 1, !.dependentCount = 0,
                                   !.dependents = <<>>]
  <2>1. slots' = [slots EXCEPT ![r] = e]
    BY <1>1, <1>3, <1>4 DEF PoolTyped
  <2>2. e \in SlotStates /\ e.refCount = slots[r].refCount /\ e.remainingJobs = slots[r].remainingJobs
    BY <1>3, SlotInvalidated
  <2> HIDE DEF e
  <2>3. /\ slots' \in [Slots -> SlotStates] /\ slots'[r] = e
        /\ \A s \in Slots : s # r => slots'[s] = slots[s]
    BY <1>1, <2>1, <2>2, SlotSet
  <2> QED BY <2>2, <2>3
<1>6. PICK todo \in ReadDependents(r) : Continue(t, <<Frame("dependents", h.id, todo)>>)
  BY <1>2, <1>3 DEF DropInvalidate
<1>7. todo \in Seq(Ids)
  <2>1. slots[r].dependents \in Seq(Ids)
    BY <1>3 DEF SlotStates
  <2>2. slots[r].dependentCount \in Int /\ Len(slots[r].dependents) \in Nat
    BY <1>3, <2>1, LenProperties DEF SlotStates
  <2>3. PICK beyond \in [1 .. slots[r].dependentCount - Len(slots[r].dependents) -> Handles] :
             todo = slots[r].dependents \o beyond
    BY DEF ReadDependents
  <2>4. Handles \subseteq Ids
    BY PoolAssumption DEF Handles, Ids
  <2>5. beyond \in Seq(Ids)
    BY <2>2, <2>4
  <2> QED BY <2>1, <2>3, <2>5, ConcatProperties
<1> DEFINE f == Frame("dependents", h.id, todo)
<1>8. f \in CallFrames /\ f.at = "dependents" /\ f.id = h.id
  BY <1>3, <1>7 DEF Frame, CallFrames, Points
<1>9. Continue(t, <<f>>)
  BY <1>6
<1> HIDE DEF f
<1>10. Restack(t, L - 1, <<f>>)
  BY <1>1, <1>8, <1>9, Continued1
<1>11. PoolTyped'
  BY <1>1, <1>5, <1>10 DEF PoolTyped, Restack
<1>12. SameKind(f, h)
  BY <1>1, <1>3, <1>8, RefOfCases DEF SameKind, DropPoints, Pinned
<1>13. RefsCounted' /\ SlotsPlaced'
  <2>1. CallsKept
    BY <1>1, <1>8, <1>10, <1>12, KeptByChange
  <2> QED BY <1>1, <1>5, <1>11, <2>1, UnmovedStep
<1> DEFINE fs == <<f>>
<1>14. fs \in Seq(CallFrames) /\ Len(fs) = 1 /\ fs[1] = f /\ Restack(t, L - 1, fs)
  BY <1>8, <1>10
<1>15. Fits(f) /\ f.at \notin Pinned \cup {"signal"}
  BY <1>8 DEF Fits, PinPoints, Pinned
<1> HIDE DEF fs
<1>16. CallsFit'
  <2>1. \A i \in 1 .. Len(fs) : Fits(fs[i])
    BY <1>14, <1>15
  <2> QED BY <1>1, <1>3, <1>14, <2>1, FitKept
<1>17. Refs(r) = {}
  <2>1. <<t, L>> \in CallsIn(DropFrames(r))
    BY <1>1, <1>2, <1>3, Innermost, RefOfCases DEF DropPoints
  <2> QED BY <1>1, <2>1, RefsForm, DroppedUnreferenced
<1>18. PinsHold'
  <2>1. SUFFICES ASSUME NEW u \in Threads, NEW d \in 1 .. Len(stack'[u])
                 PROVE  Holding(CallAt(u, d)', slots')
    BY DEF PinsHold, Holding, Slot
  <2>2. CASE d \in 1 .. Len(stack[u]) /\ CallAt(u, d)' = CallAt(u, d)
    <3>1. PICK c \in CallFrames : c = CallAt(u, d)
      BY <1>1, <2>2, CallTyped
    <3>2. Holding(c, slots) /\ (c.at \in Pinned => c.todo # <<>>)
      BY <1>1, <2>2, <3>1 DEF PinsHold, Holding, Slot, CallsFit
    <3>3. /\ c.at = "signal" => c.id.slot # r
          /\ c.at \in Pinned => Head(c.todo).slot # r
      BY <1>17, <2>2, <3>1, NoReferenceNoPin
    <3>4. c.id.slot \in Slots
      BY DEF CallFrames, Ids
    <3>5. c.at \in Pinned => Head(c.todo).slot \in Slots
      <4>1. c.todo \in Seq(Ids)
        BY DEF CallFrames
      <4>2. c.at \in Pinned => Head(c.todo) \in Ids
        BY <3>2, <4>1
      <4> QED BY <4>2 DEF Ids
    <3>6. Holding(c, slots')
      BY <1>5, <3>2, <3>3, <3>4, <3>5 DEF Holding
    <3> QED BY <2>2, <3>1, <3>6
  <2>3. CASE CallAt(u, d)' = f
    BY <1>15, <2>3 DEF Holding
  <2>4. d \in 1 .. Len(stack[u]) /\ (CallAt(u, d)' = CallAt(u, d) \/ CallAt(u, d)' = f)
    BY <1>1, <1>8, <1>10, CallsReplaced1
  <2> QED BY <2>2, <2>3, <2>4
<1> QED BY <1>11, <1>13, <1>16, <1>18 DEF PoolInv

\* A call begins to pin its next handle.
LEMMA PinBegins ==
  ASSUME PoolInv, NEW t \in Threads, stack[t] # <<>>,
         Head(stack[t]).at \in {"dependents", "addDependents"}, Todo(t) # <<>>, PinFirst(t),
         UNCHANGED <<slots, free, queue, issued>>
  PROVE  PoolInv'
<1> DEFINE L == Len(stack[t])
           h == Head(stack[t])
           f == Frame("pinCheck", Head(Todo(t)), <<>>)
           fs == <<f>>
<1>1. PoolTyped /\ CallsFit /\ PinsHold
  BY DEF PoolInv
<1>2. /\ L \in Nat \ {0} /\ L <= L /\ h = CallAt(t, L) /\ Todo(t) = h.todo
      /\ Head(h.todo) \in Ids
  <2>1. L \in Nat /\ L >= 1 /\ h = CallAt(t, L) /\ Todo(t) = h.todo
    BY Innermost
  <2>2. h.todo # <<>> => Head(h.todo) \in Ids
    BY Innermost
  <2> QED BY <2>1, <2>2
<1>3. f \in CallFrames /\ f.at = "pinCheck" /\ f.id = Head(h.todo)
  BY <1>2 DEF Frame, CallFrames, Points
<1>4. stack' = [stack EXCEPT ![t] = <<f>> \o @]
  BY DEF PinFirst
<1> HIDE DEF f
<1>5. Restack(t, L, <<f>>)
  BY <1>1, <1>3, <1>4, Called
<1>6. Idle(f)
  BY <1>3, RefOfCases DEF Idle, DropPoints
<1>7. CallsKept
  BY <1>3, <1>5, <1>6, KeptByChange
<1>8. PoolTyped'
  BY <1>1, <1>5 DEF PoolTyped, Restack
<1>9. RefsCounted' /\ SlotsPlaced'
  BY <1>7, <1>8, UnmovedStep
<1>10. CallsFit'
  <2>1. h.at \notin PinPoints /\ f.at \in PinPoints
    BY <1>3 DEF PinPoints
  <2> QED BY <1>1, <1>2, <1>3, <1>5, <2>1, FitPin
<1>11. PinsHold'
  <2>1. fs \in Seq(CallFrames) /\ Len(fs) = 1 /\ fs[1] = f /\ Restack(t, L, fs)
    BY <1>3, <1>5
  <2>2. Holding(f, slots) /\ f.at \notin Pinned
    BY <1>3 DEF Holding, Pinned
  <2> HIDE DEF fs
  <2>3. \A i \in 1 .. Len(fs) :
           Holding(fs[i], slots) /\ (fs[i].at \in Pinned => fs[i].todo # <<>>)
    BY <2>1, <2>2
  <2> QED BY <1>1, <1>2, <2>1, <2>3, PinsKept
<1> QED BY <1>8, <1>9, <1>10, <1>11 DEF PoolInv

LEMMA DropNextDependentKeeps ==
  ASSUME PoolInv, NEW t \in Threads, DropNextDependent(t) PROVE PoolInv'
BY PinBegins DEF DropNextDependent, At

LEMMA AddDependentKeeps ==
  ASSUME PoolInv, NEW t \in Threads, AddDependent(t) PROVE PoolInv'
BY PinBegins DEF AddDependent, At

\* The innermost call is replaced by one of its kind that is not pinning, or by
\* none, while no slot changes hands.
LEMMA PlainGoesOn ==
  ASSUME PoolInv, NEW t \in Threads, stack[t] # <<>>, NEW f \in CallFrames, Plain(f),
         \/ Restack(t, Len(stack[t]) - 1, <<>>) /\ Idle(Head(stack[t]))
         \/ Restack(t, Len(stack[t]) - 1, <<f>>) /\ SameKind(f, Head(stack[t])),
         slots' \in [Slots -> SlotStates], queue' \subseteq Ids, issued' = issued, free' = free,
         \A s \in Slots : /\ slots'[s].generation = slots[s].generation
                          /\ slots'[s].refCount = slots[s].refCount
                          /\ slots'[s].remainingJobs > 0 <=> slots[s].remainingJobs > 0
  PROVE  PoolInv'
<1>1. PoolTyped
  BY DEF PoolInv
<1>2. stack' \in [Threads -> Seq(CallFrames)]
  BY DEF Restack
<1>3. PoolTyped'
  BY <1>1, <1>2 DEF PoolTyped
<1>4. CallsKept
  BY KeptByChange
<1>5. RefsCounted' /\ SlotsPlaced'
  BY <1>3, <1>4, UnmovedStep
<1>6. CallsFit' /\ PinsHold'
  BY PlainStep
<1> QED BY <1>3, <1>5, <1>6 DEF PoolInv

LEMMA DropFenceKeeps == ASSUME PoolInv, NEW t \in Threads, DropFence(t) PROVE PoolInv'
<1> DEFINE h == Head(stack[t])
           f == Frame("reclaim", Id(t), <<>>)
<1>1. /\ stack[t] # <<>> /\ h.at = "dependents" /\ PoolTyped /\ Continue(t, <<f>>)
      /\ UNCHANGED <<slots, free, queue, issued>>
  BY DEF DropFence, At, PoolInv
<1>2. Id(t) = h.id /\ h \in CallFrames /\ h.id \in Ids
  BY <1>1, Innermost
<1>3. f \in CallFrames /\ f.at = "reclaim" /\ f.id = h.id
  BY <1>2 DEF Frame, CallFrames, Points
<1> HIDE DEF f
<1>4. Restack(t, Len(stack[t]) - 1, <<f>>)
  BY <1>1, <1>3, Continued1
<1>5. SameKind(f, h) /\ Plain(f)
  BY <1>1, <1>2, <1>3, RefOfCases DEF SameKind, DropPoints, Plain, PinPoints, Pinned
<1>6. slots' \in [Slots -> SlotStates] /\ queue' \subseteq Ids
  BY <1>1 DEF PoolTyped
<1> QED BY <1>1, <1>3, <1>4, <1>5, <1>6, PlainGoesOn

LEMMA WorkDoneKeeps == ASSUME PoolInv, NEW t \in Threads, WorkDone(t) PROVE PoolInv'
<1> DEFINE h == Head(stack[t])
           f == Frame("workDone", Id(t), <<>>)
<1>1. /\ stack[t] # <<>> /\ h.at = "workDone" /\ PoolTyped /\ Continue(t, <<>>)
      /\ UNCHANGED <<slots, free, queue, issued>>
  BY DEF WorkDone, At, PoolInv
<1>2. Id(t) = h.id /\ h \in CallFrames /\ h.id \in Ids
  BY <1>1, Innermost
<1>3. f \in CallFrames /\ f.at = "workDone"
  BY <1>2 DEF Frame, CallFrames, Points
<1> HIDE DEF f
<1>4. Restack(t, Len(stack[t]) - 1, <<>>)
  BY <1>1, Continued0
<1>5. Idle(h) /\ Plain(f)
  BY <1>1, <1>2, <1>3, RefOfCases DEF Idle, DropPoints, Plain, PinPoints, Pinned
<1>6. slots' \in [Slots -> SlotStates] /\ queue' \subseteq Ids
  BY <1>1 DEF PoolTyped
<1> QED BY <1>1, <1>3, <1>4, <1>5, <1>6, PlainGoesOn

LEMMA PushKeeps == ASSUME PoolInv, NEW t \in Threads, Push(t) PROVE PoolInv'
<1> DEFINE h == Head(stack[t])
           f == Frame("workDone", Id(t), <<>>)
<1>1. /\ stack[t] # <<>> /\ h.at = "push" /\ PoolTyped /\ Continue(t, <<>>)
      /\ UNCHANGED <<slots, free, issued>>
  BY DEF Push, At, PoolInv
<1>2. Id(t) = h.id /\ h \in CallFrames /\ h.id \in Ids
  BY <1>1, Innermost
<1>3. f \in CallFrames /\ f.at = "workDone"
  BY <1>2 DEF Frame, CallFrames, Points
<1>4. Restack(t, Len(stack[t]) - 1, <<>>)
  BY <1>1, Continued0
<1>5. slots' \in [Slots -> SlotStates] /\ queue' \subseteq Ids
  <2>1. queue' = queue \/ queue' = queue \cup {Id(t)}
    BY DEF Push
  <2> QED BY <1>1, <1>2, <2>1 DEF PoolTyped
<1> HIDE DEF f
<1>6. Idle(h) /\ Plain(f)
  BY <1>1, <1>2, <1>3, RefOfCases DEF Idle, DropPoints, Plain, PinPoints, Pinned
<1> QED BY <1>1, <1>3, <1>4, <1>5, <1>6, PlainGoesOn

LEMMA ReleaseGuardKeeps == ASSUME PoolInv, NEW t \in Threads, ReleaseGuard(t) PROVE PoolInv'
<1> DEFINE h == Head(stack[t])
           f == Frame("push", Id(t), <<>>)
<1>1. /\ stack[t] # <<>> /\ h.at = "addDependents" /\ PoolTyped
      /\ UNCHANGED <<free, queue, issued>>
  BY DEF ReleaseGuard, At, PoolInv
<1>2. PICK r \in Slots : r = h.id.slot
  BY <1>1, Innermost
<1>3. Id(t) = h.id /\ h \in CallFrames /\ h.id \in Ids /\ slots[r] \in SlotStates
  BY <1>1, <1>2, Innermost
<1> DEFINE e == [slots[r] EXCEPT !["dependencyCount"] = slots[r].dependencyCount - 1]
<1>4. slots' = [slots EXCEPT ![r] = e] /\ (Continue(t, <<>>) \/ Continue(t, <<f>>))
  BY <1>2, <1>3 DEF ReleaseGuard, Slot, Set
<1>5. /\ e \in SlotStates /\ e.refCount = slots[r].refCount
      /\ e.generation = slots[r].generation /\ e.remainingJobs = slots[r].remainingJobs
  <2>1. slots[r].dependencyCount - 1 \in Int
    BY <1>3 DEF SlotStates
  <2> QED BY <1>3, <2>1, FieldSet
<1>6. f \in CallFrames /\ f.at = "push"
  BY <1>3 DEF Frame, CallFrames, Points
<1> HIDE DEF e, f
<1>7. /\ slots' \in [Slots -> SlotStates] /\ slots'[r] = e
      /\ \A s \in Slots : s # r => slots'[s] = slots[s]
  BY <1>1, <1>2, <1>4, <1>5, SlotSet
<1>8. \/ Restack(t, Len(stack[t]) - 1, <<>>)
      \/ Restack(t, Len(stack[t]) - 1, <<f>>)
  BY <1>1, <1>4, <1>6, Continued0, Continued1
<1>9. Idle(h) /\ SameKind(f, h) /\ Plain(f)
  BY <1>1, <1>3, <1>6, RefOfCases DEF Idle, SameKind, DropPoints, Plain, PinPoints, Pinned
<1>10. queue' \subseteq Ids
  BY <1>1 DEF PoolTyped
<1>11. \A s \in Slots : /\ slots'[s].generation = slots[s].generation
                        /\ slots'[s].refCount = slots[s].refCount
                        /\ slots'[s].remainingJobs > 0 <=> slots[s].remainingJobs > 0
  BY <1>5, <1>7
<1> QED BY <1>1, <1>6, <1>7, <1>8, <1>9, <1>10, <1>11, PlainGoesOn

----------------------------------------------------------------------------
(* The life of a job *)

LEMMA StartJobKeeps == ASSUME PoolInv, NEW t \in Threads, StartJob(t) PROVE PoolInv'
<1>1. /\ stack[t] = <<>> /\ PoolTyped /\ free' = free /\ issued' = issued
  BY DEF StartJob, PoolInv
<1>2. PICK id \in queue :
        /\ Set(id.slot, "toStart", Slot(id).toStart - 1)
        /\ queue' = IF Slot(id).toStart = 1 THEN queue \ {id} ELSE queue
        /\ stack' = [stack EXCEPT ![t] = <<Frame("job", id, <<>>)>>]
  BY DEF StartJob
<1>3. id \in Ids /\ id.slot \in Slots
  BY <1>1 DEF PoolTyped, Ids
<1> DEFINE r == id.slot
           e == [slots[r] EXCEPT !["toStart"] = slots[r].toStart - 1]
           f == Frame("job", id, <<>>)
<1>4. slots[r] \in SlotStates /\ slots' = [slots EXCEPT ![r] = e]
  BY <1>1, <1>2, <1>3 DEF Slot, Set, PoolTyped
<1>5. /\ e \in SlotStates /\ e.refCount = slots[r].refCount
      /\ e.generation = slots[r].generation /\ e.remainingJobs = slots[r].remainingJobs
  <2>1. slots[r].toStart - 1 \in Int
    BY <1>4 DEF SlotStates
  <2> QED BY <1>4, <2>1, FieldSet
<1>6. f \in CallFrames /\ f.at = "job"
  BY <1>3 DEF Frame, CallFrames, Points
<1>7. stack' = [stack EXCEPT ![t] = <<f>> \o @]
  <2>1. stack[t] \in Seq(CallFrames) /\ <<f>> \in Seq(CallFrames)
    BY <1>1, <1>6 DEF PoolTyped
  <2>2. <<f>> \o stack[t] = <<f>>
    BY <1>1, <2>1, ConcatEmptySeq
  <2> QED BY <1>1, <1>2, <2>2
<1> HIDE DEF e, f
<1>8. /\ slots' \in [Slots -> SlotStates] /\ slots'[r] = e
      /\ \A s \in Slots : s # r => slots'[s] = slots[s]
  BY <1>1, <1>3, <1>4, <1>5, SlotSet
<1>9. Restack(t, Len(stack[t]), <<f>>)
  BY <1>1, <1>6, <1>7, Called
<1>10. PoolTyped'
  <2>1. queue' \subseteq Ids
    BY <1>1, <1>2 DEF PoolTyped
  <2> QED BY <1>1, <1>8, <1>9, <2>1 DEF PoolTyped, Restack
<1>11. Idle(f) /\ Plain(f)
  BY <1>6, RefOfCases DEF Idle, DropPoints, Plain, PinPoints, Pinned
<1>12. \A s \in Slots : /\ slots'[s].generation = slots[s].generation
                        /\ slots'[s].refCount = slots[s].refCount
                        /\ slots'[s].remainingJobs > 0 <=> slots[s].remainingJobs > 0
  BY <1>5, <1>8
<1>13. CallsKept
  BY <1>6, <1>9, <1>11, KeptByChange
<1>14. RefsCounted' /\ SlotsPlaced'
  BY <1>1, <1>10, <1>12, <1>13, UnmovedStep
<1>15. CallsFit' /\ PinsHold'
  BY <1>1, <1>6, <1>9, <1>11, <1>12, PlainCall
<1> QED BY <1>10, <1>14, <1>15 DEF PoolInv

LEMMA FinishJobKeeps == ASSUME PoolInv, NEW t \in Threads, FinishJob(t) PROVE PoolInv'
<1> DEFINE h == Head(stack[t])
           f == Frame("signal", Id(t), <<>>)
           w == Frame("workDone", Id(t), <<>>)
           fs == <<f>>
           L == Len(stack[t])
<1>1. /\ stack[t] # <<>> /\ h.at = "job" /\ PoolTyped /\ RefsCounted /\ CallsFit /\ PinsHold
      /\ UNCHANGED <<free, queue, issued>>
  BY DEF FinishJob, At, PoolInv
<1>2. PICK r \in Slots : r = h.id.slot
  BY <1>1, Innermost
<1>3. /\ Id(t) = h.id /\ h \in CallFrames /\ h.id \in Ids /\ slots[r] \in SlotStates
      /\ L - 1 \in Nat /\ L - 1 <= L /\ L - 1 < L
  BY <1>1, <1>2, Innermost
<1> DEFINE e == [slots[r] EXCEPT !["refCount"] = slots[r].refCount + 1]
<1>4. CASE slots[r].generation = h.id.gen /\ slots[r].refCount > 0
  <2>1. slots' = [slots EXCEPT ![r] = e] /\ Continue(t, <<f>>)
    BY <1>2, <1>3, <1>4 DEF FinishJob, Slot, Set
  <2>2. /\ e \in SlotStates /\ e.refCount = slots[r].refCount + 1
        /\ e.generation = slots[r].generation /\ e.remainingJobs = slots[r].remainingJobs
    <3>1. slots[r].refCount + 1 \in Nat
      BY <1>3 DEF SlotStates
    <3> QED BY <1>3, <3>1, FieldSet
  <2>3. f \in CallFrames /\ f.at = "signal" /\ f.id = h.id
    BY <1>3 DEF Frame, CallFrames, Points
  <2> HIDE DEF e, f
  <2>4. /\ slots' \in [Slots -> SlotStates] /\ slots'[r] = e
        /\ \A s \in Slots : s # r => slots'[s] = slots[s]
    BY <1>1, <1>2, <2>1, <2>2, SlotSet
  <2>5. Restack(t, L - 1, <<f>>)
    BY <1>1, <2>1, <2>3, Continued1
  <2>6. PoolTyped'
    BY <1>1, <2>4, <2>5 DEF PoolTyped, Restack
  <2>7. Idle(h) /\ RefOf(f) = r /\ f.at \notin DropPoints
    BY <1>1, <1>2, <1>3, <2>3, RefOfCases DEF Idle, DropPoints
  <2>8. \A s \in Slots : /\ slots'[s].generation = slots[s].generation
                         /\ slots'[s].remainingJobs = slots[s].remainingJobs
                         /\ s # r => slots'[s].refCount = slots[s].refCount
    BY <2>2, <2>4
  <2>9. RefsCounted' /\ SlotsPlaced'
    <3>1. slots'[r].refCount = slots[r].refCount + 1
      BY <2>2, <2>4
    <3> QED BY <1>1, <1>2, <1>4, <2>3, <2>5, <2>6, <2>7, <2>8, <3>1, ReferenceTaken
  <2>10. fs \in Seq(CallFrames) /\ Len(fs) = 1 /\ fs[1] = f /\ Restack(t, L - 1, fs)
    BY <2>3, <2>5
  <2>11. Fits(f) /\ Holding(f, slots) /\ f.at \notin Pinned
    BY <1>2, <1>4, <2>3 DEF Fits, Holding, PinPoints, Pinned
  <2> HIDE DEF fs
  <2>12. \A i \in 1 .. Len(fs) : /\ Fits(fs[i]) /\ Holding(fs[i], slots)
                                 /\ fs[i].at \in Pinned => fs[i].todo # <<>>
    BY <2>10, <2>11
  <2>13. CallsFit'
    BY <1>1, <1>3, <2>10, <2>12, FitKept
  <2>14. PinsHold'
    BY <1>1, <1>3, <2>8, <2>10, <2>12, PinsKept
  <2> QED BY <2>6, <2>9, <2>13, <2>14 DEF PoolInv
<1>5. CASE ~(slots[r].generation = h.id.gen /\ slots[r].refCount > 0)
  <2>1. slots' = slots /\ Continue(t, <<>>)
    BY <1>2, <1>3, <1>5 DEF FinishJob, Slot
  <2>2. w \in CallFrames /\ w.at = "workDone"
    BY <1>3 DEF Frame, CallFrames, Points
  <2> HIDE DEF w
  <2>3. Restack(t, L - 1, <<>>)
    BY <1>1, <2>1, Continued0
  <2>4. Idle(h) /\ Plain(w)
    BY <1>1, <1>3, <2>2, RefOfCases DEF Idle, DropPoints, Plain, PinPoints, Pinned
  <2>5. slots' \in [Slots -> SlotStates] /\ queue' \subseteq Ids
    BY <1>1, <2>1 DEF PoolTyped
  <2> QED BY <1>1, <2>1, <2>2, <2>3, <2>4, <2>5, PlainGoesOn
<1> QED BY <1>4, <1>5

\* The last job of a batch is done: the call that saw it takes over the reference
\* the batch was born with.
LEMMA LastJobDone ==
  ASSUME PoolInv, NEW t \in Threads, stack[t] # <<>>, Head(stack[t]).at = "signal",
         NEW r \in Slots, r = Head(stack[t]).id.slot, slots[r].remainingJobs = 1,
         NEW f \in CallFrames, f.at = "complete", f.id = Head(stack[t]).id,
         NEW g \in CallFrames, g.at = "unpin", g.id = Head(stack[t]).id,
         Restack(t, Len(stack[t]) - 1, <<g, f>>), PoolTyped',
         UNCHANGED <<free, queue, issued>>, slots'[r].remainingJobs = 0,
         \A s \in Slots : /\ slots'[s].generation = slots[s].generation
                          /\ slots'[s].refCount = slots[s].refCount
                          /\ s # r => slots'[s].remainingJobs = slots[s].remainingJobs
  PROVE  PoolInv'
<1> DEFINE L == Len(stack[t])
           h == Head(stack[t])
           x == <<t, L>>
           y == <<t, L + 1>>
<1>1. PoolTyped /\ RefsCounted /\ SlotsPlaced
  BY DEF PoolInv
<1>2. h \in CallFrames /\ (\A F : <<t, L>> \in CallsIn(F) <=> h \in F)
  BY Innermost
<1>3. \A F : <<t, L + 1>> \notin CallsIn(F)
  BY Innermost
<1>4. \A F : CallsIn(F)' = (CallsIn(F) \ {x}) \cup Where(x, f, F) \cup Where(y, g, F)
  BY <1>1, Replace2
<1>5. RefOf(h) = r /\ RefOf(f) = r /\ RefOf(g) = r
  BY <1>2, RefOfCases
<1>6. h.at \notin DropPoints /\ f.at \notin DropPoints /\ g.at \notin DropPoints
  BY DEF DropPoints
<1>7. L \in Nat /\ L + 1 # 0
  BY Innermost
<1>8. y # <<Main, 0>>
  BY <1>7
<1> HIDE DEF x, y
<1>9. ASSUME NEW s \in Slots
      PROVE  /\ x \in CallsIn(RefFrames(s)) <=> s = r
             /\ f \in RefFrames(s) <=> s = r
             /\ g \in RefFrames(s) <=> s = r
             /\ x \notin CallsIn(DropFrames(s)) /\ f \notin DropFrames(s) /\ g \notin DropFrames(s)
  BY <1>2, <1>5, <1>6, RefOfCases DEF x
<1>10. ASSUME NEW s \in Slots
       PROVE  Droppers(s)' = Droppers(s) /\ Handed(s)
  <2>1. /\ Refs(s) = CallsIn(RefFrames(s)) \cup BirthRef(s)
        /\ Refs(s)' = CallsIn(RefFrames(s))' \cup BirthRef(s)'
        /\ Droppers(s) = CallsIn(DropFrames(s))
        /\ Droppers(s)' = CallsIn(DropFrames(s))'
        /\ <<Main, 0>> \notin CallsIn(RefFrames(s))
    BY <1>1, RefsForm, RefsFormNext
  <2>2. CallsIn(DropFrames(s))' = CallsIn(DropFrames(s))
    BY <1>4, <1>9 DEF Where
  <2>3. CASE s # r
    <3>1. CallsIn(RefFrames(s))' = CallsIn(RefFrames(s))
      BY <1>4, <1>9, <2>3 DEF Where
    <3>2. BirthRef(s)' = BirthRef(s)
      BY <2>3 DEF BirthRef
    <3> QED BY <2>1, <2>2, <3>1, <3>2 DEF Handed
  <2>4. CASE s = r
    <3>1. CallsIn(RefFrames(s))' = CallsIn(RefFrames(s)) \cup {y}
      BY <1>4, <1>9, <2>4 DEF Where
    <3>2. BirthRef(s) = {<<Main, 0>>} /\ BirthRef(s)' = {}
      BY <2>4 DEF BirthRef
    <3>3. y \notin CallsIn(RefFrames(s))
      BY <1>3 DEF y
    <3>4. Refs(s)' = (Refs(s) \ {<<Main, 0>>}) \cup {y}
      BY <2>1, <3>1, <3>2
    <3>5. <<Main, 0>> \in Refs(s) /\ y \notin Refs(s)
      BY <1>8, <2>1, <3>2, <3>3
    <3> QED BY <2>1, <2>2, <3>4, <3>5 DEF Handed
  <2> QED BY <2>3, <2>4
<1>11. RefsCounted' /\ SlotsPlaced'
  BY <1>1, <1>10, CountKept, PlacesKept
<1>12. Plain(f) /\ Plain(g)
  BY DEF Plain, PinPoints, Pinned
<1>13. CallsFit' /\ PinsHold'
  BY <1>12, PlainStep
<1> QED BY <1>11, <1>13 DEF PoolInv

LEMMA SignalCompleteKeeps ==
  ASSUME PoolInv, NEW t \in Threads, SignalComplete(t) PROVE PoolInv'
<1> DEFINE h == Head(stack[t])
           f == Frame("complete", Id(t), <<>>)
           g == Frame("unpin", Id(t), <<>>)
           L == Len(stack[t])
<1>1. /\ stack[t] # <<>> /\ h.at = "signal" /\ PoolTyped /\ UNCHANGED <<free, queue, issued>>
  BY DEF SignalComplete, At, PoolInv
<1>2. PICK r \in Slots : r = h.id.slot
  BY <1>1, Innermost
<1>3. Id(t) = h.id /\ h \in CallFrames /\ h.id \in Ids /\ slots[r] \in SlotStates
  BY <1>1, <1>2, Innermost
<1> DEFINE n == slots[r].remainingJobs - 1
           e == [slots[r] EXCEPT !["remainingJobs"] = n]
<1>4. /\ slots' = [slots EXCEPT ![r] = e]
      /\ Continue(t, <<g>> \o (IF n = 0 THEN <<f>> ELSE <<>>))
  BY <1>2, <1>3 DEF SignalComplete, Slot, Set
<1>5. n \in Int /\ slots[r].remainingJobs \in Int
  BY <1>3 DEF SlotStates
<1>6. /\ e \in SlotStates /\ e.refCount = slots[r].refCount
      /\ e.generation = slots[r].generation /\ e.remainingJobs = n
  BY <1>3, <1>5, FieldSet
<1>7. f \in CallFrames /\ f.at = "complete" /\ f.id = h.id
  BY <1>3 DEF Frame, CallFrames, Points
<1>8. g \in CallFrames /\ g.at = "unpin" /\ g.id = h.id
  BY <1>3 DEF Frame, CallFrames, Points
<1> HIDE DEF e, f, g
<1>9. /\ slots' \in [Slots -> SlotStates] /\ slots'[r] = e
      /\ \A s \in Slots : s # r => slots'[s] = slots[s]
  BY <1>1, <1>2, <1>4, <1>6, SlotSet
<1>10. <<g>> \o <<f>> = <<g, f>> /\ <<g>> \o <<>> = <<g>>
  BY <1>7, <1>8, Joined
<1>11. CASE n = 0
  <2>1. Restack(t, L - 1, <<g, f>>)
    BY <1>1, <1>4, <1>7, <1>8, <1>10, <1>11, Continued2
  <2>2. PoolTyped'
    BY <1>1, <1>9, <2>1 DEF PoolTyped, Restack
  <2>3. slots[r].remainingJobs = 1 /\ slots'[r].remainingJobs = 0
    BY <1>5, <1>6, <1>9, <1>11
  <2>4. \A s \in Slots : /\ slots'[s].generation = slots[s].generation
                         /\ slots'[s].refCount = slots[s].refCount
                         /\ s # r => slots'[s].remainingJobs = slots[s].remainingJobs
    BY <1>6, <1>9
  <2> QED BY <1>1, <1>2, <1>7, <1>8, <2>1, <2>2, <2>3, <2>4, LastJobDone
<1>12. CASE n # 0
  <2>1. Restack(t, L - 1, <<g>>)
    BY <1>1, <1>4, <1>8, <1>10, <1>12, Continued1
  <2>2. SameKind(g, h) /\ Plain(g)
    BY <1>1, <1>3, <1>8, RefOfCases DEF SameKind, DropPoints, Plain, PinPoints, Pinned
  <2>3. n > 0 <=> slots[r].remainingJobs > 0
    BY <1>5, <1>12
  <2>4. \A s \in Slots : /\ slots'[s].generation = slots[s].generation
                         /\ slots'[s].refCount = slots[s].refCount
                         /\ slots'[s].remainingJobs > 0 <=> slots[s].remainingJobs > 0
    BY <1>6, <1>9, <2>3
  <2>5. queue' \subseteq Ids
    BY <1>1 DEF PoolTyped
  <2> QED BY <1>1, <1>8, <1>9, <2>1, <2>2, <2>4, <2>5, PlainGoesOn
<1> QED BY <1>11, <1>12

----------------------------------------------------------------------------
(* What is done with a pin, and the end of a drop *)

\* The call that has pinned hands the reference to an unpin above it.
LEMMA PinHandedOver ==
  ASSUME PoolInv, NEW t \in Threads, stack[t] # <<>>, Head(stack[t]).at \in Pinned,
         NEW f \in CallFrames, f.id = Head(stack[t]).id,
         IF Head(stack[t]).at = "resolve" THEN f.at = "dependents" ELSE f.at = "addDependents",
         NEW g \in CallFrames, g.at = "unpin", g.id = Head(Head(stack[t]).todo),
         NEW p \in CallFrames, p.at = "push",
         \/ Restack(t, Len(stack[t]) - 1, <<g, f>>)
         \/ Restack(t, Len(stack[t]) - 1, <<p, g, f>>),
         slots' \in [Slots -> SlotStates], UNCHANGED <<free, queue, issued>>,
         \A s \in Slots : /\ slots'[s].generation = slots[s].generation
                          /\ slots'[s].refCount = slots[s].refCount
                          /\ slots'[s].remainingJobs = slots[s].remainingJobs
  PROVE  PoolInv'
<1> DEFINE L == Len(stack[t])
           h == Head(stack[t])
           x == <<t, L>>
           y == <<t, L + 1>>
           z == <<t, L + 2>>
<1>1. PoolTyped /\ RefsCounted /\ SlotsPlaced
  BY DEF PoolInv
<1>2. h \in CallFrames /\ (\A F : <<t, L>> \in CallsIn(F) <=> h \in F)
  BY Innermost
<1>3. \A F : <<t, L + 1>> \notin CallsIn(F)
  BY Innermost
<1>4. PoolTyped'
  BY <1>1 DEF PoolTyped, Restack
<1>5. ASSUME NEW F, p \notin F
      PROVE  CallsIn(F)' = (CallsIn(F) \ {x}) \cup Where(x, f, F) \cup Where(y, g, F)
  <2>1. CASE Restack(t, Len(stack[t]) - 1, <<g, f>>)
    BY <1>1, <2>1, Replace2
  <2>2. CASE Restack(t, Len(stack[t]) - 1, <<p, g, f>>)
    <3>1. /\ Restack(t, Len(stack[t]) - 1, <<p, g, f>>) /\ PoolTyped /\ stack[t] # <<>>
          /\ f \in CallFrames /\ g \in CallFrames /\ p \in CallFrames /\ t \in Threads
      BY <1>1, <2>2
    <3>2. CallsIn(F)' = (CallsIn(F) \ {x}) \cup Where(x, f, F) \cup Where(y, g, F)
                          \cup Where(z, p, F)
      BY ONLY <3>1, Replace3, ZenonT(30)
    <3>3. Where(z, p, F) = {}
      BY <1>5 DEF Where
    <3> QED BY <3>2, <3>3
  <2> QED BY <2>1, <2>2
<1>6. PICK r : r = RefOf(h)
  OBVIOUS
<1>7. RefOf(g) = r /\ RefOf(f) = 0 /\ RefOf(p) = 0 /\ p.at \notin DropPoints
      /\ g.at \notin DropPoints
  <2>1. RefOf(h) = Head(h.todo).slot
    BY <1>2, RefOfCases
  <2>2. RefOf(g) = Head(h.todo).slot
    BY RefOfCases
  <2>3. f.at \in {"dependents", "addDependents"}
    OBVIOUS
  <2>4. RefOf(f) = 0 /\ RefOf(p) = 0
    BY <2>3, RefOfCases
  <2> QED BY <1>6, <2>1, <2>2, <2>4 DEF DropPoints
<1>8. (f.at \in DropPoints <=> h.at \in DropPoints) /\ f.id = h.id
  BY DEF DropPoints, Pinned
<1>9. L \in Nat /\ L # 0 /\ L # L + 1
  BY Innermost
<1>10. x # <<Main, 0>> /\ x # y
  BY <1>9
<1> HIDE DEF x, y, z
<1>11. ASSUME NEW s \in Slots
       PROVE  /\ x \in CallsIn(RefFrames(s)) <=> s = r
              /\ f \notin RefFrames(s) /\ p \notin RefFrames(s) /\ p \notin DropFrames(s)
              /\ g \in RefFrames(s) <=> s = r
              /\ y \notin CallsIn(RefFrames(s)) /\ g \notin DropFrames(s)
              /\ x \in CallsIn(DropFrames(s)) <=> f \in DropFrames(s)
  BY <1>2, <1>3, <1>6, <1>7, <1>8, RefOfCases, SlotsPositive DEF x, y
<1>12. ASSUME NEW s \in Slots
       PROVE  Droppers(s)' = Droppers(s) /\ Handed(s)
  <2>1. /\ Refs(s) = CallsIn(RefFrames(s)) \cup BirthRef(s)
        /\ Refs(s)' = CallsIn(RefFrames(s))' \cup BirthRef(s)'
        /\ Droppers(s) = CallsIn(DropFrames(s))
        /\ Droppers(s)' = CallsIn(DropFrames(s))'
    BY <1>1, <1>4, RefsForm, RefsFormNext
  <2>6. /\ CallsIn(RefFrames(s))' = (CallsIn(RefFrames(s)) \ {x})
              \cup Where(x, f, RefFrames(s)) \cup Where(y, g, RefFrames(s))
        /\ CallsIn(DropFrames(s))' = (CallsIn(DropFrames(s)) \ {x})
              \cup Where(x, f, DropFrames(s)) \cup Where(y, g, DropFrames(s))
    <3>1. p \notin RefFrames(s) /\ p \notin DropFrames(s)
      BY <1>11
    <3>2. PICK R : R = RefFrames(s)
      OBVIOUS
    <3>3. PICK D : D = DropFrames(s)
      OBVIOUS
    <3>4. CallsIn(R)' = (CallsIn(R) \ {x}) \cup Where(x, f, R) \cup Where(y, g, R)
      BY <1>5, <3>1, <3>2
    <3>5. CallsIn(D)' = (CallsIn(D) \ {x}) \cup Where(x, f, D) \cup Where(y, g, D)
      BY <1>5, <3>1, <3>3
    <3> QED BY <3>2, <3>3, <3>4, <3>5
  <2>2. CallsIn(DropFrames(s))' = CallsIn(DropFrames(s))
    BY <1>11, <2>6 DEF Where
  <2>3. BirthRef(s)' = BirthRef(s) /\ x \notin BirthRef(s)
    BY <1>10 DEF BirthRef
  <2>4. CASE s # r
    <3>1. CallsIn(RefFrames(s))' = CallsIn(RefFrames(s))
      BY <1>11, <2>4, <2>6 DEF Where
    <3> QED BY <2>1, <2>2, <2>3, <3>1 DEF Handed
  <2>5. CASE s = r
    <3>1. CallsIn(RefFrames(s))' = (CallsIn(RefFrames(s)) \ {x}) \cup {y}
      BY <1>11, <2>5, <2>6 DEF Where
    <3>2. Refs(s)' = (Refs(s) \ {x}) \cup {y}
      BY <2>1, <2>3, <3>1
    <3>3. x \in Refs(s) /\ y \notin Refs(s) \ {x}
      <4>1. y \notin BirthRef(s)
        <5>1. y # <<Main, 0>>
          BY <1>9 DEF y
        <5> QED BY <5>1 DEF BirthRef
      <4> QED BY <1>11, <2>1, <2>5, <4>1
    <3> QED BY <2>1, <2>2, <3>2, <3>3 DEF Handed
  <2> QED BY <2>4, <2>5
<1>13. RefsCounted' /\ SlotsPlaced'
  BY <1>1, <1>12, CountKept, PlacesKept
<1>14. Plain(f) /\ Plain(g) /\ Plain(p)
  BY DEF Plain, PinPoints, Pinned
<1>15. CallsFit' /\ PinsHold'
  BY <1>14, PlainStep
<1> QED BY <1>4, <1>13, <1>15 DEF PoolInv

LEMMA DropResolveKeeps == ASSUME PoolInv, NEW t \in Threads, DropResolve(t) PROVE PoolInv'
<1> DEFINE h == Head(stack[t])
           dep == Head(h.todo)
           f == Frame("dependents", h.id, Tail(h.todo))
           g == Frame("unpin", dep, <<>>)
           p == Frame("push", dep, <<>>)
           L == Len(stack[t])
<1>1. /\ stack[t] # <<>> /\ h.at = "resolve" /\ PoolTyped /\ UNCHANGED <<free, queue, issued>>
  BY DEF DropResolve, At, PoolInv
<1>2. h.todo # <<>>
  BY <1>1, Innermost DEF Pinned
<1>3. PICK r \in Slots : r = dep.slot
  BY <1>1, <1>2, Innermost
<1>4. /\ Id(t) = h.id /\ Todo(t) = h.todo /\ h.id \in Ids /\ dep \in Ids
      /\ Tail(h.todo) \in Seq(Ids) /\ slots[r] \in SlotStates
  BY <1>1, <1>2, Innermost DEF PoolTyped
<1> DEFINE n == slots[r].dependencyCount
           e == [slots[r] EXCEPT !["dependencyCount"] = n - 1]
<1>5. /\ slots' = [slots EXCEPT ![r] = e]
      /\ Continue(t, (IF n = 1 THEN <<p>> ELSE <<>>) \o <<g>> \o <<f>>)
  BY <1>3, <1>4 DEF DropResolve, Slot, Set
<1>6. /\ e \in SlotStates /\ e.refCount = slots[r].refCount
      /\ e.generation = slots[r].generation /\ e.remainingJobs = slots[r].remainingJobs
  <2>1. n - 1 \in Int
    BY <1>4 DEF SlotStates
  <2> QED BY <1>4, <2>1, FieldSet
<1>7. f \in CallFrames /\ f.at = "dependents" /\ f.id = h.id
  BY <1>4 DEF Frame, CallFrames, Points
<1>8. g \in CallFrames /\ g.at = "unpin" /\ g.id = dep
  BY <1>4 DEF Frame, CallFrames, Points
<1>9. p \in CallFrames /\ p.at = "push"
  BY <1>4 DEF Frame, CallFrames, Points
<1> HIDE DEF e, f, g, p, n
<1>10. /\ slots' \in [Slots -> SlotStates] /\ slots'[r] = e
       /\ \A s \in Slots : s # r => slots'[s] = slots[s]
  BY <1>1, <1>3, <1>5, <1>6, SlotSet
<1>11. <<p>> \o <<g>> \o <<f>> = <<p, g, f>> /\ <<>> \o <<g>> \o <<f>> = <<g, f>>
  BY <1>7, <1>8, <1>9, Joined
<1>12. Restack(t, L - 1, <<g, f>>) \/ Restack(t, L - 1, <<p, g, f>>)
  BY <1>1, <1>5, <1>7, <1>8, <1>9, <1>11, Continued2, Continued3
<1>13. \A s \in Slots : /\ slots'[s].generation = slots[s].generation
                        /\ slots'[s].refCount = slots[s].refCount
                        /\ slots'[s].remainingJobs = slots[s].remainingJobs
  BY <1>6, <1>10
<1> QED BY <1>1, <1>7, <1>8, <1>9, <1>10, <1>12, <1>13, PinHandedOver DEF Pinned

LEMMA RegisterDependentKeeps ==
  ASSUME PoolInv, NEW t \in Threads, RegisterDependent(t) PROVE PoolInv'
<1> DEFINE h == Head(stack[t])
           dep == Head(h.todo)
           f == Frame("addDependents", h.id, Tail(h.todo))
           g == Frame("unpin", dep, <<>>)
           p == Frame("push", dep, <<>>)
           L == Len(stack[t])
           room == slots[dep.slot].dependentCount < MaxDependents
<1>1. /\ stack[t] # <<>> /\ h.at = "register" /\ PoolTyped /\ UNCHANGED <<free, queue, issued>>
  BY DEF RegisterDependent, At, PoolInv
<1>2. h.todo # <<>>
  BY <1>1, Innermost DEF Pinned
<1>3. /\ Id(t) = h.id /\ Todo(t) = h.todo /\ h.id \in Ids /\ dep \in Ids
      /\ Tail(h.todo) \in Seq(Ids)
  BY <1>1, <1>2, Innermost
<1>4. /\ slots' = [s \in Slots |->
                     [slots[s] EXCEPT
                        !.dependentCount = IF s = dep.slot THEN @ + 1 ELSE @,
                        !.dependents = IF s = dep.slot /\ room THEN Append(@, h.id) ELSE @,
                        !.dependencyCount = IF s = h.id.slot /\ room THEN @ + 1 ELSE @]]
      /\ Continue(t, <<g>> \o <<f>>)
  BY <1>3 DEF RegisterDependent
<1>5. f \in CallFrames /\ f.at = "addDependents" /\ f.id = h.id
  BY <1>3 DEF Frame, CallFrames, Points
<1>6. g \in CallFrames /\ g.at = "unpin" /\ g.id = dep
  BY <1>3 DEF Frame, CallFrames, Points
<1>7. p \in CallFrames /\ p.at = "push"
  BY <1>3 DEF Frame, CallFrames, Points
<1>8. ASSUME NEW s \in Slots
      PROVE  /\ slots'[s] \in SlotStates /\ slots'[s].refCount = slots[s].refCount
             /\ slots'[s].generation = slots[s].generation
             /\ slots'[s].remainingJobs = slots[s].remainingJobs
  <2> DEFINE a == IF s = dep.slot THEN slots[s].dependentCount + 1
                                  ELSE slots[s].dependentCount
             b == IF s = dep.slot /\ room THEN Append(slots[s].dependents, h.id)
                                          ELSE slots[s].dependents
             c == IF s = h.id.slot /\ room THEN slots[s].dependencyCount + 1
                                           ELSE slots[s].dependencyCount
  <2>1. slots[s] \in SlotStates
    BY <1>1 DEF PoolTyped
  <2>2. /\ slots[s].dependentCount \in Int /\ slots[s].dependencyCount \in Int
        /\ slots[s].dependents \in Seq(Ids)
    BY <2>1 DEF SlotStates
  <2>3. a \in Int /\ c \in Int
    BY <2>2
  <2>4. b \in Seq(Ids)
    BY <1>3, <2>2, AppendProperties
  <2>5. slots'[s] = [slots[s] EXCEPT !.dependentCount = a, !.dependents = b,
                                     !.dependencyCount = c]
    BY <1>4
  <2> HIDE DEF a, b, c
  <2>6. PICK o \in SlotStates : o = slots[s]
    BY <2>1
  <2>7. \A q \in Seq(Ids) : \A m, n \in Int :
          LET e == [o EXCEPT !.dependentCount = m, !.dependents = q, !.dependencyCount = n]
          IN /\ e \in SlotStates /\ e.refCount = o.refCount
             /\ e.generation = o.generation /\ e.remainingJobs = o.remainingJobs
    <3>1. o \in SlotStates
      BY <2>6
    <3> SUFFICES ASSUME NEW q \in Seq(Ids), NEW m \in Int, NEW n \in Int
                 PROVE  LET e == [o EXCEPT !.dependentCount = m, !.dependents = q,
                                           !.dependencyCount = n]
                        IN /\ e \in SlotStates /\ e.refCount = o.refCount
                           /\ e.generation = o.generation /\ e.remainingJobs = o.remainingJobs
      OBVIOUS
    <3> QED BY ONLY <3>1, q \in Seq(Ids), m \in Int, n \in Int DEF SlotStates
  <2>8. PICK m \in Int : m = a
    BY <2>3
  <2>9. PICK n \in Int : n = c
    BY <2>3
  <2>10. PICK q \in Seq(Ids) : q = b
    BY <2>4
  <2> DEFINE e == [o EXCEPT !.dependentCount = m, !.dependents = q, !.dependencyCount = n]
  <2>11. slots'[s] = e
    BY <2>5, <2>6, <2>8, <2>9, <2>10
  <2>12. /\ e \in SlotStates /\ e.refCount = o.refCount
         /\ e.generation = o.generation /\ e.remainingJobs = o.remainingJobs
    BY <2>7
  <2> HIDE DEF e
  <2> QED BY <2>6, <2>11, <2>12
<1>9. slots' \in [Slots -> SlotStates]
  <2>1. \E z : slots' = [s \in Slots |-> slots'[s]]
    BY <1>4
  <2> QED BY <1>8, <2>1
<1> HIDE DEF f, g, p
<1>10. <<g>> \o <<f>> = <<g, f>>
  BY <1>5, <1>6, Joined
<1>11. Restack(t, L - 1, <<g, f>>)
  BY <1>1, <1>4, <1>5, <1>6, <1>10, Continued2
<1> QED BY <1>1, <1>5, <1>6, <1>7, <1>8, <1>9, <1>11, PinHandedOver DEF Pinned

----------------------------------------------------------------------------
(* The free list *)

LEMMA Prepended ==
  ASSUME NEW r \in Slots, NEW q \in Seq(Slots)
  PROVE  LET p == <<r>> \o q
         IN /\ p \in Seq(Slots)
            /\ \A i \in DOMAIN p : \/ i = 1 /\ p[i] = r
                                   \/ i - 1 \in DOMAIN q /\ p[i] = q[i - 1]
            /\ 1 \in DOMAIN p /\ p[1] = r
            /\ \A i \in DOMAIN q : i + 1 \in DOMAIN p /\ p[i + 1] = q[i]
<1> DEFINE one == <<r>>
           p == one \o q
<1>1. one \in Seq(Slots) /\ Len(one) = 1 /\ one[1] = r /\ Len(q) \in Nat /\ DOMAIN q = 1 .. Len(q)
  BY LenProperties
<1> HIDE DEF one
<1>2. /\ p \in Seq(Slots) /\ Len(p) = 1 + Len(q)
      /\ \A i \in 1 .. 1 + Len(q) : p[i] = IF i <= 1 THEN one[i] ELSE q[i - 1]
  <2>1. /\ p \in Seq(Slots) /\ Len(p) = Len(one) + Len(q)
        /\ \A i \in 1 .. Len(one) + Len(q) :
             p[i] = IF i <= Len(one) THEN one[i] ELSE q[i - Len(one)]
    BY <1>1, ConcatProperties
  <2> HIDE DEF p
  <2> QED BY <1>1, <2>1
<1>3. DOMAIN p = 1 .. 1 + Len(q)
  BY <1>2, LenProperties
<1> HIDE DEF p
<1>4. \A i \in DOMAIN p : \/ i = 1 /\ p[i] = r
                          \/ i - 1 \in DOMAIN q /\ p[i] = q[i - 1]
  <2>1. SUFFICES ASSUME NEW i \in 1 .. 1 + Len(q)
                 PROVE  \/ i = 1 /\ p[i] = r
                        \/ i - 1 \in 1 .. Len(q) /\ p[i] = q[i - 1]
    BY <1>1, <1>3
  <2>2. CASE i = 1
    BY <1>1, <1>2, <2>2
  <2>3. CASE i # 1
    <3>1. ~(i <= 1) /\ i - 1 \in 1 .. Len(q)
      BY <1>1, <2>3
    <3> QED BY <1>2, <3>1
  <2> QED BY <2>2, <2>3
<1>5. 1 \in DOMAIN p /\ p[1] = r
  BY <1>1, <1>2, <1>3
<1>6. \A i \in DOMAIN q : i + 1 \in DOMAIN p /\ p[i + 1] = q[i]
  <2>1. SUFFICES ASSUME NEW i \in 1 .. Len(q)
                 PROVE  i + 1 \in 1 .. 1 + Len(q) /\ p[i + 1] = q[i]
    BY <1>1, <1>3
  <2>2. i + 1 \in 1 .. 1 + Len(q) /\ ~(i + 1 <= 1) /\ (i + 1) - 1 = i
    BY <1>1
  <2> QED BY <1>2, <2>2
<1>7. p \in Seq(Slots)
  BY <1>2
<1> QED BY <1>4, <1>5, <1>6, <1>7 DEF p, one

LEMMA Removed ==
  ASSUME NEW q \in Seq(Slots), q # <<>>
  PROVE  /\ Head(q) \in Slots /\ Head(q) = q[1] /\ 1 \in DOMAIN q
         /\ Tail(q) \in Seq(Slots)
         /\ \A i \in DOMAIN Tail(q) : i + 1 \in DOMAIN q /\ i + 1 # 1 /\ Tail(q)[i] = q[i + 1]
         /\ \A i \in DOMAIN q : i # 1 => i - 1 \in DOMAIN Tail(q) /\ Tail(q)[i - 1] = q[i]
<1> DEFINE p == Tail(q)
<1>1. /\ Head(q) \in Slots /\ Head(q) = q[1] /\ p \in Seq(Slots) /\ Len(p) = Len(q) - 1
      /\ \A i \in 1 .. Len(p) : p[i] = q[i + 1]
  BY HeadTailProperties
<1>2. Len(q) \in Nat /\ Len(q) >= 1 /\ DOMAIN q = 1 .. Len(q) /\ DOMAIN p = 1 .. Len(p)
  BY <1>1, LenProperties, EmptySeq
<1> HIDE DEF p
<1>3. ASSUME NEW i \in 1 .. Len(p)
      PROVE  i + 1 \in 1 .. Len(q) /\ i + 1 # 1 /\ p[i] = q[i + 1]
  BY <1>1, <1>2
<1>4. ASSUME NEW i \in 1 .. Len(q), i # 1
      PROVE  i - 1 \in 1 .. Len(p) /\ p[i - 1] = q[i]
  <2>1. i - 1 \in 1 .. Len(p) /\ (i - 1) + 1 = i
    BY <1>1, <1>2, <1>4
  <2> QED BY <1>1, <2>1
<1>5. 1 \in 1 .. Len(q)
  BY <1>2
<1> QED BY <1>1, <1>2, <1>3, <1>4, <1>5 DEF p

\* The call c that dropped the batch in slot r puts the slot into the free list.
LEMMA Reclaimed ==
  ASSUME PoolTyped, SlotsPlaced, NEW r \in Slots, NEW c \in Droppers(r),
         free' = <<r>> \o free, Droppers(r)' = Droppers(r) \ {c},
         slots' = slots, \A s \in Slots \ {r} : Droppers(s)' = Droppers(s)
  PROVE  SlotsPlaced'
<1>1. free \in Seq(Slots)
  BY DEF PoolTyped
<1>2. /\ \A i \in DOMAIN free' : \/ i = 1 /\ free'[i] = r
                                 \/ i - 1 \in DOMAIN free /\ free'[i] = free[i - 1]
      /\ 1 \in DOMAIN free' /\ free'[1] = r
      /\ \A i \in DOMAIN free : i + 1 \in DOMAIN free' /\ free'[i + 1] = free[i]
  BY <1>1, Prepended
<1>3. ~(slots[r].refCount > 0) /\ ~Listed(r) /\ Droppers(r)' = {}
  BY DEF SlotsPlaced
<1>4. \A i \in DOMAIN free : free[i] # r
  BY <1>3 DEF Listed
<1>9. \A i \in DOMAIN free' : i \in Int
  BY <1>1, Prepended, LenProperties
<1>5. \A i, j \in DOMAIN free' : free'[i] = free'[j] => i = j
  <2>1. SUFFICES ASSUME NEW i \in DOMAIN free', NEW j \in DOMAIN free', free'[i] = free'[j]
                 PROVE  i = j
    OBVIOUS
  <2>2. CASE i = 1 \/ j = 1
    BY <1>2, <1>4, <2>1, <2>2
  <2>3. CASE i # 1 /\ j # 1
    <3>1. /\ i - 1 \in DOMAIN free /\ free'[i] = free[i - 1]
          /\ j - 1 \in DOMAIN free /\ free'[j] = free[j - 1]
      BY <1>2, <2>3
    <3>2. i - 1 = j - 1
      BY <2>1, <3>1 DEF SlotsPlaced
    <3> QED BY <1>9, <3>2
  <2> QED BY <2>2, <2>3
<1>6. Listed(r)'
  BY <1>2 DEF Listed
<1>7. \A s \in Slots \ {r} : Listed(s)' <=> Listed(s)
  <2>1. SUFFICES ASSUME NEW s \in Slots \ {r}
                 PROVE  (\E i \in DOMAIN free' : free'[i] = s) <=> (\E i \in DOMAIN free : free[i] = s)
    BY DEF Listed
  <2>2. ASSUME NEW i \in DOMAIN free', free'[i] = s
        PROVE  \E j \in DOMAIN free : free[j] = s
    BY <1>2, <2>2
  <2>3. ASSUME NEW i \in DOMAIN free, free[i] = s
        PROVE  \E j \in DOMAIN free' : free'[j] = s
    BY <1>2, <2>3
  <2> QED BY <2>2, <2>3
<1>8. ASSUME NEW s \in Slots
      PROVE  /\ slots'[s].refCount > 0 => Droppers(s)' = {} /\ ~Listed(s)'
             /\ Droppers(s)' # {} => ~Listed(s)'
             /\ \A d, e \in Droppers(s)' : d = e
             /\ slots'[s].refCount > 0 \/ Droppers(s)' # {} \/ Listed(s)'
  <2>1. CASE s = r
    BY <1>3, <1>6, <2>1
  <2>2. CASE s # r
    BY <1>7, <2>2 DEF SlotsPlaced
  <2> QED BY <2>1, <2>2
<1> QED BY <1>5, <1>8 DEF SlotsPlaced

\* The slot r on top of the free list is taken for a batch, with one reference.
LEMMA Allotted ==
  ASSUME PoolTyped, SlotsPlaced, free # <<>>, NEW r \in Slots, r = Head(free),
         free' = Tail(free), slots'[r].refCount > 0,
         \A s \in Slots \ {r} : slots'[s].refCount = slots[s].refCount,
         \A s \in Slots : Droppers(s)' = Droppers(s)
  PROVE  SlotsPlaced'
<1>1. free \in Seq(Slots)
  BY DEF PoolTyped
<1>2. /\ free[1] = r /\ 1 \in DOMAIN free
      /\ \A i \in DOMAIN free' : i + 1 \in DOMAIN free /\ i + 1 # 1 /\ free'[i] = free[i + 1]
      /\ \A i \in DOMAIN free : i # 1 => i - 1 \in DOMAIN free' /\ free'[i - 1] = free[i]
  BY <1>1, Removed
<1>3. Listed(r) /\ Droppers(r) = {}
  BY <1>2 DEF SlotsPlaced, Listed
<1>4. \A i \in DOMAIN free' : i \in Int
  BY <1>1, Removed, LenProperties
<1>5. \A i, j \in DOMAIN free' : free'[i] = free'[j] => i = j
  <2>1. SUFFICES ASSUME NEW i \in DOMAIN free', NEW j \in DOMAIN free', free'[i] = free'[j]
                 PROVE  i = j
    OBVIOUS
  <2>2. i + 1 \in DOMAIN free /\ j + 1 \in DOMAIN free /\ free[i + 1] = free[j + 1]
    BY <1>2, <2>1
  <2>3. i + 1 = j + 1
    BY <2>2 DEF SlotsPlaced
  <2> QED BY <1>4, <2>3
<1>6. ~Listed(r)'
  <2>1. SUFFICES ASSUME NEW i \in DOMAIN free', free'[i] = r
                 PROVE  FALSE
    BY DEF Listed
  <2>2. i + 1 \in DOMAIN free /\ i + 1 # 1 /\ free[i + 1] = free[1]
    BY <1>2, <2>1
  <2> QED BY <1>2, <2>2 DEF SlotsPlaced
<1>7. \A s \in Slots \ {r} : Listed(s)' <=> Listed(s)
  <2>1. SUFFICES ASSUME NEW s \in Slots \ {r}
                 PROVE  (\E i \in DOMAIN free' : free'[i] = s) <=> (\E i \in DOMAIN free : free[i] = s)
    BY DEF Listed
  <2>2. ASSUME NEW i \in DOMAIN free', free'[i] = s
        PROVE  \E j \in DOMAIN free : free[j] = s
    BY <1>2, <2>2
  <2>3. ASSUME NEW i \in DOMAIN free, free[i] = s
        PROVE  \E j \in DOMAIN free' : free'[j] = s
    <3>1. i # 1
      BY <1>2, <2>3
    <3> QED BY <1>2, <2>3, <3>1
  <2> QED BY <2>2, <2>3
<1>8. ASSUME NEW s \in Slots
      PROVE  /\ slots'[s].refCount > 0 => Droppers(s)' = {} /\ ~Listed(s)'
             /\ Droppers(s)' # {} => ~Listed(s)'
             /\ \A d, e \in Droppers(s)' : d = e
             /\ slots'[s].refCount > 0 \/ Droppers(s)' # {} \/ Listed(s)'
  <2>1. CASE s = r
    BY <1>3, <1>6, <2>1
  <2>2. CASE s # r
    BY <1>7, <2>2 DEF SlotsPlaced
  <2> QED BY <2>1, <2>2
<1> QED BY <1>5, <1>8 DEF SlotsPlaced

LEMMA DropReclaimKeeps == ASSUME PoolInv, NEW t \in Threads, DropReclaim(t) PROVE PoolInv'
<1> DEFINE L == Len(stack[t])
           h == Head(stack[t])
           x == <<t, L>>
           w == Frame("workDone", Id(t), <<>>)
<1>1. /\ stack[t] # <<>> /\ h.at = "reclaim" /\ PoolTyped /\ RefsCounted /\ SlotsPlaced
      /\ UNCHANGED <<slots, queue, issued>> /\ Continue(t, <<>>)
  BY DEF DropReclaim, At, PoolInv
<1>2. PICK r \in Slots : r = h.id.slot
  BY <1>1, Innermost
<1>3. Id(t) = h.id /\ h \in CallFrames /\ h.id \in Ids
  BY <1>1, Innermost
<1>4. free' = <<r>> \o free
  BY <1>2, <1>3 DEF DropReclaim
<1>5. w \in CallFrames /\ w.at = "workDone"
  BY <1>3 DEF Frame, CallFrames, Points
<1> HIDE DEF w
<1>6. Restack(t, L - 1, <<>>)
  BY <1>1, Continued0
<1>7. PoolTyped'
  <2>1. free' \in Seq(Slots)
    BY <1>1, <1>4, Prepended DEF PoolTyped
  <2> QED BY <1>1, <1>6, <2>1 DEF PoolTyped, Restack
<1>8. \A F : <<t, L>> \in CallsIn(F) <=> h \in F
  BY <1>1, Innermost
<1>9. \A F : CallsIn(F)' = CallsIn(F) \ {x}
  BY <1>1, <1>6, Pop
<1> HIDE DEF x
<1>10. \A s \in Slots : /\ x \notin CallsIn(RefFrames(s))
                        /\ x \in CallsIn(DropFrames(s)) <=> s = r
  <2>1. RefOf(h) = 0 /\ h.at \in DropPoints
    BY <1>1, <1>3, RefOfCases DEF DropPoints, Pinned
  <2> QED BY <1>2, <1>3, <1>8, <2>1, RefOfCases, SlotsPositive DEF x
<1>11. \A s \in Slots : /\ Refs(s)' = Refs(s)
                        /\ s # r => Droppers(s)' = Droppers(s)
                        /\ s = r => Droppers(s)' = Droppers(s) \ {x} /\ x \in Droppers(s)
  <2>1. SUFFICES ASSUME NEW s \in Slots
                 PROVE  /\ Refs(s)' = Refs(s)
                        /\ s # r => Droppers(s)' = Droppers(s)
                        /\ s = r => Droppers(s)' = Droppers(s) \ {x} /\ x \in Droppers(s)
    OBVIOUS
  <2>2. /\ Refs(s) = CallsIn(RefFrames(s)) \cup BirthRef(s)
        /\ Refs(s)' = CallsIn(RefFrames(s))' \cup BirthRef(s)'
        /\ Droppers(s) = CallsIn(DropFrames(s))
        /\ Droppers(s)' = CallsIn(DropFrames(s))'
    BY <1>1, <1>7, RefsForm, RefsFormNext
  <2>3. BirthRef(s)' = BirthRef(s)
    BY <1>1 DEF BirthRef
  <2>4. CallsIn(RefFrames(s))' = CallsIn(RefFrames(s)) \ {x}
    BY <1>9
  <2>5. CallsIn(DropFrames(s))' = CallsIn(DropFrames(s)) \ {x}
    BY <1>9
  <2> QED BY <1>10, <2>2, <2>3, <2>4, <2>5
<1>12. RefsCounted'
  BY <1>1, <1>11, CountKept DEF Handed
<1>13. SlotsPlaced'
  <2>1. x \in Droppers(r) /\ Droppers(r)' = Droppers(r) \ {x}
    BY <1>11
  <2>2. \A s \in Slots \ {r} : Droppers(s)' = Droppers(s)
    BY <1>11
  <2> QED BY <1>1, <1>4, <2>1, <2>2, Reclaimed
<1>14. Plain(w)
  BY <1>5 DEF Plain, PinPoints, Pinned
<1>15. CallsFit' /\ PinsHold'
  BY <1>1, <1>5, <1>6, <1>14, PlainStep
<1> QED BY <1>7, <1>12, <1>13, <1>15 DEF PoolInv

----------------------------------------------------------------------------
(* submitJobBatch and submitJobBatchWithDependencies *)

LEMMA DependenciesTyped ==
  ASSUME PoolTyped, NEW t \in Threads, NEW deps \in DependencyLists(t)
  PROVE  deps \in Seq(Ids)
<1>1. issued \subseteq Ids
  BY DEF PoolTyped
<1>2. CASE t = Io
  <2>1. deps = <<>>
    BY <1>2 DEF DependencyLists
  <2> QED BY <2>1
<1>3. CASE t # Io
  <2>1. PICK n \in 0 .. MaxDependencies : deps \in [1 .. n -> issued]
    BY <1>3 DEF DependencyLists
  <2>2. n \in Nat
    BY PoolAssumption
  <2>3. deps \in [1 .. n -> Ids]
    BY <1>1, <2>1
  <2> QED BY <2>2, <2>3
<1> QED BY <1>2, <1>3

LEMMA SubmitKeeps ==
  ASSUME PoolInv, NEW t \in Threads, NEW size \in Sizes, NEW fenced \in BOOLEAN,
         NEW deps \in DependencyLists(t), Submit(t, size, fenced, deps)
  PROVE  PoolInv'
<1>0. PICK r \in Slots : r = Head(free)
  <2>1. free # <<>> /\ free \in Seq(Slots)
    BY DEF Submit, PoolInv, PoolTyped
  <2> QED BY <2>1, Removed
<1> DEFINE L == Len(stack[t])
           id == [slot |-> r, gen |-> slots[r].generation]
           f == Frame(IF deps = <<>> THEN "push" ELSE "addDependents", id, deps)
           none == <<>>
           count == IF deps = <<>> THEN 0 ELSE 1
           e == [generation |-> slots[r].generation, refCount |-> 1,
                 dependencyCount |-> count, dependentCount |-> 0, dependents |-> none,
                 remainingJobs |-> size, toStart |-> size, fence |-> fenced]
<1>1. /\ PoolTyped /\ RefsCounted /\ SlotsPlaced /\ free # <<>> /\ free' = Tail(free)
      /\ queue' = queue /\ issued' = issued \cup {id} /\ slots' = [slots EXCEPT ![r] = e]
      /\ stack' = [stack EXCEPT ![t] = <<f>> \o @]
      /\ stack[t] = <<>> \/ Head(stack[t]).at = "job"
  BY <1>0 DEF Submit, MaySubmit, At, PoolInv
<1>2. /\ free \in Seq(Slots) /\ r \in Slots /\ slots[r] \in SlotStates /\ Listed(r)
      /\ free' \in Seq(Slots)
  <2>1. free \in Seq(Slots)
    BY <1>1 DEF PoolTyped
  <2>2. r \in Slots /\ r = free[1] /\ 1 \in DOMAIN free /\ free' \in Seq(Slots)
    BY <1>0, <1>1, <2>1, Removed
  <2> QED BY <1>1, <2>1, <2>2 DEF PoolTyped, Listed
<1>3. slots[r].generation \in Nat
  BY <1>2 DEF SlotStates
<1>4. id \in Ids
  BY <1>2, <1>3 DEF Ids
<1>5. deps \in Seq(Ids)
  BY <1>1, DependenciesTyped
<1>6. f \in CallFrames /\ f.at \in {"push", "addDependents"}
  BY <1>4, <1>5 DEF Frame, CallFrames, Points
<1>7. size \in Nat /\ size > 0 /\ size \in Int
  BY PoolAssumption
<1>8. /\ e \in SlotStates /\ e.refCount = 1 /\ e.generation = slots[r].generation
      /\ e.remainingJobs = size
  <2>1. none \in Seq(Ids) /\ count \in Int
    OBVIOUS
  <2> HIDE DEF none, count
  <2> QED BY <1>3, <1>7, <2>1 DEF SlotStates
<1> HIDE DEF e, f, id
<1>9. /\ slots' \in [Slots -> SlotStates] /\ slots'[r] = e
      /\ \A s \in Slots : s # r => slots'[s] = slots[s]
  BY <1>1, <1>8, SlotSet
<1>10. Restack(t, L, <<f>>)
  BY <1>1, <1>6, Called
<1>11. PoolTyped'
  <2>1. issued' \subseteq Ids /\ queue' \subseteq Ids
    BY <1>1, <1>4 DEF PoolTyped
  <2> QED BY <1>2, <1>9, <1>10, <2>1 DEF PoolTyped, Restack
<1>12. Idle(f) /\ Plain(f)
  BY <1>6, RefOfCases DEF Idle, DropPoints, Plain, PinPoints, Pinned
<1>13. CallsKept
  BY <1>6, <1>10, <1>12, KeptByChange
<1>14. Refs(r) = {} /\ slots[r].refCount = 0
  <2>1. ~(slots[r].refCount > 0)
    BY <1>1, <1>2 DEF SlotsPlaced
  <2> QED BY <1>1, <1>2, <2>1, CountPositive
<1>15. \A s \in Slots : /\ Droppers(s)' = Droppers(s)
                        /\ s # r => Refs(s)' = Refs(s)
                        /\ s = r => Refs(s)' = Refs(s) \cup {<<Main, 0>>}
  <2>1. SUFFICES ASSUME NEW s \in Slots
                 PROVE  /\ Droppers(s)' = Droppers(s)
                        /\ s # r => Refs(s)' = Refs(s)
                        /\ s = r => Refs(s)' = Refs(s) \cup {<<Main, 0>>}
    OBVIOUS
  <2>2. /\ Refs(s) = CallsIn(RefFrames(s)) \cup BirthRef(s)
        /\ Refs(s)' = CallsIn(RefFrames(s))' \cup BirthRef(s)'
        /\ Droppers(s) = CallsIn(DropFrames(s))
        /\ Droppers(s)' = CallsIn(DropFrames(s))'
    BY <1>1, <1>11, RefsForm, RefsFormNext
  <2>3. /\ CallsIn(RefFrames(s))' = CallsIn(RefFrames(s))
        /\ CallsIn(DropFrames(s))' = CallsIn(DropFrames(s))
    BY <1>13 DEF CallsKept
  <2>4. CASE s = r
    <3>1. BirthRef(s)' = {<<Main, 0>>}
      BY <1>7, <1>8, <1>9, <2>4 DEF BirthRef
    <3>2. BirthRef(s) = {} /\ CallsIn(RefFrames(s)) = {}
      BY <1>14, <2>2, <2>4
    <3> QED BY <2>2, <2>3, <2>4, <3>1, <3>2
  <2>5. CASE s # r
    <3>1. BirthRef(s)' = BirthRef(s)
      BY <1>9, <2>5 DEF BirthRef
    <3> QED BY <2>2, <2>3, <2>5, <3>1
  <2> QED BY <2>4, <2>5
<1>16. /\ slots'[r].refCount = 1
       /\ \A s \in Slots : slots'[s].generation = slots[s].generation
       /\ \A s \in Slots \ {r} : slots'[s].refCount = slots[s].refCount
  BY <1>8, <1>9
<1>17. RefsCounted'
  <2>1. slots'[r].refCount = slots[r].refCount + 1
    BY <1>14, <1>16
  <2>2. \A s \in Slots \ {r} : Refs(s)' = Refs(s) /\ slots'[s].refCount = slots[s].refCount
    BY <1>15, <1>16
  <2>3. Refs(r)' = Refs(r) \cup {<<Main, 0>>} /\ <<Main, 0>> \notin Refs(r)
    BY <1>2, <1>14, <1>15
  <2> QED BY <1>1, <2>1, <2>2, <2>3, CountRaised
<1>18. SlotsPlaced'
  <2>1. slots'[r].refCount > 0 /\ \A s \in Slots : Droppers(s)' = Droppers(s)
    BY <1>15, <1>16
  <2>2. r = Head(free)
    BY <1>0
  <2> QED BY <1>1, <1>2, <1>16, <2>1, <2>2, Allotted
<1>19. CallsFit' /\ PinsHold'
  <2>1. stack[t] = <<>> \/ Head(stack[t]).at \notin PinPoints
    BY <1>1 DEF PinPoints
  <2> QED BY <1>6, <1>10, <1>12, <1>16, <2>1, PlainCall
<1> QED BY <1>11, <1>17, <1>18, <1>19 DEF PoolInv

\* What does not touch the pool keeps the invariant.
LEMMA Untouched ==
  ASSUME PoolInv, UNCHANGED <<slots, free, queue, stack, issued>>
  PROVE  PoolInv'
<1>1. \A u, d : CallAt(u, d)' = CallAt(u, d)
  BY DEF CallAt
<1>2. Calls' = Calls /\ \A s : BirthRef(s)' = BirthRef(s)
  BY DEF Calls, BirthRef
<1>3. \A s : Refs(s)' = Refs(s) /\ Droppers(s)' = Droppers(s) /\ Listed(s)' = Listed(s)
  BY <1>1, <1>2 DEF Refs, Droppers, Listed
<1>4. PoolTyped'
  BY DEF PoolTyped, PoolInv
<1>5. CallsFit'
  BY <1>1 DEF CallsFit, PoolInv
<1>6. RefsCounted'
  BY <1>3 DEF RefsCounted, PoolInv
<1>7. PinsHold'
  BY <1>1 DEF PinsHold, PoolInv, Slot
<1>8. SlotsPlaced'
  BY <1>3 DEF SlotsPlaced, PoolInv
<1> QED BY <1>4, <1>5, <1>6, <1>7, <1>8 DEF PoolInv

LEMMA SubmitSomeKeeps ==
  ASSUME PoolInv, NEW t \in Threads, SubmitSome(t) PROVE PoolInv'
<1>1. PICK fenced \in {FALSE, t = Main}, deps \in DependencyLists(t) :
        \/ \E size \in Sizes : Submit(t, size, fenced, deps)
        \/ SubmitFails(t, fenced, deps)
  BY DEF SubmitSome
<1>2. fenced \in BOOLEAN
  BY <1>1
<1>3. CASE SubmitFails(t, fenced, deps)
  BY <1>3, Untouched DEF SubmitFails
<1>4. ASSUME NEW size \in Sizes, Submit(t, size, fenced, deps)
      PROVE  PoolInv'
  BY <1>2, <1>4, SubmitKeeps
<1> QED BY <1>1, <1>3, <1>4

----------------------------------------------------------------------------
(* The invariant *)

LEMMA PoolInvStep == ASSUME PoolInv, [Next]_vars PROVE PoolInv'
<1>1. ASSUME NEW t \in Threads, Step(t)
      PROVE  PoolInv'
  BY <1>1, PinCheckKeeps, PinTakeKeeps, PinVerifyKeeps, UnpinKeeps, DropInvalidateKeeps,
     DropNextDependentKeeps, DropResolveKeeps, DropFenceKeeps, DropReclaimKeeps,
     AddDependentKeeps, RegisterDependentKeeps, ReleaseGuardKeeps, PushKeeps, StartJobKeeps,
     FinishJobKeeps, SignalCompleteKeeps, CompleteBatchKeeps, WorkDoneKeeps DEF Step
<1>2. ASSUME NEW t \in Threads, SubmitSome(t)
      PROVE  PoolInv'
  BY <1>2, SubmitSomeKeeps
<1>3. CASE UNCHANGED vars
  BY <1>3, Untouched DEF vars
<1> QED BY <1>1, <1>2, <1>3 DEF Next, Rest

LEMMA PoolInvInit == Init => PoolInv
<1> SUFFICES ASSUME Init
             PROVE  PoolInv
  OBVIOUS
<1> DEFINE none == <<>>
<1>1. \A t \in Threads : stack[t] = none /\ Len(none) = 0 /\ none \in Seq(CallFrames)
  BY DEF Init
<1>2. Calls = {}
  BY <1>1 DEF Calls
<1>3. none \in Seq(Ids)
  OBVIOUS
<1>4. /\ \A s \in Slots : slots[s] = EmptySlot
      /\ EmptySlot.refCount = 0 /\ EmptySlot.remainingJobs = 0
      /\ slots = [s \in Slots |-> EmptySlot]
      /\ stack = [t \in Threads |-> none]
  BY DEF Init, EmptySlot
<1>5. EmptySlot \in SlotStates
  <2>1. EmptySlot = [generation |-> 0, refCount |-> 0, dependencyCount |-> 0,
                     dependentCount |-> 0, dependents |-> none, remainingJobs |-> 0,
                     toStart |-> 0, fence |-> FALSE]
    BY DEF EmptySlot
  <2> HIDE DEF none
  <2> QED BY <1>3, <2>1 DEF SlotStates
<1> HIDE DEF none
<1>6. free \in Seq(Slots) /\ DOMAIN free = Slots /\ \A i \in Slots : free[i] = i
  BY PoolAssumption DEF Init, Slots
<1>7. PoolTyped
  <2>1. slots \in [Slots -> SlotStates]
    BY <1>4, <1>5
  <2>2. stack \in [Threads -> Seq(CallFrames)]
    BY <1>1, <1>4
  <2>3. queue \subseteq Ids /\ issued \subseteq Ids
    BY DEF Init
  <2> QED BY <1>6, <2>1, <2>2, <2>3 DEF PoolTyped
<1>8. CallsFit /\ PinsHold
  <2>1. \A t \in Threads : \A d \in 1 .. Len(stack[t]) : FALSE
    BY <1>1
  <2> QED BY <2>1 DEF CallsFit, PinsHold
<1>9. \A s \in Slots : Refs(s) = {} /\ Droppers(s) = {}
  BY <1>2, <1>4 DEF Refs, Droppers, BirthRef
<1>10. RefsCounted
  BY <1>4, <1>9, FS_EmptySet DEF RefsCounted
<1>11. SlotsPlaced
  <2>1. \A s \in Slots : Listed(s)
    BY <1>6 DEF Listed
  <2>2. \A s \in Slots : ~(slots[s].refCount > 0)
    BY <1>4
  <2> QED BY <1>6, <1>9, <2>1, <2>2 DEF SlotsPlaced
<1> QED BY <1>7, <1>8, <1>10, <1>11 DEF PoolInv

\* The inductive invariant: every reference a slot counts is held by one call, or
\* is the one its batch was born with; the calls that were told that a pin
\* succeeded (tryPin, getSlot) have the batch of their handle; and every slot is
\* referenced, dropped by one call or listed once.
THEOREM BatchPoolInvariant == Spec => []PoolInv
<1>1. Init => PoolInv
  BY PoolInvInit
<1>2. PoolInv /\ [Next]_vars => PoolInv'
  BY PoolInvStep
<1> QED BY <1>1, <1>2, PTL DEF Spec

----------------------------------------------------------------------------
(* What the invariant means *)

LEMMA FramesAreCalls ==
  ASSUME PoolTyped, NEW t \in Threads
  PROVE  \A f : f \in Frames(t) <=> \E d \in 1 .. Len(stack[t]) : f = CallAt(t, d)
<1>1. stack[t] \in Seq(CallFrames) /\ Len(stack[t]) \in Nat
      /\ DOMAIN stack[t] = 1 .. Len(stack[t])
  BY LenProperties DEF PoolTyped
<1>2. ASSUME NEW f, f \in Frames(t)
      PROVE  \E d \in 1 .. Len(stack[t]) : f = CallAt(t, d)
  <2>1. PICK i \in 1 .. Len(stack[t]) : f = stack[t][i]
    BY <1>1, <1>2 DEF Frames
  <2>2. PICK d \in 1 .. Len(stack[t]) : d = Len(stack[t]) + 1 - i
    <3>1. Len(stack[t]) + 1 - i \in 1 .. Len(stack[t])
      BY <1>1
    <3> QED BY <3>1
  <2>3. Len(stack[t]) + 1 - d = i
    BY <1>1, <2>2
  <2> QED BY <2>1, <2>3 DEF CallAt
<1>3. ASSUME NEW d \in 1 .. Len(stack[t])
      PROVE  CallAt(t, d) \in Frames(t)
  <2>1. Len(stack[t]) + 1 - d \in DOMAIN stack[t]
    BY <1>1
  <2> QED BY <2>1 DEF CallAt, Frames
<1> QED BY <1>2, <1>3

\* The calls that drop the batch in s are its droppers.
LEMMA DroppingCalls ==
  ASSUME PoolTyped, NEW s \in Slots
  PROVE  \A t \in Threads : \A f :
           (f \in Frames(t) /\ f \in Dropping(s))
             <=> \E d : <<t, d>> \in Droppers(s) /\ f = CallAt(t, d)
<1>1. ASSUME NEW t \in Threads, NEW f \in Frames(t)
      PROVE  f \in Dropping(s) <=> f.at \in DropPoints /\ f.id.slot = s
  BY <1>1 DEF Dropping, InFlight, DropPoints
<1>2. \A t \in Threads : \A d : <<t, d>> \in Droppers(s) <=>
         d \in 1 .. Len(stack[t]) /\ CallAt(t, d).at \in DropPoints /\ CallAt(t, d).id.slot = s
  BY DEF Droppers, Calls
<1> QED BY <1>1, <1>2, FramesAreCalls

LEMMA HeldByCall ==
  ASSUME PoolInv, NEW t \in Threads, NEW d \in 1 .. Len(stack[t]), NEW h \in Ids,
         \/ CallAt(t, d).at = "signal" /\ CallAt(t, d).id = h
         \/ CallAt(t, d).at \in Pinned /\ Head(CallAt(t, d).todo) = h
  PROVE  /\ Slot(h).generation = h.gen /\ Slot(h).refCount > 0
         /\ Droppers(h.slot) = {} /\ ~Listed(h.slot)
<1>1. PoolTyped /\ RefsCounted /\ PinsHold /\ SlotsPlaced /\ h.slot \in Slots
  BY DEF PoolInv, Ids
<1>2. Slot(h).generation = h.gen
  BY <1>1 DEF PinsHold
<1>3. CallAt(t, d) \in CallFrames
  BY <1>1, CallTyped
<1>4. CallAt(t, d) \in RefFrames(h.slot)
  BY <1>3, RefOfCases
<1>5. <<t, d>> \in CallsIn(RefFrames(h.slot))
  BY <1>4, CallsInForm
<1>6. Refs(h.slot) # {}
  BY <1>1, <1>5, RefsForm
<1>7. slots[h.slot].refCount > 0
  BY <1>1, <1>6, CountPositive
<1> QED BY <1>1, <1>2, <1>7 DEF SlotsPlaced, Slot

LEMMA PinProtectsHolds == PoolInv => PinProtects
<1> SUFFICES ASSUME PoolInv, NEW t \in Threads, NEW h \in issued, HoldsPin(t, h)
             PROVE  /\ Slot(h).generation = h.gen /\ Slot(h).refCount > 0
                    /\ Dropping(h.slot) = {}
                    /\ \A i \in DOMAIN free : free[i] # h.slot
  BY DEF PinProtects
<1>1. PoolTyped /\ h \in Ids /\ h.slot \in Slots
  BY DEF PoolInv, PoolTyped, Ids
<1>2. \E d \in 1 .. Len(stack[t]) :
         \/ CallAt(t, d).at = "signal" /\ CallAt(t, d).id = h
         \/ CallAt(t, d).at \in Pinned /\ Head(CallAt(t, d).todo) = h
  <2>1. CASE \E f \in Frames(t) : f.at = "signal" /\ f.id = h
    BY <1>1, <2>1, FramesAreCalls
  <2>2. CASE (At(t, "register") \/ At(t, "resolve")) /\ Head(Todo(t)) = h
    <3>1. stack[t] # <<>> /\ Head(stack[t]).at \in Pinned
      BY <2>2 DEF At, Pinned
    <3>2. /\ Len(stack[t]) \in Nat /\ Len(stack[t]) >= 1 /\ Todo(t) = Head(stack[t]).todo
          /\ Head(stack[t]) = CallAt(t, Len(stack[t]))
      BY <3>1, Innermost
    <3>3. Len(stack[t]) \in 1 .. Len(stack[t])
      BY <3>2
    <3> QED BY <2>2, <3>1, <3>2, <3>3
  <2> QED BY <2>1, <2>2 DEF HoldsPin
<1>3. /\ Slot(h).generation = h.gen /\ Slot(h).refCount > 0
      /\ Droppers(h.slot) = {} /\ ~Listed(h.slot)
  BY <1>1, <1>2, HeldByCall
<1>4. Dropping(h.slot) = {}
  <2>1. SUFFICES ASSUME NEW f \in Dropping(h.slot)
                 PROVE  FALSE
    OBVIOUS
  <2>2. PICK u \in Threads : f \in Frames(u)
    BY DEF Dropping, InFlight
  <2> QED BY <1>1, <1>3, <2>2, DroppingCalls
<1> QED BY <1>3, <1>4 DEF Listed

LEMMA SlotsConservedHolds == PoolInv => SlotsConserved
<1> SUFFICES ASSUME PoolInv, NEW s \in Slots
             PROVE  (IF slots[s].refCount > 0 THEN 1 ELSE 0)
                    + Cardinality({tf \in Threads \X Dropping(s) : tf[2] \in Frames(tf[1])})
                    + Cardinality({i \in DOMAIN free : free[i] = s}) = 1
  BY DEF SlotsConserved
<1> DEFINE P == {tf \in Threads \X Dropping(s) : tf[2] \in Frames(tf[1])}
           Q == {i \in DOMAIN free : free[i] = s}
<1>1. PoolTyped /\ SlotsPlaced
  BY DEF PoolInv
<1>2. \A tf : tf \in P <=> \E t \in Threads : \E d :
                              <<t, d>> \in Droppers(s) /\ tf = <<t, CallAt(t, d)>>
  <2>1. \A tf : tf \in P <=> \E t \in Threads : \E f \in Dropping(s) :
                                f \in Frames(t) /\ tf = <<t, f>>
    OBVIOUS
  <2> HIDE DEF P
  <2>2. ASSUME NEW tf, tf \in P
        PROVE  \E t \in Threads : \E d : <<t, d>> \in Droppers(s) /\ tf = <<t, CallAt(t, d)>>
    <3>1. PICK t \in Threads, f \in Dropping(s) : f \in Frames(t) /\ tf = <<t, f>>
      BY <2>1, <2>2
    <3>2. \E d : <<t, d>> \in Droppers(s) /\ f = CallAt(t, d)
      BY <1>1, <3>1, DroppingCalls
    <3> QED BY <3>1, <3>2
  <2>3. ASSUME NEW t \in Threads, NEW d, <<t, d>> \in Droppers(s)
        PROVE  <<t, CallAt(t, d)>> \in P
    <3>1. PICK f : f = CallAt(t, d)
      OBVIOUS
    <3>2. f \in Frames(t) /\ f \in Dropping(s)
      BY <1>1, <2>3, <3>1, DroppingCalls
    <3> QED BY <2>1, <3>1, <3>2
  <2> QED BY <2>2, <2>3
<1>3. \A c \in Droppers(s) : \E t \in Threads : \E d : c = <<t, d>>
  BY DEF Droppers, Calls
<1> HIDE DEF P
<1>4. Droppers(s) = {} => Cardinality(P) = 0
  BY <1>2, FS_EmptySet
<1>5. Droppers(s) # {} => Cardinality(P) = 1
  <2>1. ASSUME NEW c \in Droppers(s)
        PROVE  Cardinality(P) = 1
    <3>4. PICK t \in Threads : \E d : c = <<t, d>>
      BY <1>3
    <3>1. PICK d : c = <<t, d>>
      BY <3>4
    <3>2. \A e \in Droppers(s) : e = <<t, d>>
      BY <1>1, <3>1 DEF SlotsPlaced
    <3>3. P = {<<t, CallAt(t, d)>>}
      BY <1>2, <3>1, <3>2
    <3> QED BY <3>3, FS_Singleton
  <2> QED BY <2>1
<1>6. ~Listed(s) => Cardinality(Q) = 0
  <2>1. ~Listed(s) => Q = {}
    BY DEF Listed
  <2> QED BY <2>1, FS_EmptySet
<1>7. Listed(s) => Cardinality(Q) = 1
  <2>1. ASSUME NEW i \in DOMAIN free, free[i] = s
        PROVE  Cardinality(Q) = 1
    <3>1. Q = {i}
      BY <1>1, <2>1 DEF SlotsPlaced
    <3> QED BY <3>1, FS_Singleton
  <2> QED BY <2>1 DEF Listed
<1>8. /\ slots[s].refCount > 0 => Droppers(s) = {} /\ ~Listed(s)
      /\ Droppers(s) # {} => ~Listed(s)
      /\ slots[s].refCount > 0 \/ Droppers(s) # {} \/ Listed(s)
  BY <1>1 DEF SlotsPlaced
<1> HIDE DEF Q
<1>9. (IF slots[s].refCount > 0 THEN 1 ELSE 0) + Cardinality(P) + Cardinality(Q) = 1
  BY <1>4, <1>5, <1>6, <1>7, <1>8
<1> QED BY <1>9 DEF P, Q

\* A pin that succeeded protects the batch (tryPin, getSlot, unpin): until it is
\* given back the slot keeps its generation and is neither dropped nor reused, for
\* any number of threads, slots, batches and dependencies, in every order of steps.
THEOREM PinsProtect == Spec => []PinProtects
BY BatchPoolInvariant, PinProtectsHolds, PTL

\* No slot leaks and none is handed out twice (allocateJobBatch, dropHandle): it is
\* referenced, in the hands of the one thread that drops it, or once in the free list.
THEOREM SlotsAreConserved == Spec => []SlotsConserved
BY BatchPoolInvariant, SlotsConservedHolds, PTL
----------------------------------------------------------------------------
(* The inductive invariant behind DependenciesFirst *)

\* No batch has had more dependents than there is room for.
DependentsFit == \A s \in Slots : slots[s].dependentCount <= MaxDependents

Named(q, h) == \E i \in DOMAIN q : q[i] = h
NoRepeats(q) == \A i, k \in DOMAIN q : q[i] = q[k] => i = k

\* The frames of calls that register batch h as a dependent (of batch k), that
\* push it, that release the dependents (h among them) of the batch in slot s,
\* and that run a job of h; and of those whose list of handles is not in order.
GuardPoints == {"addDependents", "register"}
ReleasePoints == {"dependents", "resolve", "reclaim"}
RunPoints == {"job", "signal"}
GuardFrames(h) == {f \in CallFrames : f.at \in GuardPoints /\ f.id = h}
GuardFramesOf(h, k) == {f \in GuardFrames(h) : Named(f.todo, k)}
PushFrames(h) == {f \in CallFrames : f.at = "push" /\ f.id = h}
ReleaseFrames(s) == {f \in CallFrames : f.at \in ReleasePoints /\ f.id.slot = s}
ReleaseFramesOf(s, h) == {f \in ReleaseFrames(s) : Named(f.todo, h)}
RunFrames(h) == {f \in CallFrames : f.at \in RunPoints /\ f.id = h}
UntidyFrames ==
  {f \in CallFrames : \/ f.at \in GuardPoints \cup ReleasePoints /\ ~NoRepeats(f.todo)
                      \/ f.at = "reclaim" /\ f.todo # <<>>}

Guards(h) == CallsIn(GuardFrames(h))
Pushers(h) == CallsIn(PushFrames(h))
ToRegister(h, k) == CallsIn(GuardFramesOf(h, k)) # {}
ToRelease(s, h) == CallsIn(ReleaseFramesOf(s, h)) # {}
Registered(s, h) == Named(slots[s].dependents, h)

\* What the dependencyCount of h counts: the slots whose batch it waits for, and
\* its own submission, 0.
Awaits(h, s) == Registered(s, h) \/ ToRelease(s, h)
Holds(h) == {s \in Slots : Awaits(h, s)} \cup (IF Guards(h) = {} THEN {} ELSE {0})
Waiting(h) == Holds(h) # {} \/ Pushers(h) # {}

Gone(s) == Listed(s) \/ CallsIn(ReleaseFrames(s)) # {}
Busy(h) == h \in queue \/ CallsIn(RunFrames(h)) # {}
Live(h) == Slot(h).generation = h.gen /\ Slot(h).remainingJobs > 0

\* The batch of handle h has not been pushed, and is not done; it has been pushed.
Unpushed(h) ==
  \E i \in DOMAIN batches : batches[i].id = h /\ batches[i].pushes = 0 /\ ~batches[i].finished
Pushed(h) == \E i \in DOMAIN batches : batches[i].id = h /\ batches[i].pushes > 0

BatchStates ==
  [id : Ids \cup {NoHandle}, deps : SUBSET Ids, fence : BOOLEAN, pushes : Nat,
   finished : BOOLEAN]

\* A handle names one batch for ever; a batch that is not done has its slot.
BatchesKnown ==
  /\ batches \in Seq(BatchStates)
  /\ \A i, k \in DOMAIN batches :
       batches[i].id = batches[k].id /\ batches[i].id # NoHandle => i = k
  /\ \A h \in issued : \E i \in DOMAIN batches : batches[i].id = h
  /\ \A i \in DOMAIN batches :
       /\ batches[i].deps \subseteq issued /\ batches[i].pushes \in {0, 1}
       /\ batches[i].id = NoHandle => batches[i].finished /\ batches[i].pushes = 0

BatchesPlaced ==
  \A i \in DOMAIN batches : LET h == batches[i].id IN
    h # NoHandle => /\ h.gen <= Slot(h).generation
                    /\ Gone(h.slot) => h.gen < Slot(h).generation
                    /\ batches[i].finished \/ Live(h)

\* A batch that waits, or is about to be pushed, has not been pushed; only what
\* was pushed is run.
WaitersUnpushed == \A h \in Ids : Waiting(h) => Unpushed(h)
RunnersPushed == \A h \in Ids : Busy(h) => Pushed(h)

\* What a batch waits for last is what pushes it.
WaitsCounted ==
  \A h \in Ids :
    /\ Holds(h) # {} => Slot(h).dependencyCount = Cardinality(Holds(h))
    /\ Pushers(h) # {} => Holds(h) = {}
    /\ \A c, d \in Pushers(h) : c = d
    /\ \A c, d \in Guards(h) : c = d

\* No list has a handle twice, and none that is registered is to be registered.
ListsInOrder ==
  /\ CallsIn(UntidyFrames) = {}
  /\ \A s \in Slots :
       /\ slots[s].dependentCount = Len(slots[s].dependents)
       /\ NoRepeats(slots[s].dependents)
       /\ Gone(s) => slots[s].dependents = <<>>
       /\ \A h \in Ids :
            Registered(s, h) => ~ToRegister(h, [slot |-> s, gen |-> slots[s].generation])

\* A dependency that is not done has the batch registered, or is to have it.
DependenciesTracked ==
  \A i, k \in DOMAIN batches :
    LET h == batches[i].id
        d == batches[k].id
    IN d \in batches[i].deps /\ ~batches[k].finished /\ h # NoHandle
         => ToRegister(h, d) \/ Registered(d.slot, h)

WaitInv ==
  /\ BatchesKnown /\ BatchesPlaced /\ WaitersUnpushed /\ RunnersPushed /\ WaitsCounted
  /\ ListsInOrder /\ DependenciesTracked

----------------------------------------------------------------------------
(* What a step does to the calls that play a part in this *)

\* Frames that play the same part for the same batch with the same list; frames
\* that play none.  Sets of frames that tell no more apart.
Roleless(f) == f.at \notin GuardPoints \cup ReleasePoints \cup RunPoints \cup {"push"}
SameRole(f, g) ==
  /\ f.id = g.id
  /\ \/ f.at \in RunPoints /\ g.at \in RunPoints
     \/ /\ f.todo = g.todo
        /\ \/ f.at \in GuardPoints /\ g.at \in GuardPoints
           \/ f.at \in ReleasePoints /\ g.at \in ReleasePoints /\ f.at # "reclaim"
              /\ (g.at = "reclaim" => f.todo = <<>>)
Alike(f, g) == SameRole(f, g) \/ (Roleless(f) /\ Roleless(g))
Coarse(F) ==
  /\ \A f, g \in CallFrames : SameRole(f, g) => (f \in F <=> g \in F)
  /\ \A f \in CallFrames : Roleless(f) => f \notin F

LEMMA RolesAreCoarse ==
  /\ \A h : Coarse(GuardFrames(h)) /\ Coarse(PushFrames(h)) /\ Coarse(RunFrames(h))
  /\ \A h, k : Coarse(GuardFramesOf(h, k)) /\ Coarse(ReleaseFramesOf(h, k))
  /\ \A s : Coarse(ReleaseFrames(s))
  /\ Coarse(UntidyFrames)
<1>1. \A h : Coarse(GuardFrames(h)) /\ Coarse(PushFrames(h)) /\ Coarse(RunFrames(h))
  BY DEF Coarse, GuardFrames, PushFrames, RunFrames, SameRole, Roleless, GuardPoints,
     ReleasePoints, RunPoints
<1>2. \A s : Coarse(ReleaseFrames(s))
  BY DEF Coarse, ReleaseFrames, SameRole, Roleless, GuardPoints, ReleasePoints, RunPoints
<1>3. \A h, k : Coarse(GuardFramesOf(h, k))
  BY DEF Coarse, GuardFramesOf, GuardFrames, SameRole, Roleless, GuardPoints,
     ReleasePoints, RunPoints
<1>4. \A h, k : Coarse(ReleaseFramesOf(h, k))
  BY DEF Coarse, ReleaseFramesOf, ReleaseFrames, SameRole, Roleless, GuardPoints,
     ReleasePoints, RunPoints
<1>5. Coarse(UntidyFrames)
  BY DEF Coarse, UntidyFrames, SameRole, Roleless, GuardPoints, ReleasePoints, RunPoints
<1> QED BY <1>1, <1>2, <1>3, <1>4, <1>5

\* For these parts a step replaces the frame f0 of the call x by f1 and begins the
\* call y with the frame f2.
Recast(x, f0, f1, y, f2) ==
  /\ f0 \in CallFrames /\ f1 \in CallFrames /\ f2 \in CallFrames /\ x # y
  /\ \A F : Coarse(F) =>
       /\ x \in CallsIn(F) <=> f0 \in F
       /\ y \notin CallsIn(F)
       /\ CallsIn(F)' = (CallsIn(F) \ {x}) \cup Where(x, f1, F) \cup Where(y, f2, F)
RolesKept == \A F : Coarse(F) => CallsIn(F)' = CallsIn(F)

LEMMA AlikeKept ==
  ASSUME NEW x, NEW f0, NEW f1, NEW y, NEW f2, Recast(x, f0, f1, y, f2),
         Alike(f0, f1), Roleless(f2)
  PROVE  RolesKept
BY DEF Recast, RolesKept, Alike, Coarse, Where

LEMMA CalledRoles ==
  ASSUME PoolInv, NEW t \in Threads, NEW g \in CallFrames, Restack(t, Len(stack[t]), <<g>>),
         NEW z \in CallFrames, Roleless(z)
  PROVE  Recast(<<Main, 0>>, z, z, <<t, Len(stack[t]) + 1>>, g)
<1> DEFINE x == <<Main, 0>>
           y == <<t, Len(stack[t]) + 1>>
<1>1. PoolTyped
  BY DEF PoolInv
<1>2. \A F : x \notin CallsIn(F)
  BY CallsInForm
<1>3. \A F : y \notin CallsIn(F) /\ Len(stack[t]) \in Nat
  BY <1>1, InnermostIn
<1>4. \A F : CallsIn(F)' = CallsIn(F) \cup Where(y, g, F)
  BY <1>1, Push1
<1>5. x # y
  BY <1>3
<1> HIDE DEF x, y
<1>6. Recast(x, z, z, y, g)
  BY <1>2, <1>3, <1>4, <1>5 DEF Recast, Coarse, Where
<1> QED BY <1>6 DEF x, y

\* The innermost call ends, or goes on with the frame f, perhaps below another call.
LEMMA InnermostRoles ==
  ASSUME PoolInv, NEW t \in Threads, stack[t] # <<>>, NEW z \in CallFrames, Roleless(z)
  PROVE  LET L == Len(stack[t])
             h == Head(stack[t])
             x == <<t, L>>
             y == <<t, L + 1>>
         IN /\ Restack(t, L - 1, <<>>) => Recast(x, h, z, y, z)
            /\ \A f \in CallFrames : Restack(t, L - 1, <<f>>) => Recast(x, h, f, y, z)
            /\ \A f, g \in CallFrames : Restack(t, L - 1, <<g, f>>) => Recast(x, h, f, y, g)
<1> DEFINE L == Len(stack[t])
           h == Head(stack[t])
           x == <<t, L>>
           y == <<t, L + 1>>
<1>1. PoolTyped
  BY DEF PoolInv
<1>2. /\ L \in Nat /\ L >= 1 /\ h \in CallFrames
      /\ \A F : (x \in CallsIn(F) <=> h \in F) /\ y \notin CallsIn(F)
  BY Innermost
<1>3. x # y
  BY <1>2
<1>4. ASSUME Restack(t, L - 1, <<>>)
      PROVE  Recast(x, h, z, y, z)
  <2>1. \A F : CallsIn(F)' = CallsIn(F) \ {x}
    BY <1>1, <1>4, Pop
  <2> HIDE DEF x, y, h
  <2> QED BY <1>2, <1>3, <2>1 DEF Recast, Coarse, Where
<1>5. ASSUME NEW f \in CallFrames, Restack(t, L - 1, <<f>>)
      PROVE  Recast(x, h, f, y, z)
  <2>1. \A F : CallsIn(F)' = (CallsIn(F) \ {x}) \cup Where(x, f, F)
    BY <1>1, <1>5, Replace1
  <2> HIDE DEF x, y, h
  <2> QED BY <1>2, <1>3, <2>1 DEF Recast, Coarse, Where
<1>6. ASSUME NEW f \in CallFrames, NEW g \in CallFrames, Restack(t, L - 1, <<g, f>>)
      PROVE  Recast(x, h, f, y, g)
  <2>1. \A F : CallsIn(F)' = (CallsIn(F) \ {x}) \cup Where(x, f, F) \cup Where(y, g, F)
    BY <1>1, <1>6, Replace2
  <2> HIDE DEF x, y, h
  <2> QED BY <1>2, <1>3, <2>1 DEF Recast
<1> QED BY <1>4, <1>5, <1>6 DEF L, h, x, y

LEMMA PushedRoles ==
  ASSUME PoolInv, NEW t \in Threads, stack[t] # <<>>, NEW f \in CallFrames,
         NEW g \in CallFrames, Roleless(g), NEW p \in CallFrames,
         Restack(t, Len(stack[t]) - 1, <<p, g, f>>)
  PROVE  Recast(<<t, Len(stack[t])>>, Head(stack[t]), f, <<t, Len(stack[t]) + 2>>, p)
<1> DEFINE L == Len(stack[t])
           h == Head(stack[t])
           x == <<t, L>>
           y == <<t, L + 2>>
<1>1. PoolTyped
  BY DEF PoolInv
<1>2. /\ L \in Nat /\ L >= 1 /\ h \in CallFrames
      /\ \A F : x \in CallsIn(F) <=> h \in F
  BY Innermost
<1>3. x # y
  BY <1>2
<1>4. \A F : y \notin CallsIn(F)
  <2>1. L + 2 \notin 1 .. L
    BY <1>2
  <2> QED BY <1>1, <2>1, InnermostIn
<1>5. ASSUME NEW F, g \notin F
      PROVE  CallsIn(F)' = (CallsIn(F) \ {x}) \cup Where(x, f, F) \cup Where(y, p, F)
  <2>1. CallsIn(F)' = (CallsIn(F) \ {x}) \cup Where(x, f, F)
                        \cup Where(<<t, L + 1>>, g, F) \cup Where(y, p, F)
    <3>1. /\ Restack(t, Len(stack[t]) - 1, <<p, g, f>>) /\ PoolTyped /\ stack[t] # <<>>
          /\ f \in CallFrames /\ g \in CallFrames /\ p \in CallFrames /\ t \in Threads
      BY <1>1
    <3> QED BY ONLY <3>1, Replace3, ZenonT(30)
  <2>2. Where(<<t, L + 1>>, g, F) = {}
    BY <1>5 DEF Where
  <2> QED BY <2>1, <2>2
<1>6. ASSUME NEW F, Coarse(F)
      PROVE  CallsIn(F)' = (CallsIn(F) \ {x}) \cup Where(x, f, F) \cup Where(y, p, F)
  BY <1>5, <1>6 DEF Coarse
<1> HIDE DEF x, y, h
<1>7. Recast(x, h, f, y, p)
  BY <1>2, <1>3, <1>4, <1>6 DEF Recast
<1> QED BY <1>7 DEF x, y, h

\* A pin ends, with or without an unpin, and its caller goes on with the frame f.
LEMMA CallerRoles ==
  ASSUME PoolInv, NEW t \in Threads, stack[t] # <<>>, Head(stack[t]).at \in PinPoints,
         NEW f \in CallFrames, NEW g \in CallFrames, Roleless(g),
         \/ Restack(t, Len(stack[t]) - 2, <<f>>)
         \/ Restack(t, Len(stack[t]) - 2, <<g, f>>)
  PROVE  Recast(<<t, Len(stack[t]) - 1>>, stack[t][2], f, <<t, Len(stack[t]) + 1>>, g)
<1> DEFINE L == Len(stack[t])
           h == Head(stack[t])
           c == stack[t][2]
           x == <<t, L - 1>>
           y == <<t, L + 1>>
           w == <<t, L>>
<1>1. PoolTyped
  BY DEF PoolInv
<1>2. /\ L \in Nat /\ h \in CallFrames
      /\ \A F : (w \in CallsIn(F) <=> h \in F) /\ y \notin CallsIn(F)
  BY Innermost
<1>3. L >= 2 /\ c \in CallFrames /\ \A F : x \in CallsIn(F) <=> c \in F
  BY PinCaller
<1>4. x # y /\ x # w
  BY <1>2
<1>5. Roleless(h)
  BY DEF Roleless, PinPoints, GuardPoints, ReleasePoints, RunPoints
<1>6. ASSUME NEW F, Coarse(F)
      PROVE  CallsIn(F)' = (CallsIn(F) \ {x}) \cup Where(x, f, F)
  <2>1. h \notin F /\ g \notin F /\ w \notin CallsIn(F)
    BY <1>2, <1>5, <1>6 DEF Coarse
  <2>2. CASE Restack(t, L - 2, <<f>>)
    <3>1. CallsIn(F)' = (CallsIn(F) \ {w, x}) \cup Where(x, f, F)
      BY <1>1, <1>3, <2>2, Return1
    <3> HIDE DEF x, w, h
    <3> QED BY <2>1, <3>1
  <2>3. CASE Restack(t, L - 2, <<g, f>>)
    <3>1. CallsIn(F)' = (CallsIn(F) \ {w, x}) \cup Where(x, f, F) \cup Where(w, g, F)
      BY <1>1, <1>3, <2>3, Return2
    <3>2. Where(w, g, F) = {}
      BY <2>1 DEF Where
    <3> HIDE DEF x, w, h
    <3> QED BY <2>1, <3>1, <3>2
  <2> QED BY <2>2, <2>3
<1> HIDE DEF x, y, w, h, c
<1>7. Recast(x, c, f, y, g)
  BY <1>2, <1>3, <1>4, <1>6 DEF Recast, Coarse, Where
<1> QED BY <1>7 DEF x, y, c

\* What a step does to calls of which it begins none.
LEMMA RecastOutside ==
  ASSUME NEW x, NEW f0, NEW f1, NEW y, NEW f2, Recast(x, f0, f1, y, f2),
         NEW F, Coarse(F), f2 \notin F
  PROVE  /\ x \in CallsIn(F) <=> f0 \in F
         /\ (f1 \in F <=> f0 \in F) => CallsIn(F)' = CallsIn(F)
         /\ f1 \notin F => CallsIn(F)' = CallsIn(F) \ {x}
         /\ f1 \in F => CallsIn(F)' = CallsIn(F) \cup {x}
<1>1. /\ x \in CallsIn(F) <=> f0 \in F
      /\ CallsIn(F)' = (CallsIn(F) \ {x}) \cup Where(x, f1, F) \cup Where(y, f2, F)
  BY DEF Recast
<1>2. Where(y, f2, F) = {}
  BY DEF Where
<1> QED BY <1>1, <1>2 DEF Where

LEMMA RecastSets ==
  ASSUME NEW x, NEW f0, NEW f1, NEW y, NEW g, Recast(x, f0, f1, y, g), Roleless(g),
         NEW F, Coarse(F)
  PROVE  /\ x \in CallsIn(F) <=> f0 \in F
         /\ (f1 \in F <=> f0 \in F) => CallsIn(F)' = CallsIn(F)
         /\ f1 \notin F => CallsIn(F)' = CallsIn(F) \ {x}
         /\ f1 \in F => CallsIn(F)' = CallsIn(F) \cup {x}
<1>1. g \notin F
  BY DEF Recast, Coarse
<1> QED BY <1>1, RecastOutside

\* A frame that has a part in its own place only.
LEMMA OnePart ==
  ASSUME NEW f \in CallFrames
  PROVE  /\ f.at \notin GuardPoints =>
              \A b : f \notin GuardFrames(b) /\ \A k : f \notin GuardFramesOf(b, k)
         /\ f.at # "push" => \A b : f \notin PushFrames(b)
         /\ f.at \notin RunPoints => \A b : f \notin RunFrames(b)
         /\ f.at \notin ReleasePoints =>
              \A s : f \notin ReleaseFrames(s) /\ \A b : f \notin ReleaseFramesOf(s, b)
         /\ f.at \notin GuardPoints \cup ReleasePoints => f \notin UntidyFrames
BY DEF GuardFrames, GuardFramesOf, PushFrames, RunFrames, ReleaseFrames, ReleaseFramesOf,
   UntidyFrames, ReleasePoints

----------------------------------------------------------------------------
(* What keeps the parts of the invariant *)

\* The batch of a handle is at one place of the history.
LEMMA BatchTyped ==
  ASSUME BatchesKnown, NEW i \in DOMAIN batches
  PROVE  /\ batches[i] \in BatchStates
         /\ batches[i].id # NoHandle =>
              batches[i].id \in Ids /\ batches[i].id.slot \in Slots /\ batches[i].id.gen \in Nat
         /\ batches[i].deps \subseteq Ids
<1>1. batches[i] \in BatchStates
  BY DEF BatchesKnown
<1>2. batches[i].id \in Ids \cup {NoHandle} /\ batches[i].deps \subseteq Ids
  BY <1>1 DEF BatchStates
<1> QED BY <1>1, <1>2 DEF Ids

LEMMA HandlesAreReal == \A h \in Ids : h # NoHandle /\ h.slot \in Slots /\ h.gen \in Nat
BY SlotsPositive DEF Ids, NoHandle

LEMMA PushedOrNot ==
  ASSUME BatchesKnown, NEW h \in Ids, Unpushed(h)
  PROVE  ~Pushed(h)
BY HandlesAreReal DEF BatchesKnown, Unpushed, Pushed

\* A batch that waits has its slot; the slot is referenced, so that nobody drops it.
LEMMA LiveSlot ==
  ASSUME PoolInv, NEW s \in Slots, slots[s].remainingJobs > 0
  PROVE  slots[s].refCount > 0 /\ ~Gone(s) /\ Droppers(s) = {}
<1>1. PoolTyped /\ RefsCounted /\ SlotsPlaced
  BY DEF PoolInv
<1>2. Refs(s) # {}
  BY DEF Refs, BirthRef
<1>3. slots[s].refCount > 0
  BY <1>1, <1>2, CountPositive
<1>4. Droppers(s) = {} /\ ~Listed(s)
  BY <1>1, <1>3 DEF SlotsPlaced
<1>5. CallsIn(ReleaseFrames(s)) \subseteq Droppers(s)
  <2>1. \A f \in ReleaseFrames(s) : f \in DropFrames(s)
    BY DEF ReleaseFrames, DropFrames, ReleasePoints, DropPoints
  <2> QED BY <1>1, <2>1, RefsForm DEF CallsIn
<1> QED BY <1>3, <1>4, <1>5 DEF Gone

LEMMA WaiterLives ==
  ASSUME PoolInv, BatchesKnown, BatchesPlaced, WaitersUnpushed, NEW h \in Ids, Waiting(h)
  PROVE  /\ Live(h) /\ ~Gone(h.slot) /\ Slot(h).refCount > 0 /\ Droppers(h.slot) = {}
         /\ \A k \in Ids : Waiting(k) /\ k.slot = h.slot => k = h
<1>1. ASSUME NEW k \in Ids, Waiting(k)
      PROVE  Live(k)
  BY <1>1, HandlesAreReal DEF WaitersUnpushed, Unpushed, BatchesPlaced
<1>2. Live(h) /\ h.slot \in Slots
  BY <1>1, HandlesAreReal
<1>3. slots[h.slot].refCount > 0 /\ ~Gone(h.slot) /\ Droppers(h.slot) = {}
  BY <1>2, LiveSlot DEF Live, Slot
<1>4. ASSUME NEW k \in Ids, Waiting(k), k.slot = h.slot
      PROVE  k = h
  <2>1. k.gen = h.gen
    BY <1>1, <1>2, <1>4 DEF Live, Slot
  <2> QED BY <1>4, <2>1 DEF Ids
<1> QED BY <1>2, <1>3, <1>4 DEF Slot

LEMMA WaitsFor ==
  ASSUME NEW h
  PROVE  /\ Holds(h) # {} <=> Guards(h) # {} \/ \E s \in Slots : Awaits(h, s)
         /\ 0 \in Holds(h) <=> Guards(h) # {}
         /\ \A s \in Slots : s \in Holds(h) <=> Awaits(h, s)
         /\ Holds(h) \subseteq Slots \cup {0}
<1> QED BY SlotsPositive DEF Holds

LEMMA HoldsFinite ==
  ASSUME NEW h
  PROVE  IsFiniteSet(Holds(h)) /\ Cardinality(Holds(h)) \in Nat
<1>1. IsFiniteSet(0 .. SlotCount)
  BY PoolAssumption, FS_Interval
<1>2. Holds(h) \subseteq 0 .. SlotCount
  BY WaitsFor, PoolAssumption DEF Slots
<1>3. IsFiniteSet(Holds(h))
  BY <1>1, <1>2, FS_Subset
<1> QED BY <1>3, FS_CardinalityType

LEMMA PlacedKept ==
  ASSUME BatchesKnown, BatchesPlaced, batches' = batches,
         \A s \in Slots : /\ slots'[s].generation = slots[s].generation
                          /\ slots[s].remainingJobs > 0 => slots'[s].remainingJobs > 0
                          /\ Gone(s)' => Gone(s)
  PROVE  BatchesPlaced'
<1> SUFFICES ASSUME NEW i \in DOMAIN batches, batches[i].id # NoHandle
             PROVE  LET h == batches[i].id IN
                    /\ h.gen <= slots'[h.slot].generation
                    /\ Gone(h.slot)' => h.gen < slots'[h.slot].generation
                    /\ batches[i].finished \/ ( /\ slots'[h.slot].generation = h.gen
                                                /\ slots'[h.slot].remainingJobs > 0)
  BY DEF BatchesPlaced, Slot, Live
<1>1. batches[i].id.slot \in Slots
  BY BatchTyped
<1> QED BY <1>1 DEF BatchesPlaced, Slot, Live

LEMMA UnpushedKept ==
  ASSUME WaitersUnpushed, batches' = batches, \A h \in Ids : Waiting(h)' => Waiting(h)
  PROVE  WaitersUnpushed'
BY DEF WaitersUnpushed, Unpushed

LEMMA RunnersKept ==
  ASSUME RunnersPushed, batches' = batches, \A h \in Ids : Busy(h)' => Busy(h)
  PROVE  RunnersPushed'
BY DEF RunnersPushed, Pushed

LEMMA CountsKept ==
  ASSUME WaitsCounted,
         \A s \in Slots : slots'[s].dependencyCount = slots[s].dependencyCount,
         \A h \in Ids : /\ Holds(h)' = Holds(h)
                        /\ Pushers(h)' \subseteq Pushers(h) /\ Guards(h)' \subseteq Guards(h)
  PROVE  WaitsCounted'
BY HandlesAreReal DEF WaitsCounted, Slot

LEMMA OrderKept ==
  ASSUME ListsInOrder, CallsIn(UntidyFrames)' = {},
         \A s \in Slots :
           /\ slots'[s].generation = slots[s].generation
           /\ slots'[s].dependents = slots[s].dependents
           /\ slots'[s].dependentCount = slots[s].dependentCount
           /\ Gone(s)' => Gone(s),
         \A h \in Ids : \A k : ToRegister(h, k)' => ToRegister(h, k)
  PROVE  ListsInOrder'
BY DEF ListsInOrder, Registered

LEMMA TrackedKept ==
  ASSUME BatchesKnown, DependenciesTracked, batches' = batches,
         \A s \in Slots : slots'[s].dependents = slots[s].dependents,
         \A h, k : ToRegister(h, k) => ToRegister(h, k)'
  PROVE  DependenciesTracked'
<1> SUFFICES ASSUME NEW i \in DOMAIN batches, NEW k \in DOMAIN batches,
                    batches[k].id \in batches[i].deps, ~batches[k].finished,
                    batches[i].id # NoHandle
             PROVE  \/ ToRegister(batches[i].id, batches[k].id)'
                    \/ Named(slots'[batches[k].id.slot].dependents, batches[i].id)
  BY DEF DependenciesTracked, Registered
<1>1. batches[k].id.slot \in Slots
  BY BatchTyped, HandlesAreReal
<1>2. ToRegister(batches[i].id, batches[k].id) \/ Registered(batches[k].id.slot, batches[i].id)
  BY DEF DependenciesTracked
<1> QED BY <1>1, <1>2 DEF Registered

LEMMA KnownKept ==
  ASSUME BatchesKnown, batches' = batches, issued' = issued
  PROVE  BatchesKnown'
BY DEF BatchesKnown

LEMMA HoldsKept ==
  ASSUME NEW h, Guards(h)' = {} <=> Guards(h) = {},
         \A s \in Slots : Awaits(h, s)' <=> Awaits(h, s)
  PROVE  Holds(h)' = Holds(h)
BY DEF Holds

\* The calls that wait or release, and the counts and lists of the slots.
WaitsKept ==
  /\ \A h : CallsIn(GuardFrames(h))' = CallsIn(GuardFrames(h))
  /\ \A h : CallsIn(PushFrames(h))' = CallsIn(PushFrames(h))
  /\ \A h, k : CallsIn(GuardFramesOf(h, k))' = CallsIn(GuardFramesOf(h, k))
  /\ \A s, h : CallsIn(ReleaseFramesOf(s, h))' = CallsIn(ReleaseFramesOf(s, h))
  /\ CallsIn(UntidyFrames)' = CallsIn(UntidyFrames)
CountsAndListsKept ==
  \A s \in Slots :
    /\ slots'[s].generation = slots[s].generation
    /\ slots'[s].dependents = slots[s].dependents
    /\ slots'[s].dependentCount = slots[s].dependentCount
    /\ slots'[s].dependencyCount = slots[s].dependencyCount

\* A step that keeps these, begins no other batch and drops no other slot.
LEMMA WaitsKeep ==
  ASSUME WaitInv, WaitsKept, CountsAndListsKept, batches' = batches, issued' = issued,
         \A s \in Slots : /\ slots[s].remainingJobs > 0 => slots'[s].remainingJobs > 0
                          /\ Gone(s)' => Gone(s),
         \A h \in Ids : Busy(h)' => Busy(h)
  PROVE  WaitInv'
<1>3. \A h : \A s \in Slots : Awaits(h, s)' <=> Awaits(h, s)
  BY DEF Awaits, Registered, ToRelease, WaitsKept, CountsAndListsKept
<1>4. \A h : Guards(h)' = Guards(h) /\ Pushers(h)' = Pushers(h)
  BY DEF Guards, Pushers, WaitsKept
<1>5. \A h : Holds(h)' = Holds(h)
  BY <1>3, <1>4, HoldsKept
<1>6. \A h : Waiting(h)' => Waiting(h)
  BY <1>4, <1>5 DEF Waiting
<1>7. \A h, k : ToRegister(h, k)' <=> ToRegister(h, k)
  BY DEF ToRegister, WaitsKept
<1>8. BatchesKnown' /\ BatchesPlaced'
  BY KnownKept, PlacedKept DEF WaitInv, CountsAndListsKept
<1>9. WaitersUnpushed' /\ RunnersPushed' /\ WaitsCounted'
  BY <1>4, <1>5, <1>6, UnpushedKept, RunnersKept, CountsKept DEF WaitInv, CountsAndListsKept
<1>10. CallsIn(UntidyFrames)' = {}
  BY DEF WaitInv, ListsInOrder, WaitsKept
<1>11. ListsInOrder' /\ DependenciesTracked'
  BY <1>7, <1>10, OrderKept, TrackedKept DEF WaitInv, CountsAndListsKept
<1> QED BY <1>8, <1>9, <1>11 DEF WaitInv

\* A step in which no call changes its part.
LEMMA RolesKeep ==
  ASSUME WaitInv, RolesKept, CountsAndListsKept, batches' = batches, issued' = issued,
         queue' \subseteq queue, free' = free,
         \A s \in Slots : slots[s].remainingJobs > 0 => slots'[s].remainingJobs > 0
  PROVE  WaitInv'
<1>1. WaitsKept
  BY RolesAreCoarse DEF RolesKept, WaitsKept
<1>2. \A s \in Slots : Gone(s)' => Gone(s)
  BY RolesAreCoarse DEF Gone, Listed, RolesKept
<1>3. \A h \in Ids : Busy(h)' => Busy(h)
  BY RolesAreCoarse DEF Busy, RolesKept
<1> QED BY <1>1, <1>2, <1>3, WaitsKeep

----------------------------------------------------------------------------
(* One lemma per action again: tryPin and unpin *)

LEMMA FieldKept ==
  ASSUME NEW e \in SlotStates, NEW field \in {"refCount", "toStart", "remainingJobs",
                                              "dependencyCount"}, NEW n
  PROVE  LET x == [e EXCEPT ![field] = n]
         IN /\ x.generation = e.generation /\ x.dependents = e.dependents
            /\ x.dependentCount = e.dependentCount
            /\ field # "dependencyCount" => x.dependencyCount = e.dependencyCount
            /\ field = "dependencyCount" => x.dependencyCount = n
            /\ field # "remainingJobs" => x.remainingJobs = e.remainingJobs
            /\ field = "remainingJobs" => x.remainingJobs = n
BY DEF SlotStates

\* A step that sets one field of one slot, and which of the others it keeps.
LEMMA SetKeeps ==
  ASSUME PoolTyped, NEW r \in Slots, NEW n,
         NEW field \in {"refCount", "toStart", "remainingJobs", "dependencyCount"},
         Set(r, field, n)
  PROVE  /\ field # "dependencyCount" => CountsAndListsKept
         /\ field # "remainingJobs" =>
              \A s \in Slots : slots'[s].remainingJobs = slots[s].remainingJobs
         /\ \A s \in Slots :
              /\ slots'[s].generation = slots[s].generation
              /\ slots'[s].dependents = slots[s].dependents
              /\ slots'[s].dependentCount = slots[s].dependentCount
              /\ s # r => slots'[s] = slots[s]
         /\ field = "dependencyCount" => slots'[r].dependencyCount = n
         /\ field = "remainingJobs" => slots'[r].remainingJobs = n
<1> DEFINE e == [slots[r] EXCEPT ![field] = n]
<1>1. slots \in [Slots -> SlotStates] /\ slots[r] \in SlotStates
  BY DEF PoolTyped
<1>2. slots' = [slots EXCEPT ![r] = e]
  BY DEF Set
<1>3. /\ e.generation = slots[r].generation /\ e.dependents = slots[r].dependents
      /\ e.dependentCount = slots[r].dependentCount
      /\ field # "dependencyCount" => e.dependencyCount = slots[r].dependencyCount
      /\ field = "dependencyCount" => e.dependencyCount = n
      /\ field # "remainingJobs" => e.remainingJobs = slots[r].remainingJobs
      /\ field = "remainingJobs" => e.remainingJobs = n
  BY <1>1, FieldKept
<1> HIDE DEF e
<1>4. slots'[r] = e /\ \A s \in Slots : s # r => slots'[s] = slots[s]
  BY <1>1, <1>2
<1> QED BY <1>3, <1>4 DEF CountsAndListsKept

LEMMA SlotsKeptKeep ==
  ASSUME slots' = slots
  PROVE  /\ CountsAndListsKept
         /\ \A s \in Slots : slots[s].remainingJobs > 0 => slots'[s].remainingJobs > 0
BY DEF CountsAndListsKept

LEMMA TailNames ==
  ASSUME NEW q \in Seq(Ids), q # <<>>
  PROVE  /\ Named(q, Head(q))
         /\ \A k : Named(Tail(q), k) => Named(q, k)
         /\ \A k : Named(q, k) /\ k # Head(q) => Named(Tail(q), k)
         /\ NoRepeats(q) => NoRepeats(Tail(q)) /\ ~Named(Tail(q), Head(q))
<1>1. Len(q) \in Nat /\ Len(q) >= 1 /\ DOMAIN q = 1 .. Len(q) /\ Head(q) = q[1]
  BY LenProperties
<1>2. /\ Tail(q) \in Seq(Ids) /\ DOMAIN Tail(q) = 1 .. Len(q) - 1
      /\ \A i \in 1 .. Len(q) - 1 : Tail(q)[i] = q[i + 1]
  <2>1. Tail(q) \in Seq(Ids) /\ Len(Tail(q)) = Len(q) - 1
    BY HeadTailProperties
  <2> QED BY <1>1, <2>1, LenProperties
<1> DEFINE v == Tail(q)
           a == Head(q)
<1> HIDE DEF v, a
<1>3. /\ DOMAIN v = 1 .. Len(q) - 1 /\ \A i \in 1 .. Len(q) - 1 : v[i] = q[i + 1]
      /\ a = q[1]
  BY <1>1, <1>2 DEF v, a
<1>4. Named(q, a)
  BY <1>1, <1>3 DEF Named
<1>5. ASSUME NEW k, Named(v, k)
      PROVE  Named(q, k)
  <2>1. PICK i \in 1 .. Len(q) - 1 : v[i] = k
    BY <1>3, <1>5 DEF Named
  <2>2. i + 1 \in DOMAIN q
    BY <1>1
  <2> QED BY <1>3, <2>1, <2>2 DEF Named
<1>6. ASSUME NEW k, Named(q, k), k # a
      PROVE  Named(v, k)
  <2>1. PICK i \in 1 .. Len(q) : q[i] = k
    BY <1>1, <1>6 DEF Named
  <2>2. i - 1 \in 1 .. Len(q) - 1 /\ i - 1 + 1 = i
    BY <1>1, <1>3, <1>6, <2>1
  <2> QED BY <1>3, <2>1, <2>2 DEF Named
<1>7. ASSUME NoRepeats(q)
      PROVE  NoRepeats(v) /\ ~Named(v, a)
  <2>1. ASSUME NEW i \in DOMAIN v, NEW k \in DOMAIN v, v[i] = v[k]
        PROVE  i = k
    <3>1. i + 1 \in DOMAIN q /\ k + 1 \in DOMAIN q /\ q[i + 1] = q[k + 1]
      BY <1>1, <1>3, <2>1
    <3> QED BY <1>3, <1>7, <3>1 DEF NoRepeats
  <2>2. ASSUME NEW i \in DOMAIN v, v[i] = a
        PROVE  FALSE
    <3>1. i + 1 \in DOMAIN q /\ 1 \in DOMAIN q /\ q[i + 1] = q[1] /\ i + 1 # 1
      BY <1>1, <1>3, <2>2
    <3> QED BY <1>7, <3>1 DEF NoRepeats
  <2> QED BY <2>1, <2>2 DEF NoRepeats, Named
<1> QED BY <1>4, <1>5, <1>6, <1>7 DEF v, a

\* A call in CallsIn(F) shows that there is one.
LEMMA PlaysPart ==
  ASSUME NEW x, NEW f0, NEW f1, NEW y, NEW f2, Recast(x, f0, f1, y, f2), NEW F, Coarse(F),
         f0 \in F
  PROVE  CallsIn(F) # {}
BY DEF Recast

\* A dependency that is gone is passed over by the submission of its dependent.
LEMMA GuardPasses ==
  ASSUME PoolInv, WaitInv, NEW x, NEW c, NEW f, NEW y, NEW g, Recast(x, c, f, y, g),
         Roleless(g), c.at = "addDependents", f.at = "addDependents", f.id = c.id,
         c.todo \in Seq(Ids), c.todo # <<>>, f.todo = Tail(c.todo), ~Live(Head(c.todo)),
         UNCHANGED <<slots, free, queue, batches, issued>>
  PROVE  WaitInv'
<1> DEFINE d == Head(c.todo)
<1>1. c \in CallFrames /\ f \in CallFrames /\ g \in CallFrames
  BY DEF Recast
<1>2. /\ Named(c.todo, d)
      /\ \A k : Named(f.todo, k) => Named(c.todo, k)
      /\ \A k : Named(c.todo, k) /\ k # d => Named(f.todo, k)
      /\ NoRepeats(c.todo) => NoRepeats(f.todo)
  BY TailNames
<1> HIDE DEF d
<1>3. \A F : Coarse(F) => /\ (f \in F <=> c \in F) => CallsIn(F)' = CallsIn(F)
                          /\ f \notin F => CallsIn(F)' = CallsIn(F) \ {x}
  BY RecastSets
<1>4. \A h : /\ CallsIn(GuardFrames(h))' = CallsIn(GuardFrames(h))
             /\ CallsIn(PushFrames(h))' = CallsIn(PushFrames(h))
             /\ CallsIn(RunFrames(h))' = CallsIn(RunFrames(h))
  <2>1. \A h : /\ f \in GuardFrames(h) <=> c \in GuardFrames(h)
               /\ f \notin PushFrames(h) /\ c \notin PushFrames(h)
               /\ f \notin RunFrames(h) /\ c \notin RunFrames(h)
    BY <1>1 DEF GuardFrames, PushFrames, RunFrames, GuardPoints, RunPoints
  <2> QED BY <1>3, <2>1, RolesAreCoarse
<1>5. \A s : /\ CallsIn(ReleaseFrames(s))' = CallsIn(ReleaseFrames(s))
             /\ \A h : CallsIn(ReleaseFramesOf(s, h))' = CallsIn(ReleaseFramesOf(s, h))
  <2>1. \A s : /\ f \notin ReleaseFrames(s) /\ c \notin ReleaseFrames(s)
               /\ \A h : f \notin ReleaseFramesOf(s, h) /\ c \notin ReleaseFramesOf(s, h)
    BY DEF ReleaseFrames, ReleaseFramesOf, ReleasePoints
  <2> QED BY <1>3, <2>1, RolesAreCoarse
<1>6. CallsIn(UntidyFrames) = {} /\ CallsIn(UntidyFrames)' = {}
  <2>1. CallsIn(UntidyFrames) = {}
    BY DEF WaitInv, ListsInOrder
  <2>2. c \notin UntidyFrames
    BY <2>1, PlaysPart, RolesAreCoarse
  <2>3. NoRepeats(c.todo)
    BY <1>1, <2>2 DEF UntidyFrames, GuardPoints
  <2>4. f \notin UntidyFrames
    BY <1>2, <2>3 DEF UntidyFrames
  <2> QED BY <1>3, <2>1, <2>2, <2>4, RolesAreCoarse
<1>7. \A h, k : /\ ToRegister(h, k)' => ToRegister(h, k)
                /\ ToRegister(h, k) /\ k # d => ToRegister(h, k)'
  <2>1. ASSUME NEW h, NEW k
        PROVE  /\ f \in GuardFramesOf(h, k) => c \in GuardFramesOf(h, k)
               /\ c \in GuardFramesOf(h, k) /\ k # d => f \in GuardFramesOf(h, k)
    BY <1>1, <1>2 DEF GuardFramesOf, GuardFrames, GuardPoints
  <2> QED BY <1>3, <2>1, RolesAreCoarse DEF ToRegister
<1>8. \A h : Guards(h)' = Guards(h) /\ Pushers(h)' = Pushers(h)
  BY <1>4 DEF Guards, Pushers
<1>9. \A h : \A s \in Slots : Awaits(h, s)' <=> Awaits(h, s)
  BY <1>5 DEF Awaits, Registered, ToRelease
<1>10. \A h : Holds(h)' = Holds(h)
  BY <1>8, <1>9, HoldsKept
<1>11. \A h : (Waiting(h)' => Waiting(h)) /\ (Busy(h)' => Busy(h))
  BY <1>4, <1>8, <1>10 DEF Waiting, Busy
<1>12. \A s \in Slots : Gone(s)' => Gone(s)
  BY <1>5 DEF Gone, Listed
<1>13. BatchesKnown' /\ BatchesPlaced' /\ WaitersUnpushed' /\ RunnersPushed'
  BY <1>11, <1>12, KnownKept, PlacedKept, UnpushedKept, RunnersKept DEF WaitInv
<1>14. WaitsCounted' /\ ListsInOrder'
  BY <1>6, <1>7, <1>8, <1>10, <1>12, CountsKept, OrderKept DEF WaitInv
<1>15. DependenciesTracked'
  <2>1. SUFFICES ASSUME NEW i \in DOMAIN batches, NEW k \in DOMAIN batches,
                        batches[k].id \in batches[i].deps, ~batches[k].finished,
                        batches[i].id # NoHandle
                 PROVE  \/ ToRegister(batches[i].id, batches[k].id)'
                        \/ Registered(batches[k].id.slot, batches[i].id)'
    BY DEF DependenciesTracked
  <2>2. ToRegister(batches[i].id, batches[k].id) \/ Registered(batches[k].id.slot, batches[i].id)
    BY <2>1 DEF WaitInv, DependenciesTracked
  <2>3. batches[k].id # d
    <3>1. batches[k].id # NoHandle /\ (batches[k].finished \/ Live(batches[k].id))
      BY <2>1, BatchTyped, HandlesAreReal DEF WaitInv, BatchesPlaced
    <3> QED BY <2>1, <3>1 DEF d
  <2> QED BY <1>7, <2>2, <2>3 DEF Registered
<1> QED BY <1>13, <1>14, <1>15 DEF WaitInv

\* A pin fails only for a batch that has ended.
LEMMA PinFailWaits ==
  ASSUME PoolInv, WaitInv, NEW t \in Threads, stack[t] # <<>>, Head(stack[t]).at \in PinPoints,
         ~(Slot(Id(t)).generation = Id(t).gen /\ Slot(Id(t)).refCount > 0),
         PinFails(t, <<>>) \/ PinFails(t, <<Frame("unpin", Id(t), <<>>)>>),
         UNCHANGED <<slots, free, queue, batches, issued>>
  PROVE  WaitInv'
<1> DEFINE c == stack[t][2]
           L == Len(stack[t])
           f == Frame(c.at, c.id, Tail(c.todo))
           g == Frame("unpin", Id(t), <<>>)
           fs == <<f>>
           gs == <<g, f>>
<1>0. PoolTyped
  BY DEF PoolInv
<1>1. /\ L >= 2 /\ c \in CallFrames /\ c.at \in {"dependents", "addDependents"} /\ c.at \in Points
      /\ c.id \in Ids /\ c.todo \in Seq(Ids) /\ c.todo # <<>> /\ Tail(c.todo) \in Seq(Ids)
      /\ Head(stack[t]).id = Head(c.todo)
      /\ \A F : <<t, L - 1>> \in CallsIn(F) <=> c \in F
  BY PinCaller DEF CallFrames
<1>2. Id(t) = Head(c.todo) /\ Id(t) \in Ids
  BY <1>1, Innermost
<1>3. ~Live(Id(t))
  <2>1. SUFFICES ASSUME Live(Id(t))
                 PROVE  FALSE
    OBVIOUS
  <2>2. Id(t).slot \in Slots
    BY <1>2, HandlesAreReal
  <2> QED BY <2>1, <2>2, LiveSlot DEF Live, Slot
<1>4. c.at = "addDependents"
  <2>1. SUFFICES ASSUME c.at = "dependents"
                 PROVE  FALSE
    BY <1>1
  <2>2. Named(c.todo, Id(t)) /\ c.id.slot \in Slots
    BY <1>1, <1>2, TailNames, HandlesAreReal
  <2>3. c \in ReleaseFramesOf(c.id.slot, Id(t))
    BY <1>1, <2>1, <2>2 DEF ReleaseFramesOf, ReleaseFrames, ReleasePoints
  <2>4. ToRelease(c.id.slot, Id(t))
    BY <1>1, <2>3 DEF ToRelease
  <2>5. Waiting(Id(t))
    BY <2>2, <2>4, WaitsFor DEF Waiting, Awaits
  <2> QED BY <1>2, <1>3, <2>5, WaiterLives DEF WaitInv
<1>5. /\ f \in CallFrames /\ f.at = c.at /\ f.id = c.id /\ f.todo = Tail(c.todo)
      /\ g \in CallFrames /\ g.at = "unpin"
  BY <1>1, <1>2 DEF Frame, CallFrames, Points
<1>6. \/ stack' = [stack EXCEPT ![t] = <<f>> \o Tail(Tail(@))]
      \/ stack' = [stack EXCEPT ![t] = <<g, f>> \o Tail(Tail(@))]
  <2>1. \/ stack' = [stack EXCEPT ![t] = <<>> \o <<f>> \o Tail(Tail(@))]
        \/ stack' = [stack EXCEPT ![t] = <<g>> \o <<f>> \o Tail(Tail(@))]
    BY DEF PinFails
  <2>2. <<>> \o <<f>> = <<f>> /\ <<g>> \o <<f>> = <<g, f>>
    BY <1>5, Joined
  <2> HIDE DEF f, g
  <2> QED BY <2>1, <2>2
<1> HIDE DEF f, g
<1>7. fs \in Seq(CallFrames) /\ gs \in Seq(CallFrames)
  BY <1>5
<1>8. Restack(t, L - 2, fs) \/ Restack(t, L - 2, gs)
  <2>1. CASE stack' = [stack EXCEPT ![t] = fs \o Tail(Tail(@))]
    <3> HIDE DEF fs
    <3> QED BY <1>0, <1>1, <1>7, <2>1, Returned
  <2>2. CASE stack' = [stack EXCEPT ![t] = gs \o Tail(Tail(@))]
    <3> HIDE DEF gs
    <3> QED BY <1>0, <1>1, <1>7, <2>2, Returned
  <2> QED BY <1>6, <2>1, <2>2
<1>9. Roleless(g)
  BY <1>5 DEF Roleless, GuardPoints, ReleasePoints, RunPoints
<1>10. Recast(<<t, L - 1>>, c, f, <<t, L + 1>>, g)
  BY <1>5, <1>8, <1>9, CallerRoles
<1> HIDE DEF c
<1> QED BY <1>1, <1>2, <1>3, <1>4, <1>5, <1>9, <1>10, GuardPasses

\* The innermost call goes on with a frame like its own, or ends without one.
LEMMA AlikeWaits ==
  ASSUME PoolInv, WaitInv, NEW t \in Threads, stack[t] # <<>>, NEW f \in CallFrames,
         NEW g \in CallFrames, Alike(Head(stack[t]), f), Roleless(g),
         \/ Restack(t, Len(stack[t]) - 1, <<>>) /\ Roleless(Head(stack[t]))
         \/ Restack(t, Len(stack[t]) - 1, <<f>>)
         \/ Restack(t, Len(stack[t]) - 1, <<g, f>>),
         CountsAndListsKept, UNCHANGED <<free, queue, batches, issued>>,
         \A s \in Slots : slots[s].remainingJobs > 0 => slots'[s].remainingJobs > 0
  PROVE  WaitInv'
<1> DEFINE h == Head(stack[t])
           x == <<t, Len(stack[t])>>
           y == <<t, Len(stack[t]) + 1>>
<1>1. \/ Recast(x, h, g, y, g) /\ Roleless(h)
      \/ Recast(x, h, f, y, g)
  BY InnermostRoles
<1> HIDE DEF h, x, y
<1>2. RolesKept
  BY <1>1, AlikeKept DEF Alike, h
<1> QED BY <1>2, RolesKeep

LEMMA PinCheckWaits == ASSUME PoolInv, WaitInv, NEW t \in Threads, PinCheck(t) PROVE WaitInv'
<1> DEFINE h == Head(stack[t])
           f == Frame("pinTake", Id(t), <<>>)
<1>1. /\ stack[t] # <<>> /\ h.at = "pinCheck" /\ PoolTyped /\ h.at \in PinPoints
      /\ UNCHANGED <<slots, free, queue, batches, issued>>
  BY DEF PinCheck, At, PoolInv, PinPoints
<1>2. CASE Slot(Id(t)).generation # Id(t).gen
  BY <1>1, <1>2, PinFailWaits DEF PinCheck
<1>3. CASE Slot(Id(t)).generation = Id(t).gen
  <2>1. Id(t) \in Ids
    BY <1>1, Innermost
  <2>2. f \in CallFrames /\ f.at = "pinTake"
    BY <2>1 DEF Frame, CallFrames, Points
  <2>3. Continue(t, <<f>>)
    BY <1>3 DEF PinCheck
  <2> HIDE DEF f
  <2>4. Restack(t, Len(stack[t]) - 1, <<f>>)
    BY <1>1, <2>2, <2>3, Continued1
  <2>5. Roleless(h) /\ Roleless(f)
    BY <1>1, <2>2 DEF Roleless, GuardPoints, ReleasePoints, RunPoints
  <2> QED BY <1>1, <2>2, <2>4, <2>5, AlikeWaits, SlotsKeptKeep DEF Alike
<1> QED BY <1>2, <1>3

LEMMA PinTakeWaits == ASSUME PoolInv, WaitInv, NEW t \in Threads, PinTake(t) PROVE WaitInv'
<1> DEFINE h == Head(stack[t])
           f == Frame("pinVerify", Id(t), <<>>)
<1>1. /\ stack[t] # <<>> /\ h.at = "pinTake" /\ PoolTyped /\ h.at \in PinPoints
      /\ UNCHANGED <<free, queue, batches, issued>>
  BY DEF PinTake, At, PoolInv, PinPoints
<1>2. CASE Slot(Id(t)).refCount = 0
  <2>1. PinFails(t, <<>>) /\ slots' = slots
    BY <1>2 DEF PinTake
  <2>2. ~(Slot(Id(t)).generation = Id(t).gen /\ Slot(Id(t)).refCount > 0)
    BY <1>2
  <2> QED BY <1>1, <2>1, <2>2, PinFailWaits
<1>3. CASE Slot(Id(t)).refCount # 0
  <2>1. Id(t) \in Ids /\ Id(t).slot \in Slots
    BY <1>1, Innermost
  <2>2. f \in CallFrames /\ f.at = "pinVerify"
    BY <2>1 DEF Frame, CallFrames, Points
  <2>3. Continue(t, <<f>>) /\ Set(Id(t).slot, "refCount", Slot(Id(t)).refCount + 1)
    BY <1>3 DEF PinTake
  <2> HIDE DEF f
  <2>4. Restack(t, Len(stack[t]) - 1, <<f>>)
    BY <1>1, <2>2, <2>3, Continued1
  <2>5. Roleless(h) /\ Roleless(f)
    BY <1>1, <2>2 DEF Roleless, GuardPoints, ReleasePoints, RunPoints
  <2>6. CountsAndListsKept /\ \A s \in Slots : slots'[s].remainingJobs = slots[s].remainingJobs
    BY <1>1, <2>1, <2>3, SetKeeps
  <2> QED BY <1>1, <2>2, <2>4, <2>5, <2>6, AlikeWaits DEF Alike
<1> QED BY <1>2, <1>3

LEMMA PinVerifyWaits ==
  ASSUME PoolInv, WaitInv, NEW t \in Threads, PinVerify(t) PROVE WaitInv'
<1> DEFINE h == Head(stack[t])
           c == stack[t][2]
           L == Len(stack[t])
           f == Frame(IF c.at = "dependents" THEN "resolve" ELSE "register", c.id, c.todo)
           z == Frame("unpin", Id(t), <<>>)
           fs == <<f>>
<1>1. /\ stack[t] # <<>> /\ h.at = "pinVerify" /\ PoolTyped /\ h.at \in PinPoints
      /\ UNCHANGED <<slots, free, queue, batches, issued>>
  BY DEF PinVerify, At, PoolInv, PinPoints
<1>2. CASE Slot(Id(t)).generation # Id(t).gen
  BY <1>1, <1>2, PinFailWaits DEF PinVerify
<1>3. CASE Slot(Id(t)).generation = Id(t).gen
  <2>1. /\ L >= 2 /\ c \in CallFrames /\ c.at \in {"dependents", "addDependents"}
        /\ c.id \in Ids /\ c.todo \in Seq(Ids) /\ Id(t) \in Ids
    BY <1>1, PinCaller, Innermost
  <2>2. /\ f \in CallFrames /\ f.id = c.id /\ f.todo = c.todo
        /\ f.at = IF c.at = "dependents" THEN "resolve" ELSE "register"
        /\ z \in CallFrames /\ z.at = "unpin"
    BY <2>1 DEF Frame, CallFrames, Points
  <2>3. stack' = [stack EXCEPT ![t] = <<f>> \o Tail(Tail(@))]
    BY <1>3 DEF PinVerify, PinSucceeds
  <2> HIDE DEF f, z
  <2>4. fs \in Seq(CallFrames)
    BY <2>2
  <2>5. Restack(t, L - 2, fs)
    <3> HIDE DEF fs
    <3>1. stack' = [stack EXCEPT ![t] = fs \o Tail(Tail(@))]
      BY <2>3 DEF fs
    <3> QED BY <1>1, <2>1, <2>4, <3>1, Returned
  <2>6. Roleless(z)
    BY <2>2 DEF Roleless, GuardPoints, ReleasePoints, RunPoints
  <2>7. Recast(<<t, L - 1>>, c, f, <<t, L + 1>>, z)
    BY <1>1, <2>2, <2>5, <2>6, CallerRoles
  <2>8. SameRole(c, f)
    BY <2>1, <2>2 DEF SameRole, GuardPoints, ReleasePoints
  <2>9. RolesKept
    BY <2>6, <2>7, <2>8, AlikeKept DEF Alike
  <2> QED BY <1>1, <2>9, RolesKeep, SlotsKeptKeep
<1> QED BY <1>2, <1>3

\* unpin and freeJobBatch give a reference back; the last one begins a drop.
LEMMA GivesBackWaits ==
  ASSUME PoolInv, WaitInv, NEW t \in Threads, stack[t] # <<>>,
         Head(stack[t]).at \in {"unpin", "complete"}, NEW w \in CallFrames, w.at = "workDone",
         DropReference(t, <<>>) \/ DropReference(t, <<w>>),
         UNCHANGED <<free, queue, batches, issued>>
  PROVE  WaitInv'
<1> DEFINE s == Id(t).slot
           o == Frame("drop", [slot |-> s, gen |-> slots[s].generation], <<>>)
<1>1. PoolTyped /\ s \in Slots
  BY Innermost DEF PoolInv
<1>2. o \in CallFrames /\ o.at = "drop"
  <2>1. slots[s].generation \in Nat
    BY <1>1 DEF PoolTyped, SlotStates
  <2>2. [slot |-> s, gen |-> slots[s].generation] \in Ids
    BY <1>1, <2>1 DEF Ids
  <2> QED BY <2>2 DEF Frame, CallFrames, Points
<1>3. \/ Continue(t, <<>>) \/ Continue(t, <<w>>)
      \/ Continue(t, <<o>> \o <<>>) \/ Continue(t, <<o>> \o <<w>>)
  BY DEF DropReference
<1>4. Set(s, "refCount", slots[s].refCount - 1)
  BY DEF DropReference
<1> HIDE DEF o
<1>5. <<o>> \o <<>> = <<o>> /\ <<o>> \o <<w>> = <<o, w>>
  BY <1>2, Joined
<1>6. \/ Restack(t, Len(stack[t]) - 1, <<>>) \/ Restack(t, Len(stack[t]) - 1, <<w>>)
      \/ Restack(t, Len(stack[t]) - 1, <<o>>) \/ Restack(t, Len(stack[t]) - 1, <<o, w>>)
  BY <1>1, <1>2, <1>3, <1>5, Continued0, Continued1, Continued2
<1>7. Roleless(Head(stack[t])) /\ Roleless(w) /\ Roleless(o)
  BY <1>2 DEF Roleless, GuardPoints, ReleasePoints, RunPoints
<1>8. CountsAndListsKept /\ \A r \in Slots : slots'[r].remainingJobs = slots[r].remainingJobs
  BY <1>1, <1>4, SetKeeps
<1>9. Alike(Head(stack[t]), w) /\ Alike(Head(stack[t]), o)
  BY <1>7 DEF Alike
<1>10. \A r \in Slots : slots[r].remainingJobs > 0 => slots'[r].remainingJobs > 0
  BY <1>8
<1>11. CASE \/ Restack(t, Len(stack[t]) - 1, <<>>) \/ Restack(t, Len(stack[t]) - 1, <<w>>)
            \/ Restack(t, Len(stack[t]) - 1, <<o, w>>)
  BY <1>2, <1>7, <1>8, <1>9, <1>10, <1>11, AlikeWaits
<1>12. CASE Restack(t, Len(stack[t]) - 1, <<o>>)
  BY <1>2, <1>7, <1>8, <1>9, <1>10, <1>12, AlikeWaits
<1> QED BY <1>6, <1>11, <1>12

LEMMA UnpinWaits == ASSUME PoolInv, WaitInv, NEW t \in Threads, Unpin(t) PROVE WaitInv'
<1> DEFINE w == Frame("workDone", Id(t), <<>>)
<1>1. /\ stack[t] # <<>> /\ Head(stack[t]).at = "unpin" /\ DropReference(t, <<>>)
      /\ UNCHANGED <<free, queue, batches, issued>>
  BY DEF Unpin, At
<1>2. w \in CallFrames /\ w.at = "workDone"
  <2>1. Id(t) \in Ids
    BY <1>1, Innermost
  <2> QED BY <2>1 DEF Frame, CallFrames, Points
<1> HIDE DEF w
<1> QED BY <1>1, <1>2, GivesBackWaits

LEMMA CompleteBatchWaits ==
  ASSUME PoolInv, WaitInv, NEW t \in Threads, CompleteBatch(t) PROVE WaitInv'
<1> DEFINE w == Frame("workDone", Id(t), <<>>)
<1>1. /\ stack[t] # <<>> /\ Head(stack[t]).at = "complete" /\ DropReference(t, <<w>>)
      /\ UNCHANGED <<free, queue, batches, issued>>
  BY DEF CompleteBatch, At
<1>2. w \in CallFrames /\ w.at = "workDone"
  <2>1. Id(t) \in Ids
    BY <1>1, Innermost
  <2> QED BY <2>1 DEF Frame, CallFrames, Points
<1> HIDE DEF w
<1> QED BY <1>1, <1>2, GivesBackWaits

LEMMA WorkDoneWaits == ASSUME PoolInv, WaitInv, NEW t \in Threads, WorkDone(t) PROVE WaitInv'
<1> DEFINE h == Head(stack[t])
           z == Frame("unpin", Id(t), <<>>)
<1>1. /\ stack[t] # <<>> /\ h.at = "workDone" /\ PoolTyped /\ Continue(t, <<>>)
      /\ UNCHANGED <<slots, free, queue, batches, issued>>
  BY DEF WorkDone, At, PoolInv
<1>2. z \in CallFrames /\ z.at = "unpin"
  <2>1. Id(t) \in Ids
    BY <1>1, Innermost
  <2> QED BY <2>1 DEF Frame, CallFrames, Points
<1> HIDE DEF z
<1>3. Restack(t, Len(stack[t]) - 1, <<>>)
  BY <1>1, Continued0
<1>4. Roleless(h) /\ Roleless(z)
  BY <1>1, <1>2 DEF Roleless, GuardPoints, ReleasePoints, RunPoints
<1> QED BY <1>1, <1>2, <1>3, <1>4, AlikeWaits, SlotsKeptKeep DEF Alike

----------------------------------------------------------------------------
(* dropHandle *)

\* A call that plays a part begins a pin, which plays none.
LEMMA PinBeginsWaits ==
  ASSUME PoolInv, WaitInv, NEW t \in Threads, stack[t] # <<>>, Todo(t) # <<>>, PinFirst(t),
         UNCHANGED <<slots, free, queue, batches, issued>>
  PROVE  WaitInv'
<1> DEFINE g == Frame("pinCheck", Head(Todo(t)), <<>>)
<1>1. PoolTyped /\ Head(Todo(t)) \in Ids
  BY Innermost DEF PoolInv
<1>2. g \in CallFrames /\ g.at = "pinCheck"
  BY <1>1 DEF Frame, CallFrames, Points
<1>3. stack' = [stack EXCEPT ![t] = <<g>> \o @]
  BY DEF PinFirst
<1> HIDE DEF g
<1>4. Restack(t, Len(stack[t]), <<g>>)
  BY <1>1, <1>2, <1>3, Called
<1>5. Roleless(g)
  BY <1>2 DEF Roleless, GuardPoints, ReleasePoints, RunPoints
<1>6. Recast(<<Main, 0>>, g, g, <<t, Len(stack[t]) + 1>>, g)
  BY <1>2, <1>4, <1>5, CalledRoles
<1>7. RolesKept
  BY <1>5, <1>6, AlikeKept DEF Alike
<1> QED BY <1>7, RolesKeep, SlotsKeptKeep

LEMMA DropNextDependentWaits ==
  ASSUME PoolInv, WaitInv, NEW t \in Threads, DropNextDependent(t) PROVE WaitInv'
BY PinBeginsWaits DEF DropNextDependent, At

LEMMA AddDependentWaits ==
  ASSUME PoolInv, WaitInv, NEW t \in Threads, AddDependent(t) PROVE WaitInv'
BY PinBeginsWaits DEF AddDependent, At

LEMMA DropFenceWaits == ASSUME PoolInv, WaitInv, NEW t \in Threads, DropFence(t) PROVE WaitInv'
<1> DEFINE h == Head(stack[t])
           f == Frame("reclaim", Id(t), <<>>)
           g == Frame("unpin", Id(t), <<>>)
<1>1. /\ stack[t] # <<>> /\ h.at = "dependents" /\ Todo(t) = <<>> /\ PoolTyped
      /\ Continue(t, <<f>>) /\ UNCHANGED <<slots, free, queue, batches, issued>>
  BY DEF DropFence, At, PoolInv
<1>2. Id(t) = h.id /\ h.id \in Ids /\ h.todo = <<>>
  BY <1>1, Innermost
<1>3. /\ f \in CallFrames /\ f.at = "reclaim" /\ f.id = h.id /\ f.todo = <<>>
      /\ g \in CallFrames /\ g.at = "unpin"
  BY <1>2 DEF Frame, CallFrames, Points
<1> HIDE DEF f, g
<1>4. Restack(t, Len(stack[t]) - 1, <<f>>)
  BY <1>1, <1>3, Continued1
<1>5. SameRole(h, f) /\ Roleless(g)
  BY <1>1, <1>2, <1>3 DEF SameRole, ReleasePoints, Roleless, GuardPoints, RunPoints
<1> QED BY <1>1, <1>3, <1>4, <1>5, AlikeWaits, SlotsKeptKeep DEF Alike

\* A step that only ends the innermost call, one that guards and pushes nothing and
\* has nothing left to release, or replaces it by one without a part.
LEMMA PartEnds ==
  ASSUME NEW x, NEW h, NEW z, NEW y, NEW g, Recast(x, h, z, y, g), Roleless(z), Roleless(g),
         h.at \notin GuardPoints, h.at # "push",
         h.at \in ReleasePoints => h.todo = <<>>
  PROVE  /\ WaitsKept
         /\ \A F : Coarse(F) => CallsIn(F)' = CallsIn(F) \ {x}
<1>1. \A F : Coarse(F) => /\ CallsIn(F)' = CallsIn(F) \ {x}
                          /\ h \notin F => CallsIn(F)' = CallsIn(F)
  <2>1. \A F : Coarse(F) => z \notin F
    BY DEF Recast, Coarse
  <2> QED BY <2>1, RecastSets
<1>2. \A k : ~Named(<<>>, k)
  BY DEF Named
<1>3. NoRepeats(<<>>)
  BY DEF NoRepeats
<1>4. /\ \A b : h \notin GuardFrames(b) /\ h \notin PushFrames(b)
      /\ \A b, k : h \notin GuardFramesOf(b, k)
  BY DEF GuardFrames, PushFrames, GuardFramesOf
<1>5. \A s, b : h \notin ReleaseFramesOf(s, b)
  BY <1>2 DEF ReleaseFramesOf, ReleaseFrames
<1>6. h \notin UntidyFrames
  BY <1>3 DEF UntidyFrames, ReleasePoints
<1> QED BY <1>1, <1>4, <1>5, <1>6, RolesAreCoarse DEF WaitsKept

LEMMA DropReclaimWaits ==
  ASSUME PoolInv, WaitInv, NEW t \in Threads, DropReclaim(t) PROVE WaitInv'
<1> DEFINE h == Head(stack[t])
           z == Frame("unpin", Id(t), <<>>)
           x == <<t, Len(stack[t])>>
           y == <<t, Len(stack[t]) + 1>>
<1>1. /\ stack[t] # <<>> /\ h.at = "reclaim" /\ free' = <<Id(t).slot>> \o free /\ PoolTyped
      /\ Continue(t, <<>>) /\ UNCHANGED <<slots, queue, batches, issued>>
  BY DEF DropReclaim, At, PoolInv
<1>2. /\ Id(t) = h.id /\ h \in CallFrames /\ h.id.slot \in Slots
      /\ z \in CallFrames /\ z.at = "unpin"
  <2>1. Id(t) = h.id /\ h \in CallFrames /\ h.id \in Ids /\ h.id.slot \in Slots
    BY <1>1, Innermost
  <2> QED BY <2>1 DEF Frame, CallFrames, Points
<1> HIDE DEF z
<1>3. Restack(t, Len(stack[t]) - 1, <<>>)
  BY <1>1, Continued0
<1>4. Roleless(z)
  BY <1>2 DEF Roleless, GuardPoints, ReleasePoints, RunPoints
<1>5. Recast(x, h, z, y, z)
  BY <1>1, <1>2, <1>3, <1>4, InnermostRoles
<1> HIDE DEF h, x, y
<1>6. h.todo = <<>>
  <2>1. h \notin UntidyFrames
    BY <1>5, PlaysPart, RolesAreCoarse DEF WaitInv, ListsInOrder
  <2> QED BY <1>1, <1>2, <2>1 DEF UntidyFrames
<1>7. WaitsKept /\ \A F : Coarse(F) => CallsIn(F)' = CallsIn(F) \ {x}
  BY <1>1, <1>4, <1>5, <1>6, PartEnds DEF GuardPoints
<1>8. \A s \in Slots : Gone(s)' => Gone(s)
  <2>1. \A s : Listed(s)' => Listed(s) \/ s = h.id.slot
    <3>1. free \in Seq(Slots) /\ <<Id(t).slot>> \in Seq(Slots)
      BY <1>1, <1>2 DEF PoolTyped
    <3>2. \A i \in DOMAIN free' : free'[i] = h.id.slot \/ \E k \in DOMAIN free : free'[i] = free[k]
      BY <1>1, <1>2, <3>1
    <3> QED BY <3>2 DEF Listed
  <2>2. Gone(h.id.slot)
    <3>1. h \in ReleaseFrames(h.id.slot)
      BY <1>1, <1>2 DEF ReleaseFrames, ReleasePoints
    <3> QED BY <1>5, <3>1, PlaysPart, RolesAreCoarse DEF Gone
  <2>3. \A s : CallsIn(ReleaseFrames(s))' \subseteq CallsIn(ReleaseFrames(s))
    BY <1>7, RolesAreCoarse
  <2> QED BY <2>1, <2>2, <2>3 DEF Gone
<1>9. \A k \in Ids : Busy(k)' => Busy(k)
  BY <1>1, <1>7, RolesAreCoarse DEF Busy
<1> QED BY <1>1, <1>7, <1>8, <1>9, WaitsKeep, SlotsKeptKeep

LEMMA InvalidFields ==
  ASSUME PoolTyped, NEW r \in Slots,
         slots' = [slots EXCEPT ![r].generation = @ + 1, ![r].dependentCount = 0,
                                ![r].dependents = <<>>]
  PROVE  /\ slots'[r].generation = slots[r].generation + 1 /\ slots[r].generation \in Nat
         /\ slots'[r].dependentCount = 0 /\ slots'[r].dependents = <<>>
         /\ slots'[r].dependencyCount = slots[r].dependencyCount
         /\ slots'[r].remainingJobs = slots[r].remainingJobs
         /\ \A s \in Slots : s # r => slots'[s] = slots[s]
<1> DEFINE none == <<>>
<1>1. slots \in [Slots -> SlotStates] /\ slots[r] \in SlotStates
  BY DEF PoolTyped
<1>2. slots' = [slots EXCEPT ![r] = [slots[r] EXCEPT !.generation = @ + 1, !.dependentCount = 0,
                                                     !.dependents = none]]
  BY <1>1
<1> HIDE DEF none
<1>3. \A e \in SlotStates :
        LET v == [e EXCEPT !.generation = @ + 1, !.dependentCount = 0, !.dependents = none]
        IN /\ v.generation = e.generation + 1 /\ e.generation \in Nat
           /\ v.dependentCount = 0 /\ v.dependents = none
           /\ v.dependencyCount = e.dependencyCount /\ v.remainingJobs = e.remainingJobs
  BY DEF SlotStates
<1>4. PICK v : v = [slots[r] EXCEPT !.generation = @ + 1, !.dependentCount = 0,
                                    !.dependents = none]
  OBVIOUS
<1>5. /\ v.generation = slots[r].generation + 1 /\ slots[r].generation \in Nat
      /\ v.dependentCount = 0 /\ v.dependents = none
      /\ v.dependencyCount = slots[r].dependencyCount /\ v.remainingJobs = slots[r].remainingJobs
  BY <1>1, <1>3, <1>4
<1>6. slots'[r] = v /\ \A s \in Slots : s # r => slots'[s] = slots[s]
  BY <1>1, <1>2, <1>4
<1> QED BY <1>5, <1>6 DEF none

\* With no more dependents than there is room for, the loop reads what was stored.
LEMMA ReadsStored ==
  ASSUME PoolTyped, NEW r \in Slots, slots[r].dependentCount = Len(slots[r].dependents),
         NEW todo \in ReadDependents(r)
  PROVE  todo = slots[r].dependents
<1>1. slots[r].dependents \in Seq(Ids)
  BY DEF PoolTyped, SlotStates
<1>2. PICK q \in Seq(Ids) : q = slots[r].dependents
  BY <1>1
<1>3. Len(q) \in Nat
  BY LenProperties
<1>4. PICK beyond \in [1 .. Len(q) - Len(q) -> Handles] : todo = q \o beyond
  BY <1>2 DEF ReadDependents
<1>5. beyond \in [1 .. 0 -> Handles]
  <2>1. Len(q) - Len(q) = 0
    BY <1>3
  <2> QED BY <1>4, <2>1
<1>6. beyond \in Seq(Ids) /\ Len(beyond) = 0
  <2>1. beyond = [i \in 1 .. 0 |-> beyond[i]]
    BY <1>5
  <2>2. beyond \in [1 .. 0 -> Ids]
    BY <1>5
  <2> QED BY <2>1, <2>2
<1>7. beyond = <<>>
  BY <1>6, EmptySeq
<1>8. q \o <<>> = q
  BY ConcatEmptySeq
<1> QED BY <1>2, <1>4, <1>7, <1>8

\* The dependents go from the slot to the call that releases them.
LEMMA DropInvalidateWaits ==
  ASSUME PoolInv, WaitInv, NEW t \in Threads, DropInvalidate(t) PROVE WaitInv'
<1> DEFINE L == Len(stack[t])
           h == Head(stack[t])
           z == Frame("unpin", h.id, <<>>)
           x == <<t, L>>
           y == <<t, L + 1>>
<1>1. /\ stack[t] # <<>> /\ h.at = "drop" /\ PoolTyped
      /\ free' = free /\ queue' = queue /\ issued' = issued /\ batches' = batches
  BY DEF DropInvalidate, At, PoolInv
<1>2. PICK r \in Slots : r = h.id.slot
  BY <1>1, Innermost
<1>3. Id(t) = h.id /\ h \in CallFrames /\ h.id \in Ids
  BY <1>1, Innermost
<1>4. slots' = [slots EXCEPT ![r].generation = @ + 1, ![r].dependentCount = 0,
                             ![r].dependents = <<>>]
  BY <1>2, <1>3 DEF DropInvalidate
<1>5. /\ slots'[r].generation = slots[r].generation + 1 /\ slots[r].generation \in Nat
      /\ slots'[r].dependentCount = 0 /\ slots'[r].dependents = <<>>
      /\ slots'[r].dependencyCount = slots[r].dependencyCount
      /\ slots'[r].remainingJobs = slots[r].remainingJobs
      /\ \A s \in Slots : s # r => slots'[s] = slots[s]
  BY <1>1, <1>4, InvalidFields
<1>6. PICK todo \in ReadDependents(r) : Continue(t, <<Frame("dependents", h.id, todo)>>)
  BY <1>2, <1>3 DEF DropInvalidate
<1>7. /\ todo = slots[r].dependents /\ todo \in Seq(Ids) /\ NoRepeats(todo)
  <2>1. slots[r].dependentCount = Len(slots[r].dependents) /\ NoRepeats(slots[r].dependents)
    BY DEF WaitInv, ListsInOrder
  <2>2. slots[r].dependents \in Seq(Ids)
    BY <1>1 DEF PoolTyped, SlotStates
  <2> QED BY <1>1, <2>1, <2>2, ReadsStored
<1> DEFINE f == Frame("dependents", h.id, todo)
<1>8. /\ f \in CallFrames /\ f.at = "dependents" /\ f.id = h.id /\ f.todo = todo
      /\ z \in CallFrames /\ z.at = "unpin"
  BY <1>3, <1>7 DEF Frame, CallFrames, Points
<1>9. Continue(t, <<f>>)
  BY <1>6
<1> HIDE DEF f, z
<1>10. Restack(t, L - 1, <<f>>)
  BY <1>1, <1>8, <1>9, Continued1
<1>11. Roleless(z)
  BY <1>8 DEF Roleless, GuardPoints, ReleasePoints, RunPoints
<1>12. Recast(x, h, f, y, z)
  BY <1>1, <1>8, <1>10, <1>11, InnermostRoles
<1>13. ~(slots[r].remainingJobs > 0)
  <2>1. h \in DropFrames(r)
    BY <1>1, <1>2, <1>3 DEF DropFrames, DropPoints
  <2>2. x \in Droppers(r)
    BY <1>1, <2>1, Innermost, RefsForm
  <2> QED BY <2>2, LiveSlot
<1> HIDE DEF h, x, y
<1>14. \A F : Coarse(F) => /\ (f \in F <=> h \in F) => CallsIn(F)' = CallsIn(F)
                           /\ f \in F => CallsIn(F)' = CallsIn(F) \cup {x}
  BY <1>11, <1>12, RecastSets
<1>15. /\ \A b : /\ CallsIn(GuardFrames(b))' = CallsIn(GuardFrames(b))
                 /\ CallsIn(PushFrames(b))' = CallsIn(PushFrames(b))
                 /\ CallsIn(RunFrames(b))' = CallsIn(RunFrames(b))
       /\ \A b, k : CallsIn(GuardFramesOf(b, k))' = CallsIn(GuardFramesOf(b, k))
  <2>1. /\ \A b : /\ f \notin GuardFrames(b) /\ h \notin GuardFrames(b)
                  /\ f \notin PushFrames(b) /\ h \notin PushFrames(b)
                  /\ f \notin RunFrames(b) /\ h \notin RunFrames(b)
        /\ \A b, k : f \notin GuardFramesOf(b, k) /\ h \notin GuardFramesOf(b, k)
    BY <1>1, <1>3, <1>8, OnePart DEF GuardPoints, RunPoints
  <2> QED BY <1>14, <2>1, RolesAreCoarse
<1>16. \A s, b : ToRelease(s, b)' <=> ToRelease(s, b) \/ (s = r /\ Registered(s, b))
  <2>1. ASSUME NEW s, NEW b
        PROVE  /\ h \notin ReleaseFramesOf(s, b)
               /\ f \in ReleaseFramesOf(s, b) <=> s = r /\ Registered(s, b)
    BY <1>1, <1>2, <1>3, <1>7, <1>8, OnePart DEF ReleaseFramesOf, ReleaseFrames, ReleasePoints,
       Registered
  <2> QED BY <1>14, <2>1, RolesAreCoarse DEF ToRelease
<1>17. CallsIn(UntidyFrames)' = {}
  <2>1. f \notin UntidyFrames /\ h \notin UntidyFrames
    BY <1>1, <1>3, <1>7, <1>8, OnePart DEF UntidyFrames, GuardPoints, ReleasePoints
  <2> QED BY <1>14, <2>1, RolesAreCoarse DEF WaitInv, ListsInOrder
<1>18. \A s \in Slots : s # r => (Gone(s)' => Gone(s))
  <2>1. \A s : s # r => f \notin ReleaseFrames(s) /\ h \notin ReleaseFrames(s)
    BY <1>1, <1>2, <1>3, <1>8, OnePart DEF ReleaseFrames, ReleasePoints
  <2> QED BY <1>1, <1>14, <2>1, RolesAreCoarse DEF Gone, Listed
<1>19. \A b : \A s \in Slots : Awaits(b, s)' <=> Awaits(b, s)
  <2>1. \A b : ~Registered(r, b)'
    BY <1>5 DEF Registered, Named
  <2>2. \A b : \A s \in Slots : s # r => (Registered(s, b)' <=> Registered(s, b))
    BY <1>5 DEF Registered
  <2> QED BY <1>16, <2>1, <2>2 DEF Awaits
<1>20. \A b : Guards(b)' = Guards(b) /\ Pushers(b)' = Pushers(b)
  BY <1>15 DEF Guards, Pushers
<1>21. \A b : Holds(b)' = Holds(b)
  BY <1>19, <1>20, HoldsKept
<1>22. \A b : (Waiting(b)' => Waiting(b)) /\ (Busy(b)' => Busy(b))
  BY <1>1, <1>15, <1>20, <1>21 DEF Waiting, Busy
<1>23. \A b, k : ToRegister(b, k)' <=> ToRegister(b, k)
  BY <1>15 DEF ToRegister
<1>24. \A i \in DOMAIN batches : batches[i].id # NoHandle =>
          /\ batches[i].id.slot \in Slots /\ batches[i].id.gen \in Nat
          /\ batches[i].id.gen <= slots[batches[i].id.slot].generation
          /\ batches[i].id.slot = r => batches[i].finished
  BY <1>13, BatchTyped DEF WaitInv, BatchesPlaced, Live, Slot
<1>25. BatchesPlaced'
  <2>1. SUFFICES ASSUME NEW i \in DOMAIN batches, batches[i].id # NoHandle
                 PROVE  LET b == batches[i].id IN
                        /\ b.gen <= slots'[b.slot].generation
                        /\ Gone(b.slot)' => b.gen < slots'[b.slot].generation
                        /\ batches[i].finished \/ ( /\ slots'[b.slot].generation = b.gen
                                                    /\ slots'[b.slot].remainingJobs > 0)
    BY <1>1 DEF BatchesPlaced, Slot, Live
  <2>2. CASE batches[i].id.slot = r
    BY <1>5, <1>24, <2>1, <2>2
  <2>3. CASE batches[i].id.slot # r
    BY <1>1, <1>5, <1>18, <1>24, <2>1, <2>3 DEF WaitInv, BatchesPlaced, Slot, Live
  <2> QED BY <2>2, <2>3
<1>26. BatchesKnown' /\ WaitersUnpushed' /\ RunnersPushed'
  BY <1>1, <1>22, KnownKept, UnpushedKept, RunnersKept DEF WaitInv
<1>27. WaitsCounted'
  <2>1. \A s \in Slots : slots'[s].dependencyCount = slots[s].dependencyCount
    BY <1>5
  <2> QED BY <1>20, <1>21, <2>1, CountsKept DEF WaitInv
<1>28. ListsInOrder'
  <2>1. \A s \in Slots : s # r =>
          /\ slots'[s].dependentCount = Len(slots'[s].dependents)
          /\ NoRepeats(slots'[s].dependents)
          /\ Gone(s)' => slots'[s].dependents = <<>>
          /\ \A b \in Ids : Registered(s, b)' =>
               ~ToRegister(b, [slot |-> s, gen |-> slots[s].generation])'
    BY <1>5, <1>18, <1>23 DEF WaitInv, ListsInOrder, Registered
  <2>2. /\ slots'[r].dependentCount = Len(slots'[r].dependents)
        /\ NoRepeats(slots'[r].dependents) /\ \A b : ~Registered(r, b)'
    BY <1>5 DEF NoRepeats, Registered, Named
  <2> QED BY <1>5, <1>17, <2>1, <2>2 DEF ListsInOrder
<1>29. DependenciesTracked'
  <2>1. SUFFICES ASSUME NEW i \in DOMAIN batches, NEW k \in DOMAIN batches,
                        batches[k].id \in batches[i].deps, ~batches[k].finished,
                        batches[i].id # NoHandle
                 PROVE  \/ ToRegister(batches[i].id, batches[k].id)'
                        \/ Registered(batches[k].id.slot, batches[i].id)'
    BY <1>1 DEF DependenciesTracked
  <2>2. ToRegister(batches[i].id, batches[k].id) \/ Registered(batches[k].id.slot, batches[i].id)
    BY <2>1 DEF WaitInv, DependenciesTracked
  <2>3. batches[k].id # NoHandle
    BY <2>1, BatchTyped, HandlesAreReal DEF WaitInv
  <2>4. batches[k].id.slot \in Slots /\ batches[k].id.slot # r
    BY <1>24, <2>1, <2>3
  <2> QED BY <1>1, <1>5, <1>23, <2>2, <2>4 DEF Registered
<1> QED BY <1>25, <1>26, <1>27, <1>28, <1>29 DEF WaitInv

\* A batch waits for one thing less; the last one pushes it, by the call y.
LEMMA OneWaitLess ==
  ASSUME PoolInv, WaitInv, NEW d \in Ids, NEW a \in Holds(d), NEW y,
         Set(d.slot, "dependencyCount", Slot(d).dependencyCount - 1),
         Holds(d)' = Holds(d) \ {a},
         Pushers(d)' = Pushers(d) \cup (IF Slot(d).dependencyCount = 1 THEN {y} ELSE {}),
         \A b \in Ids : /\ Guards(b)' \subseteq Guards(b)
                        /\ b # d => Holds(b)' = Holds(b) /\ Pushers(b)' = Pushers(b)
  PROVE  WaitsCounted' /\ (batches' = batches => WaitersUnpushed')
<1> DEFINE n == Slot(d).dependencyCount
<1>1. d.slot \in Slots /\ PoolTyped /\ Waiting(d)
  BY HandlesAreReal DEF PoolInv, Waiting
<1>2. /\ slots'[d.slot].dependencyCount = n - 1
      /\ \A s \in Slots : s # d.slot => slots'[s] = slots[s]
  BY <1>1, SetKeeps
<1>3. n = Cardinality(Holds(d)) /\ IsFiniteSet(Holds(d)) /\ n \in Nat
  BY HoldsFinite DEF WaitInv, WaitsCounted
<1>4. IsFiniteSet(Holds(d)') /\ Cardinality(Holds(d)') = n - 1
  BY <1>3, FS_RemoveElement
<1>5. Pushers(d) = {}
  BY DEF WaitInv, WaitsCounted
<1>6. n = 1 => Holds(d)' = {}
  BY <1>4, FS_EmptySet
<1> HIDE DEF n
<1>7. WaitsCounted'
  <2>1. SUFFICES ASSUME NEW b \in Ids
                 PROVE  /\ Holds(b)' # {} =>
                             slots'[b.slot].dependencyCount = Cardinality(Holds(b)')
                        /\ Pushers(b)' # {} => Holds(b)' = {}
                        /\ \A c, e \in Pushers(b)' : c = e
                        /\ \A c, e \in Guards(b)' : c = e
    BY DEF WaitsCounted, Slot
  <2>2. \A c, e \in Guards(b)' : c = e
    BY DEF WaitInv, WaitsCounted
  <2>3. CASE b = d
    BY <1>2, <1>4, <1>5, <1>6, <2>2, <2>3 DEF n
  <2>4. CASE b # d
    <3>1. Holds(b)' = Holds(b) /\ Pushers(b)' = Pushers(b) /\ b.slot \in Slots
      BY <2>4, HandlesAreReal
    <3>2. Holds(b) # {} => b.slot # d.slot
      <4>1. Holds(b) # {} => Waiting(b)
        BY DEF Waiting
      <4> QED BY <1>1, <2>4, <4>1, WaiterLives DEF WaitInv
    <3> QED BY <1>2, <2>2, <3>1, <3>2 DEF WaitInv, WaitsCounted, Slot
  <2> QED BY <2>3, <2>4
<1>8. \A b \in Ids : Waiting(b)' => Waiting(b)
  BY <1>1 DEF Waiting
<1>9. batches' = batches => WaitersUnpushed'
  BY <1>8, UnpushedKept DEF WaitInv
<1> QED BY <1>7, <1>9

\* A dependency of dep has ended.
LEMMA ReleasedOne ==
  ASSUME PoolInv, WaitInv, NEW x, NEW h, NEW f, NEW y, NEW e, Recast(x, h, f, y, e),
         h.at = "resolve", h.todo \in Seq(Ids), h.todo # <<>>, h.id \in Ids,
         f.at = "dependents", f.id = h.id, f.todo = Tail(h.todo),
         NEW d \in Ids, d = Head(h.todo),
         IF Slot(d).dependencyCount = 1 THEN e.at = "push" /\ e.id = d ELSE Roleless(e),
         Set(d.slot, "dependencyCount", Slot(d).dependencyCount - 1),
         UNCHANGED <<free, queue, batches, issued>>
  PROVE  WaitInv'
<1> DEFINE r == h.id.slot
<1>0. r \in Slots /\ PoolTyped /\ d.slot \in Slots
  BY HandlesAreReal DEF PoolInv
<1>1. h \in CallFrames /\ f \in CallFrames /\ e \in CallFrames
  BY DEF Recast
<1>2. /\ Named(h.todo, d)
      /\ \A k : Named(f.todo, k) => Named(h.todo, k)
      /\ \A k : Named(h.todo, k) /\ k # d => Named(f.todo, k)
      /\ NoRepeats(h.todo) => NoRepeats(f.todo) /\ ~Named(f.todo, d)
  BY TailNames
<1>3. NoRepeats(h.todo)
  <2>1. h \notin UntidyFrames
    BY PlaysPart, RolesAreCoarse DEF WaitInv, ListsInOrder
  <2> QED BY <1>1, <2>1 DEF UntidyFrames, ReleasePoints
<1>4. e.at = "push" \/ Roleless(e)
  OBVIOUS
<1>5. e.at \notin GuardPoints /\ e.at \notin ReleasePoints /\ e.at \notin RunPoints
  BY <1>4 DEF Roleless, GuardPoints, ReleasePoints, RunPoints
<1>6. \A F : Coarse(F) /\ e \notin F =>
         /\ (f \in F <=> h \in F) => CallsIn(F)' = CallsIn(F)
         /\ f \notin F => CallsIn(F)' = CallsIn(F) \ {x}
  BY RecastOutside
<1>7. /\ \A b : /\ CallsIn(GuardFrames(b))' = CallsIn(GuardFrames(b))
                /\ CallsIn(RunFrames(b))' = CallsIn(RunFrames(b))
      /\ \A b, k : CallsIn(GuardFramesOf(b, k))' = CallsIn(GuardFramesOf(b, k))
      /\ \A s : CallsIn(ReleaseFrames(s))' = CallsIn(ReleaseFrames(s))
  <2>1. /\ \A b : /\ f \notin GuardFrames(b) /\ h \notin GuardFrames(b) /\ e \notin GuardFrames(b)
                  /\ f \notin RunFrames(b) /\ h \notin RunFrames(b) /\ e \notin RunFrames(b)
        /\ \A b, k : /\ f \notin GuardFramesOf(b, k) /\ h \notin GuardFramesOf(b, k)
                     /\ e \notin GuardFramesOf(b, k)
    BY <1>1, <1>5, OnePart DEF GuardPoints, RunPoints
  <2>2. \A s : (f \in ReleaseFrames(s) <=> h \in ReleaseFrames(s)) /\ e \notin ReleaseFrames(s)
    BY <1>1, <1>5 DEF ReleaseFrames, ReleasePoints
  <2> QED BY <1>6, <2>1, <2>2, RolesAreCoarse
<1>8. CallsIn(UntidyFrames)' = {}
  <2>1. f \notin UntidyFrames /\ h \notin UntidyFrames /\ e \notin UntidyFrames
    BY <1>1, <1>2, <1>3, <1>5, OnePart DEF UntidyFrames, GuardPoints, ReleasePoints
  <2> QED BY <1>6, <2>1, RolesAreCoarse DEF WaitInv, ListsInOrder
<1>9. \A s, b : s # r \/ b # d => (ToRelease(s, b)' <=> ToRelease(s, b))
  <2>1. \A s, b : s # r \/ b # d =>
           (f \in ReleaseFramesOf(s, b) <=> h \in ReleaseFramesOf(s, b))
    BY <1>1, <1>2 DEF ReleaseFramesOf, ReleaseFrames, ReleasePoints
  <2>2. \A s, b : e \notin ReleaseFramesOf(s, b)
    BY <1>1, <1>5, OnePart
  <2> QED BY <1>6, <2>1, <2>2, RolesAreCoarse DEF ToRelease
<1>10. ToRelease(r, d) /\ ~ToRelease(r, d)' /\ Gone(r)
  <2>1. h \in ReleaseFramesOf(r, d) /\ h \in ReleaseFrames(r)
    BY <1>1, <1>2 DEF ReleaseFramesOf, ReleaseFrames, ReleasePoints
  <2>2. f \notin ReleaseFramesOf(r, d) /\ e \notin ReleaseFramesOf(r, d)
    BY <1>1, <1>2, <1>3, <1>5, OnePart DEF ReleaseFramesOf
  <2>3. CallsIn(ReleaseFramesOf(r, d))' = CallsIn(ReleaseFramesOf(r, d)) \ {x}
    BY <1>6, <2>2, RolesAreCoarse
  <2>4. x \in CallsIn(ReleaseFramesOf(r, d)) /\ CallsIn(ReleaseFrames(r)) # {}
    BY <2>1, RolesAreCoarse, PlaysPart DEF Recast
  <2>5. \A c \in CallsIn(ReleaseFramesOf(r, d)) : c \in Droppers(r)
    <3>1. \A v \in ReleaseFramesOf(r, d) : v \in DropFrames(r)
      BY DEF ReleaseFramesOf, ReleaseFrames, DropFrames, ReleasePoints, DropPoints
    <3> QED BY <1>0, <3>1, RefsForm DEF CallsIn
  <2>6. \A c \in CallsIn(ReleaseFramesOf(r, d)) : c = x
    BY <1>0, <2>4, <2>5 DEF PoolInv, SlotsPlaced
  <2> QED BY <2>3, <2>4, <2>6 DEF ToRelease, Gone
<1>11. /\ \A s \in Slots : /\ slots'[s].generation = slots[s].generation
                           /\ slots'[s].dependents = slots[s].dependents
                           /\ slots'[s].dependentCount = slots[s].dependentCount
                           /\ slots'[s].remainingJobs = slots[s].remainingJobs
  BY <1>0, SetKeeps
<1>12. \A s \in Slots : \A b : Registered(s, b)' <=> Registered(s, b)
  BY <1>11 DEF Registered
<1>13. ~Registered(r, d)
  <2>1. slots[r].dependents = <<>>
    BY <1>0, <1>10 DEF WaitInv, ListsInOrder
  <2> QED BY <2>1 DEF Registered, Named
<1> HIDE DEF r
<1>14. \A b : \A s \in Slots : s # r \/ b # d => (Awaits(b, s)' <=> Awaits(b, s))
  BY <1>9, <1>12 DEF Awaits
<1>15. Awaits(d, r) /\ ~Awaits(d, r)'
  BY <1>0, <1>10, <1>12, <1>13 DEF Awaits
<1>16. \A b : Guards(b)' = Guards(b)
  BY <1>7 DEF Guards
<1>17. \A b : b # d => Holds(b)' = Holds(b)
  BY <1>14, <1>16, HoldsKept
<1>18. r \in Holds(d) /\ Holds(d)' = Holds(d) \ {r}
  BY <1>0, <1>14, <1>15, <1>16, SlotsPositive DEF Holds
<1>19. \A b : b # d => Pushers(b)' = Pushers(b)
  <2>1. \A b : h \notin PushFrames(b) /\ f \notin PushFrames(b)
    BY <1>1, OnePart
  <2>2. \A b : b # d => e \notin PushFrames(b)
    BY <1>1, <1>4 DEF PushFrames, Roleless
  <2> QED BY <1>6, <2>1, <2>2, RolesAreCoarse DEF Pushers
<1>20. Pushers(d)' = Pushers(d) \cup (IF Slot(d).dependencyCount = 1 THEN {y} ELSE {})
  <2>1. h \notin PushFrames(d) /\ f \notin PushFrames(d)
    BY <1>1, OnePart
  <2>2. e \in PushFrames(d) <=> Slot(d).dependencyCount = 1
    BY <1>1 DEF PushFrames, Roleless
  <2>3. /\ x \notin CallsIn(PushFrames(d))
        /\ CallsIn(PushFrames(d))' = (CallsIn(PushFrames(d)) \ {x})
             \cup Where(x, f, PushFrames(d)) \cup Where(y, e, PushFrames(d))
    BY <2>1, RolesAreCoarse DEF Recast
  <2> QED BY <2>1, <2>2, <2>3 DEF Where, Pushers
<1>21. WaitsCounted' /\ WaitersUnpushed'
  BY <1>16, <1>17, <1>18, <1>19, <1>20, OneWaitLess
<1>22. \A s \in Slots : Gone(s)' => Gone(s)
  BY <1>7 DEF Gone, Listed
<1>23. \A b, k : ToRegister(b, k)' <=> ToRegister(b, k)
  BY <1>7 DEF ToRegister
<1>24. \A b \in Ids : Busy(b)' => Busy(b)
  BY <1>7 DEF Busy
<1>25. BatchesKnown' /\ BatchesPlaced' /\ RunnersPushed'
  BY <1>11, <1>22, <1>24, KnownKept, PlacedKept, RunnersKept DEF WaitInv
<1>26. ListsInOrder' /\ DependenciesTracked'
  BY <1>8, <1>11, <1>22, <1>23, OrderKept, TrackedKept DEF WaitInv
<1> QED BY <1>21, <1>25, <1>26 DEF WaitInv

LEMMA DropResolveWaits ==
  ASSUME PoolInv, WaitInv, NEW t \in Threads, DropResolve(t) PROVE WaitInv'
<1> DEFINE h == Head(stack[t])
           d == Head(h.todo)
           f == Frame("dependents", h.id, Tail(h.todo))
           g == Frame("unpin", d, <<>>)
           p == Frame("push", d, <<>>)
           L == Len(stack[t])
           x == <<t, L>>
           n == Slot(d).dependencyCount
<1>1. /\ stack[t] # <<>> /\ h.at = "resolve" /\ PoolTyped
      /\ UNCHANGED <<free, queue, batches, issued>>
  BY DEF DropResolve, At, PoolInv
<1>2. h.todo # <<>>
  BY <1>1, Innermost DEF Pinned
<1>3. /\ Id(t) = h.id /\ Todo(t) = h.todo /\ h.id \in Ids /\ d \in Ids
      /\ h.todo \in Seq(Ids) /\ Tail(h.todo) \in Seq(Ids)
  BY <1>1, <1>2, Innermost
<1>4. /\ Set(d.slot, "dependencyCount", n - 1)
      /\ Continue(t, (IF n = 1 THEN <<p>> ELSE <<>>) \o <<g>> \o <<f>>)
  BY <1>3 DEF DropResolve
<1>5. f \in CallFrames /\ f.at = "dependents" /\ f.id = h.id /\ f.todo = Tail(h.todo)
  BY <1>3 DEF Frame, CallFrames, Points
<1>6. g \in CallFrames /\ g.at = "unpin" /\ p \in CallFrames /\ p.at = "push" /\ p.id = d
  BY <1>3 DEF Frame, CallFrames, Points
<1> HIDE DEF f, g, p, n
<1>7. <<p>> \o <<g>> \o <<f>> = <<p, g, f>> /\ <<>> \o <<g>> \o <<f>> = <<g, f>>
  BY <1>5, <1>6, Joined
<1>8. Roleless(g)
  BY <1>6 DEF Roleless, GuardPoints, ReleasePoints, RunPoints
<1>9. CASE n = 1
  <2>1. Continue(t, <<p, g, f>>)
    BY <1>4, <1>7, <1>9
  <2>2. Restack(t, L - 1, <<p, g, f>>)
    BY <1>1, <1>5, <1>6, <2>1, Continued3
  <2>3. Recast(x, h, f, <<t, L + 2>>, p)
    BY <1>1, <1>5, <1>6, <1>8, <2>2, PushedRoles
  <2> HIDE DEF h, x, d
  <2>4. PICK b \in Ids : b = d
    BY <1>3
  <2>5. IF Slot(b).dependencyCount = 1 THEN p.at = "push" /\ p.id = b ELSE Roleless(p)
    BY <1>6, <1>9, <2>4 DEF n
  <2>6. Set(b.slot, "dependencyCount", Slot(b).dependencyCount - 1)
    BY <1>4, <2>4 DEF n
  <2>7. b = Head(h.todo)
    BY <2>4 DEF d
  <2> QED BY <1>1, <1>2, <1>3, <1>5, <2>3, <2>5, <2>6, <2>7, ReleasedOne
<1>10. CASE n # 1
  <2>1. Continue(t, <<g, f>>)
    BY <1>4, <1>7, <1>10
  <2>2. Restack(t, L - 1, <<g, f>>)
    BY <1>1, <1>5, <1>6, <2>1, Continued2
  <2>3. Recast(x, h, f, <<t, L + 1>>, g)
    BY <1>1, <1>5, <1>6, <1>8, <2>2, InnermostRoles
  <2> HIDE DEF h, x, d
  <2>4. PICK b \in Ids : b = d
    BY <1>3
  <2>5. IF Slot(b).dependencyCount = 1 THEN g.at = "push" /\ g.id = b ELSE Roleless(g)
    BY <1>8, <1>10, <2>4 DEF n
  <2>6. Set(b.slot, "dependencyCount", Slot(b).dependencyCount - 1)
    BY <1>4, <2>4 DEF n
  <2>7. b = Head(h.todo)
    BY <2>4 DEF d
  <2> QED BY <1>1, <1>2, <1>3, <1>5, <2>3, <2>5, <2>6, <2>7, ReleasedOne
<1> QED BY <1>9, <1>10

----------------------------------------------------------------------------
(* Submission *)

\* The submission of d no longer holds it back.
LEMMA GuardReleased ==
  ASSUME PoolInv, WaitInv, NEW x, NEW h, NEW f, NEW y, NEW z, Recast(x, h, f, y, z), Roleless(z),
         h.at = "addDependents", h.todo = <<>>, NEW d \in Ids, d = h.id,
         IF Slot(d).dependencyCount = 1 THEN f.at = "push" /\ f.id = d ELSE Roleless(f),
         Set(d.slot, "dependencyCount", Slot(d).dependencyCount - 1),
         UNCHANGED <<free, queue, batches, issued>>
  PROVE  WaitInv'
<1>0. PoolTyped /\ d.slot \in Slots
  BY HandlesAreReal DEF PoolInv
<1>1. h \in CallFrames /\ f \in CallFrames /\ z \in CallFrames
  BY DEF Recast
<1>2. \A k : ~Named(h.todo, k)
  BY DEF Named
<1>3. f.at \notin GuardPoints /\ f.at \notin ReleasePoints /\ f.at \notin RunPoints
  BY DEF Roleless, GuardPoints, ReleasePoints, RunPoints
<1>4. h.at \notin ReleasePoints /\ h.at \notin RunPoints
  BY DEF ReleasePoints, RunPoints
<1>5. \A F : Coarse(F) =>
         /\ x \in CallsIn(F) <=> h \in F
         /\ (f \in F <=> h \in F) => CallsIn(F)' = CallsIn(F)
         /\ f \notin F => CallsIn(F)' = CallsIn(F) \ {x}
         /\ f \in F => CallsIn(F)' = CallsIn(F) \cup {x}
  BY RecastSets
<1>6. /\ \A b : CallsIn(RunFrames(b))' = CallsIn(RunFrames(b))
      /\ \A s : /\ CallsIn(ReleaseFrames(s))' = CallsIn(ReleaseFrames(s))
                /\ \A b : CallsIn(ReleaseFramesOf(s, b))' = CallsIn(ReleaseFramesOf(s, b))
  <2>1. /\ \A b : f \notin RunFrames(b) /\ h \notin RunFrames(b)
        /\ \A s : /\ f \notin ReleaseFrames(s) /\ h \notin ReleaseFrames(s)
                  /\ \A b : f \notin ReleaseFramesOf(s, b) /\ h \notin ReleaseFramesOf(s, b)
    BY <1>1, <1>3, <1>4, OnePart
  <2> QED BY <1>5, <2>1, RolesAreCoarse
<1>7. \A b, k : CallsIn(GuardFramesOf(b, k))' = CallsIn(GuardFramesOf(b, k))
  <2>1. \A b, k : f \notin GuardFramesOf(b, k) /\ h \notin GuardFramesOf(b, k)
    BY <1>1, <1>2, <1>3, OnePart DEF GuardFramesOf
  <2> QED BY <1>5, <2>1, RolesAreCoarse
<1>8. CallsIn(UntidyFrames)' = {}
  <2>1. f \notin UntidyFrames
    BY <1>1, <1>3, OnePart
  <2> QED BY <1>5, <2>1, RolesAreCoarse DEF WaitInv, ListsInOrder
<1>9. \A b : b # d => Guards(b)' = Guards(b)
  <2>1. \A b : b # d => f \notin GuardFrames(b) /\ h \notin GuardFrames(b)
    BY <1>1, <1>3 DEF GuardFrames
  <2> QED BY <1>5, <2>1, RolesAreCoarse DEF Guards
<1>10. Guards(d) # {} /\ Guards(d)' = {}
  <2>1. h \in GuardFrames(d) /\ f \notin GuardFrames(d)
    BY <1>1, <1>3 DEF GuardFrames, GuardPoints
  <2>2. x \in Guards(d) /\ Guards(d)' = Guards(d) \ {x}
    BY <1>5, <2>1, RolesAreCoarse DEF Guards
  <2>3. \A c \in Guards(d) : c = x
    BY <2>2 DEF WaitInv, WaitsCounted
  <2> QED BY <2>2, <2>3
<1>11. \A s \in Slots : /\ slots'[s].generation = slots[s].generation
                        /\ slots'[s].dependents = slots[s].dependents
                        /\ slots'[s].dependentCount = slots[s].dependentCount
                        /\ slots'[s].remainingJobs = slots[s].remainingJobs
  BY <1>0, SetKeeps
<1>12. \A b : \A s \in Slots : Awaits(b, s)' <=> Awaits(b, s)
  BY <1>6, <1>11 DEF Awaits, Registered, ToRelease
<1>13. \A b : b # d => Holds(b)' = Holds(b)
  BY <1>9, <1>12, HoldsKept
<1>14. 0 \in Holds(d) /\ Holds(d)' = Holds(d) \ {0}
  BY <1>10, <1>12, SlotsPositive DEF Holds
<1>15. /\ \A b : b # d => Pushers(b)' = Pushers(b)
       /\ Pushers(d)' = Pushers(d) \cup (IF Slot(d).dependencyCount = 1 THEN {x} ELSE {})
  <2>1. \A b : h \notin PushFrames(b)
    BY <1>1, OnePart
  <2>2. \A b : f \in PushFrames(b) <=> b = d /\ Slot(d).dependencyCount = 1
    BY <1>1 DEF PushFrames, Roleless
  <2> QED BY <1>5, <2>1, <2>2, RolesAreCoarse DEF Pushers
<1>16. WaitsCounted' /\ WaitersUnpushed'
  <2>1. \A b \in Ids : Guards(b)' \subseteq Guards(b)
    BY <1>9, <1>10
  <2> QED BY <1>13, <1>14, <1>15, <2>1, OneWaitLess
<1>17. \A s \in Slots : Gone(s)' => Gone(s)
  BY <1>6 DEF Gone, Listed
<1>18. \A b, k : ToRegister(b, k)' <=> ToRegister(b, k)
  BY <1>7 DEF ToRegister
<1>19. \A b \in Ids : Busy(b)' => Busy(b)
  BY <1>6 DEF Busy
<1>20. BatchesKnown' /\ BatchesPlaced' /\ RunnersPushed'
  BY <1>11, <1>17, <1>19, KnownKept, PlacedKept, RunnersKept DEF WaitInv
<1>21. ListsInOrder' /\ DependenciesTracked'
  BY <1>8, <1>11, <1>17, <1>18, OrderKept, TrackedKept DEF WaitInv
<1> QED BY <1>16, <1>20, <1>21 DEF WaitInv

LEMMA ReleaseGuardWaits ==
  ASSUME PoolInv, WaitInv, NEW t \in Threads, ReleaseGuard(t) PROVE WaitInv'
<1> DEFINE h == Head(stack[t])
           z == Frame("unpin", h.id, <<>>)
           p == Frame("push", h.id, <<>>)
           L == Len(stack[t])
           x == <<t, L>>
           y == <<t, L + 1>>
<1>1. /\ stack[t] # <<>> /\ h.at = "addDependents" /\ Todo(t) = <<>> /\ PoolTyped
      /\ UNCHANGED <<free, queue, batches, issued>>
  BY DEF ReleaseGuard, At, PoolInv
<1>2. Id(t) = h.id /\ Todo(t) = h.todo /\ h.id \in Ids
  BY <1>1, Innermost
<1>3. PICK d \in Ids : d = h.id
  BY <1>2
<1>4. /\ Set(d.slot, "dependencyCount", Slot(d).dependencyCount - 1)
      /\ Continue(t, IF Slot(d).dependencyCount = 1 THEN <<p>> ELSE <<>>)
  BY <1>2, <1>3 DEF ReleaseGuard
<1>5. z \in CallFrames /\ z.at = "unpin" /\ p \in CallFrames /\ p.at = "push" /\ p.id = d
  BY <1>3 DEF Frame, CallFrames, Points
<1> HIDE DEF p, z
<1>6. Roleless(z)
  BY <1>5 DEF Roleless, GuardPoints, ReleasePoints, RunPoints
<1>7. CASE Slot(d).dependencyCount = 1
  <2>1. Restack(t, L - 1, <<p>>)
    BY <1>1, <1>4, <1>5, <1>7, Continued1
  <2>2. Recast(x, h, p, y, z)
    BY <1>1, <1>5, <1>6, <2>1, InnermostRoles
  <2> HIDE DEF h, x, y
  <2> QED BY <1>1, <1>2, <1>3, <1>4, <1>5, <1>6, <1>7, <2>2, GuardReleased
<1>8. CASE Slot(d).dependencyCount # 1
  <2>1. Restack(t, L - 1, <<>>)
    BY <1>1, <1>4, <1>8, Continued0
  <2>2. Recast(x, h, z, y, z)
    BY <1>1, <1>5, <1>6, <2>1, InnermostRoles
  <2> HIDE DEF h, x, y
  <2> QED BY <1>1, <1>2, <1>3, <1>4, <1>6, <1>8, <2>2, GuardReleased
<1> QED BY <1>7, <1>8

\* What a registration writes, when there is room.
LEMMA RegisterFields ==
  ASSUME PoolTyped, NEW r \in Slots, NEW h \in Ids, slots[r].dependentCount < MaxDependents,
         slots' =
           [s \in Slots |->
              [slots[s] EXCEPT
                 !.dependentCount = IF s = r THEN @ + 1 ELSE @,
                 !.dependents =
                   IF s = r /\ slots[r].dependentCount < MaxDependents THEN Append(@, h) ELSE @,
                 !.dependencyCount =
                   IF s = h.slot /\ slots[r].dependentCount < MaxDependents THEN @ + 1 ELSE @]]
  PROVE  \A s \in Slots :
           /\ slots'[s].generation = slots[s].generation
           /\ slots'[s].remainingJobs = slots[s].remainingJobs
           /\ slots'[s].dependentCount = slots[s].dependentCount + (IF s = r THEN 1 ELSE 0)
           /\ slots'[s].dependents =
                IF s = r THEN Append(slots[s].dependents, h) ELSE slots[s].dependents
           /\ slots'[s].dependencyCount =
                slots[s].dependencyCount + (IF s = h.slot THEN 1 ELSE 0)
<1> DEFINE room == slots[r].dependentCount < MaxDependents
<1>1. \A s \in Slots : slots[s] \in SlotStates
  BY DEF PoolTyped
<1>3. ASSUME NEW s \in Slots
      PROVE  /\ slots'[s].generation = slots[s].generation
             /\ slots'[s].remainingJobs = slots[s].remainingJobs
             /\ slots'[s].dependentCount =
                  IF s = r THEN slots[s].dependentCount + 1 ELSE slots[s].dependentCount
             /\ slots'[s].dependents =
                  IF s = r /\ room THEN Append(slots[s].dependents, h) ELSE slots[s].dependents
             /\ slots'[s].dependencyCount =
                  IF s = h.slot /\ room THEN slots[s].dependencyCount + 1
                                        ELSE slots[s].dependencyCount
             /\ slots[s].dependentCount \in Int /\ slots[s].dependencyCount \in Int
  <2>1. PICK m : m = IF s = r THEN slots[s].dependentCount + 1 ELSE slots[s].dependentCount
    OBVIOUS
  <2>2. PICK q : q = IF s = r /\ room THEN Append(slots[s].dependents, h)
                                      ELSE slots[s].dependents
    OBVIOUS
  <2>3. PICK n : n = IF s = h.slot /\ room THEN slots[s].dependencyCount + 1
                                           ELSE slots[s].dependencyCount
    OBVIOUS
  <2>4. slots'[s] = [slots[s] EXCEPT !.dependentCount = m, !.dependents = q,
                                     !.dependencyCount = n]
    BY <2>1, <2>2, <2>3
  <2> HIDE DEF room
  <2>5. PICK e \in SlotStates : e = slots[s]
    BY <1>1
  <2>6. PICK v : v = slots'[s]
    OBVIOUS
  <2>7. v = [e EXCEPT !.dependentCount = m, !.dependents = q, !.dependencyCount = n]
    BY <2>4, <2>5, <2>6
  <2>8. /\ v.generation = e.generation /\ v.remainingJobs = e.remainingJobs
        /\ v.dependentCount = m /\ v.dependents = q /\ v.dependencyCount = n
        /\ e.dependentCount \in Int /\ e.dependencyCount \in Int
    BY ONLY <2>7, e \in SlotStates DEF SlotStates
  <2> QED BY <2>1, <2>2, <2>3, <2>5, <2>6, <2>8
<1> HIDE DEF room
<1>4. room
  BY DEF room
<1> QED BY ONLY <1>3, <1>4

LEMMA AppendNames ==
  ASSUME NEW q \in Seq(Ids), NEW h \in Ids
  PROVE  /\ Len(Append(q, h)) = Len(q) + 1
         /\ \A k : Named(Append(q, h), k) <=> Named(q, k) \/ k = h
         /\ NoRepeats(q) /\ ~Named(q, h) => NoRepeats(Append(q, h))
<1> DEFINE v == Append(q, h)
<1>1. /\ Len(q) \in Nat /\ DOMAIN q = 1 .. Len(q) /\ Len(v) = Len(q) + 1
      /\ DOMAIN v = 1 .. Len(q) + 1 /\ v[Len(q) + 1] = h
      /\ \A i \in 1 .. Len(q) : v[i] = q[i]
  BY AppendProperties, LenProperties
<1> HIDE DEF v
<1>2. \A i \in DOMAIN v : \/ i \in DOMAIN q /\ v[i] = q[i]
                          \/ i = Len(q) + 1 /\ v[i] = h
  BY <1>1
<1>3. \A i \in DOMAIN q : i \in DOMAIN v /\ v[i] = q[i]
  BY <1>1
<1>4. Len(q) + 1 \in DOMAIN v
  BY <1>1
<1>5. \A k : Named(v, k) <=> Named(q, k) \/ k = h
  BY <1>1, <1>2, <1>3, <1>4 DEF Named
<1>6. NoRepeats(q) /\ ~Named(q, h) => NoRepeats(v)
  BY <1>2 DEF NoRepeats, Named
<1> QED BY <1>1, <1>5, <1>6 DEF v

\* A batch waits for one thing more.
LEMMA OneWaitMore ==
  ASSUME PoolInv, WaitInv, NEW d \in Ids, Waiting(d), Pushers(d) = {},
         Holds(d) # {}, NEW a, a \notin Holds(d), Holds(d)' = Holds(d) \cup {a},
         \A s \in Slots : slots'[s].dependencyCount =
                            slots[s].dependencyCount + (IF s = d.slot THEN 1 ELSE 0),
         \A b \in Ids : /\ Guards(b)' = Guards(b) /\ Pushers(b)' = Pushers(b)
                        /\ b # d => Holds(b)' = Holds(b)
  PROVE  WaitsCounted'
<1>1. d.slot \in Slots /\ PoolTyped
  BY HandlesAreReal DEF PoolInv
<1>2. \A s \in Slots : slots[s].dependencyCount \in Int
  BY <1>1 DEF PoolTyped, SlotStates
<1>3. /\ Slot(d).dependencyCount = Cardinality(Holds(d)) /\ IsFiniteSet(Holds(d))
      /\ Cardinality(Holds(d)) \in Nat
  BY HoldsFinite DEF WaitInv, WaitsCounted
<1>4. Cardinality(Holds(d)') = Cardinality(Holds(d)) + 1
  BY <1>3, FS_AddElement
<1>5. SUFFICES ASSUME NEW b \in Ids
               PROVE  /\ Holds(b)' # {} =>
                           slots'[b.slot].dependencyCount = Cardinality(Holds(b)')
                      /\ Pushers(b)' # {} => Holds(b)' = {}
                      /\ \A c, e \in Pushers(b)' : c = e
                      /\ \A c, e \in Guards(b)' : c = e
  BY DEF WaitsCounted, Slot
<1>6. b.slot \in Slots
  BY HandlesAreReal
<1>7. \A c, e \in Guards(b)' : c = e
  BY DEF WaitInv, WaitsCounted
<1>8. CASE b = d
  BY <1>1, <1>3, <1>4, <1>7, <1>8 DEF Slot
<1>9. CASE b # d
  <2>1. Holds(b) # {} => b.slot # d.slot
    <3>1. Holds(b) # {} => Waiting(b)
      BY DEF Waiting
    <3> QED BY <1>9, <3>1, WaiterLives DEF WaitInv
  <2>2. Holds(b) # {} => slots'[b.slot].dependencyCount = slots[b.slot].dependencyCount
    BY <1>2, <1>6, <2>1
  <2> QED BY <1>7, <1>9, <2>2 DEF WaitInv, WaitsCounted, Slot
<1> QED BY <1>8, <1>9

\* The batch d is registered as a dependent of the batch k, which is pinned.
LEMMA RegisteredOne ==
  ASSUME PoolInv, WaitInv, NEW x, NEW h, NEW f, NEW y, NEW z, Recast(x, h, f, y, z), Roleless(z),
         h.at = "register", h.todo \in Seq(Ids), h.todo # <<>>,
         f.at = "addDependents", f.id = h.id, f.todo = Tail(h.todo),
         NEW d \in Ids, d = h.id, NEW k \in Ids, k = Head(h.todo),
         Slot(k).generation = k.gen, Droppers(k.slot) = {}, ~Listed(k.slot),
         \A s \in Slots :
           /\ slots'[s].generation = slots[s].generation
           /\ slots'[s].remainingJobs = slots[s].remainingJobs
           /\ slots'[s].dependentCount = slots[s].dependentCount + (IF s = k.slot THEN 1 ELSE 0)
           /\ slots'[s].dependents =
                IF s = k.slot THEN Append(slots[s].dependents, d) ELSE slots[s].dependents
           /\ slots'[s].dependencyCount =
                slots[s].dependencyCount + (IF s = d.slot THEN 1 ELSE 0),
         UNCHANGED <<free, queue, batches, issued>>
  PROVE  WaitInv'
<1> DEFINE r == k.slot
<1>0. r \in Slots /\ PoolTyped /\ d.slot \in Slots /\ k = [slot |-> r, gen |-> slots[r].generation]
  BY HandlesAreReal DEF PoolInv, Ids, Slot
<1>1. h \in CallFrames /\ f \in CallFrames /\ z \in CallFrames
  BY DEF Recast
<1>2. /\ Named(h.todo, k)
      /\ \A b : Named(f.todo, b) => Named(h.todo, b)
      /\ \A b : Named(h.todo, b) /\ b # k => Named(f.todo, b)
      /\ NoRepeats(h.todo) => NoRepeats(f.todo) /\ ~Named(f.todo, k)
  BY TailNames
<1>3. NoRepeats(h.todo)
  <2>1. h \notin UntidyFrames
    BY PlaysPart, RolesAreCoarse DEF WaitInv, ListsInOrder
  <2> QED BY <1>1, <2>1 DEF UntidyFrames, GuardPoints
<1>4. \A F : Coarse(F) =>
         /\ x \in CallsIn(F) <=> h \in F
         /\ (f \in F <=> h \in F) => CallsIn(F)' = CallsIn(F)
         /\ f \notin F => CallsIn(F)' = CallsIn(F) \ {x}
         /\ f \in F => CallsIn(F)' = CallsIn(F) \cup {x}
  BY RecastSets
<1>5. /\ \A b : /\ CallsIn(GuardFrames(b))' = CallsIn(GuardFrames(b))
                /\ CallsIn(PushFrames(b))' = CallsIn(PushFrames(b))
                /\ CallsIn(RunFrames(b))' = CallsIn(RunFrames(b))
      /\ \A s : /\ CallsIn(ReleaseFrames(s))' = CallsIn(ReleaseFrames(s))
                /\ \A b : CallsIn(ReleaseFramesOf(s, b))' = CallsIn(ReleaseFramesOf(s, b))
  <2>1. /\ \A b : /\ f \in GuardFrames(b) <=> h \in GuardFrames(b)
                  /\ f \notin PushFrames(b) /\ h \notin PushFrames(b)
                  /\ f \notin RunFrames(b) /\ h \notin RunFrames(b)
        /\ \A s : /\ f \notin ReleaseFrames(s) /\ h \notin ReleaseFrames(s)
                  /\ \A b : f \notin ReleaseFramesOf(s, b) /\ h \notin ReleaseFramesOf(s, b)
    BY <1>1, OnePart DEF GuardFrames, GuardPoints, RunPoints, ReleasePoints
  <2> QED BY <1>4, <2>1, RolesAreCoarse
<1>6. CallsIn(UntidyFrames)' = {}
  <2>1. f \notin UntidyFrames /\ h \notin UntidyFrames
    BY <1>1, <1>2, <1>3 DEF UntidyFrames, GuardPoints, ReleasePoints
  <2> QED BY <1>4, <2>1, RolesAreCoarse DEF WaitInv, ListsInOrder
<1>7. \A b, c : /\ ToRegister(b, c)' => ToRegister(b, c)
                /\ ToRegister(b, c) /\ (b # d \/ c # k) => ToRegister(b, c)'
  <2>1. ASSUME NEW b, NEW c
        PROVE  /\ f \in GuardFramesOf(b, c) => h \in GuardFramesOf(b, c)
               /\ h \in GuardFramesOf(b, c) /\ (b # d \/ c # k) => f \in GuardFramesOf(b, c)
    BY <1>1, <1>2 DEF GuardFramesOf, GuardFrames, GuardPoints
  <2> QED BY <1>4, <2>1, RolesAreCoarse DEF ToRegister
<1>8. x \in Guards(d) /\ ToRegister(d, k) /\ ~ToRegister(d, k)'
  <2>1. h \in GuardFrames(d) /\ h \in GuardFramesOf(d, k) /\ f \notin GuardFramesOf(d, k)
    BY <1>1, <1>2, <1>3 DEF GuardFramesOf, GuardFrames, GuardPoints
  <2>2. /\ x \in Guards(d) /\ x \in CallsIn(GuardFramesOf(d, k))
        /\ CallsIn(GuardFramesOf(d, k))' = CallsIn(GuardFramesOf(d, k)) \ {x}
    BY <1>4, <2>1, RolesAreCoarse DEF Guards
  <2>3. CallsIn(GuardFramesOf(d, k)) \subseteq Guards(d)
    BY DEF CallsIn, GuardFramesOf, Guards
  <2>4. \A c \in Guards(d) : c = x
    BY <2>2 DEF WaitInv, WaitsCounted
  <2> QED BY <2>2, <2>3, <2>4 DEF ToRegister
<1>9. CallsIn(ReleaseFrames(r)) = {} /\ ~Gone(r)
  <2>1. \A v \in ReleaseFrames(r) : v \in DropFrames(r)
    BY DEF ReleaseFrames, DropFrames, ReleasePoints, DropPoints
  <2>2. CallsIn(ReleaseFrames(r)) \subseteq Droppers(r)
    BY <1>0, <2>1, RefsForm DEF CallsIn
  <2> QED BY <2>2 DEF Gone
<1>10. ~Registered(r, d) /\ ~Awaits(d, r)
  <2>1. ~Registered(r, d)
    BY <1>0, <1>8 DEF WaitInv, ListsInOrder
  <2>2. CallsIn(ReleaseFramesOf(r, d)) \subseteq CallsIn(ReleaseFrames(r))
    BY DEF CallsIn, ReleaseFramesOf
  <2> QED BY <1>9, <2>1, <2>2 DEF Awaits, ToRelease
<1>11. /\ slots[r].dependents \in Seq(Ids) /\ slots'[r].dependents = Append(slots[r].dependents, d)
       /\ slots'[r].dependentCount = slots[r].dependentCount + 1
       /\ slots[r].dependentCount = Len(slots[r].dependents) /\ NoRepeats(slots[r].dependents)
  BY <1>0 DEF PoolTyped, SlotStates, WaitInv, ListsInOrder
<1>12. /\ slots'[r].dependentCount = Len(slots'[r].dependents) /\ NoRepeats(slots'[r].dependents)
       /\ \A b : Registered(r, b)' <=> Registered(r, b) \/ b = d
  <2>1. PICK q \in Seq(Ids) : q = slots[r].dependents
    BY <1>11
  <2>2. /\ Len(Append(q, d)) = Len(q) + 1 /\ NoRepeats(Append(q, d))
        /\ \A b : Named(Append(q, d), b) <=> Named(q, b) \/ b = d
    <3>1. NoRepeats(q) /\ ~Named(q, d)
      BY <1>10, <1>11, <2>1 DEF Registered
    <3> QED BY ONLY <3>1, q \in Seq(Ids), d \in Ids, AppendNames
  <2>3. /\ slots'[r].dependents = Append(q, d) /\ slots'[r].dependentCount = Len(q) + 1
        /\ slots[r].dependents = q
    BY <1>11, <2>1
  <2> HIDE DEF r
  <2> QED BY ONLY <2>2, <2>3 DEF Registered
<1>13. \A s \in Slots : s # r => slots'[s].dependents = slots[s].dependents
  OBVIOUS
<1>14. \A s \in Slots : s # r => slots'[s].dependentCount = slots[s].dependentCount
  BY SMTT(30) DEF PoolInv, PoolTyped, SlotStates
<1>15. \A s \in Slots : \A b : Registered(s, b)' <=> Registered(s, b) \/ (s = r /\ b = d)
  BY <1>12, <1>13 DEF Registered
<1> HIDE DEF r
<1>16. \A b : \A s \in Slots : Awaits(b, s)' <=> Awaits(b, s) \/ (s = r /\ b = d)
  BY <1>5, <1>15 DEF Awaits, ToRelease
<1>17. \A b : Guards(b)' = Guards(b) /\ Pushers(b)' = Pushers(b)
  BY <1>5 DEF Guards, Pushers
<1>18. \A b : b # d => Holds(b)' = Holds(b)
  BY <1>16, <1>17, HoldsKept
<1>19. r \notin Holds(d) /\ Holds(d)' = Holds(d) \cup {r} /\ Holds(d) # {} /\ Waiting(d)
  <2>1. r \notin Holds(d)
    BY <1>0, <1>10, WaitsFor
  <2>2. Holds(d)' = Holds(d) \cup {r}
    BY <1>0, <1>16, <1>17 DEF Holds
  <2>3. Holds(d) # {}
    BY <1>8, WaitsFor
  <2> QED BY <2>1, <2>2, <2>3 DEF Waiting
<1>20. WaitsCounted'
  <2>1. Pushers(d) = {}
    BY <1>19 DEF WaitInv, WaitsCounted
  <2> QED BY <1>17, <1>18, <1>19, <2>1, OneWaitMore
<1>21. \A b \in Ids : (Waiting(b)' => Waiting(b)) /\ (Busy(b)' => Busy(b))
  BY <1>5, <1>17, <1>18, <1>19 DEF Waiting, Busy
<1>22. \A s \in Slots : Gone(s)' => Gone(s)
  BY <1>5 DEF Gone, Listed
<1>23. BatchesKnown' /\ BatchesPlaced' /\ WaitersUnpushed' /\ RunnersPushed'
  BY <1>21, <1>22, KnownKept, PlacedKept, UnpushedKept, RunnersKept DEF WaitInv
<1>24. ListsInOrder'
  <2>1. SUFFICES ASSUME NEW s \in Slots
                 PROVE  /\ slots'[s].dependentCount = Len(slots'[s].dependents)
                        /\ NoRepeats(slots'[s].dependents)
                        /\ Gone(s)' => slots'[s].dependents = <<>>
                        /\ \A b \in Ids :
                             Registered(s, b)' =>
                               ~ToRegister(b, [slot |-> s, gen |-> slots[s].generation])'
    BY <1>6 DEF ListsInOrder
  <2>2. \A b \in Ids : Registered(s, b) =>
                         ~ToRegister(b, [slot |-> s, gen |-> slots[s].generation])
    BY DEF WaitInv, ListsInOrder
  <2>3. \A b \in Ids : Registered(s, b)' =>
                         ~ToRegister(b, [slot |-> s, gen |-> slots[s].generation])'
    BY <1>0, <1>7, <1>8, <1>15, <2>2
  <2>4. CASE s = r
    BY <1>9, <1>12, <1>22, <2>3, <2>4
  <2>5. CASE s # r
    BY <1>13, <1>14, <1>22, <2>3, <2>5 DEF WaitInv, ListsInOrder
  <2> QED BY <2>4, <2>5
<1>25. DependenciesTracked'
  <2>1. SUFFICES ASSUME NEW i \in DOMAIN batches, NEW j \in DOMAIN batches,
                        batches[j].id \in batches[i].deps, ~batches[j].finished,
                        batches[i].id # NoHandle
                 PROVE  \/ ToRegister(batches[i].id, batches[j].id)'
                        \/ Registered(batches[j].id.slot, batches[i].id)'
    BY DEF DependenciesTracked
  <2>2. ToRegister(batches[i].id, batches[j].id) \/ Registered(batches[j].id.slot, batches[i].id)
    BY <2>1 DEF WaitInv, DependenciesTracked
  <2>3. batches[j].id.slot \in Slots
    BY <2>1, BatchTyped, HandlesAreReal DEF WaitInv
  <2> QED BY <1>0, <1>7, <1>15, <2>2, <2>3 DEF r
<1> QED BY <1>20, <1>23, <1>24, <1>25 DEF WaitInv

\* The batch that t is about to register a dependent of has room for it.
HasRoom(t) == slots[Head(Todo(t)).slot].dependentCount < MaxDependents

LEMMA RegisterDependentWaits ==
  ASSUME PoolInv, WaitInv, NEW t \in Threads, HasRoom(t), RegisterDependent(t)
  PROVE  WaitInv'
<1> DEFINE h == Head(stack[t])
           k == Head(h.todo)
           f == Frame("addDependents", h.id, Tail(h.todo))
           g == Frame("unpin", k, <<>>)
           L == Len(stack[t])
<1>1. /\ stack[t] # <<>> /\ h.at = "register" /\ PoolTyped
      /\ UNCHANGED <<free, queue, batches, issued>>
  BY DEF RegisterDependent, At, PoolInv
<1>2. h.todo # <<>>
  BY <1>1, Innermost DEF Pinned
<1>3. /\ Id(t) = h.id /\ Todo(t) = h.todo /\ h.id \in Ids /\ k \in Ids /\ k.slot \in Slots
      /\ h.todo \in Seq(Ids) /\ Tail(h.todo) \in Seq(Ids)
  BY <1>1, <1>2, Innermost
<1>4. /\ f \in CallFrames /\ f.at = "addDependents" /\ f.id = h.id /\ f.todo = Tail(h.todo)
      /\ g \in CallFrames /\ g.at = "unpin"
  BY <1>3 DEF Frame, CallFrames, Points
<1>5. Continue(t, <<g>> \o <<f>>)
  BY <1>3 DEF RegisterDependent
<1>6. /\ Slot(k).generation = k.gen /\ Droppers(k.slot) = {} /\ ~Listed(k.slot)
  <2>3. L \in Nat /\ L >= 1 /\ h = CallAt(t, L)
    BY <1>1, Innermost
  <2>1. L \in 1 .. Len(stack[t]) /\ h = CallAt(t, L)
    BY <2>3
  <2>2. CallAt(t, L).at \in Pinned /\ Head(CallAt(t, L).todo) = k
    BY <1>1, <2>1 DEF Pinned
  <2> HIDE DEF k, L
  <2> QED BY <1>3, <2>1, <2>2, HeldByCall
<1>7. slots' =
        [s \in Slots |->
           [slots[s] EXCEPT
              !.dependentCount = IF s = k.slot THEN @ + 1 ELSE @,
              !.dependents =
                IF s = k.slot /\ slots[k.slot].dependentCount < MaxDependents
                THEN Append(@, h.id) ELSE @,
              !.dependencyCount =
                IF s = h.id.slot /\ slots[k.slot].dependentCount < MaxDependents
                THEN @ + 1 ELSE @]]
  BY <1>3 DEF RegisterDependent
<1> HIDE DEF f, g
<1>8. Restack(t, L - 1, <<g, f>>)
  BY <1>1, <1>4, <1>5, Continued2, Joined
<1>9. Roleless(g)
  BY <1>4 DEF Roleless, GuardPoints, ReleasePoints, RunPoints
<1>10. Recast(<<t, L>>, h, f, <<t, L + 1>>, g)
  BY <1>1, <1>4, <1>8, <1>9, InnermostRoles
<1>11. PICK d \in Ids : d = h.id
  BY <1>3
<1>12. PICK b \in Ids : b = k
  BY <1>3
<1>13. \A s \in Slots :
         /\ slots'[s].generation = slots[s].generation
         /\ slots'[s].remainingJobs = slots[s].remainingJobs
         /\ slots'[s].dependentCount = slots[s].dependentCount + (IF s = b.slot THEN 1 ELSE 0)
         /\ slots'[s].dependents =
              IF s = b.slot THEN Append(slots[s].dependents, d) ELSE slots[s].dependents
         /\ slots'[s].dependencyCount =
              slots[s].dependencyCount + (IF s = d.slot THEN 1 ELSE 0)
  <2>3. slots[b.slot].dependentCount < MaxDependents
    BY <1>3, <1>12 DEF HasRoom
  <2> HIDE DEF h, k
  <2>1. /\ PoolTyped /\ b.slot \in Slots /\ d \in Ids
        /\ slots[b.slot].dependentCount < MaxDependents
    BY <1>1, <1>3, <1>12, <2>3
  <2>2. slots' =
          [s \in Slots |->
             [slots[s] EXCEPT
                !.dependentCount = IF s = b.slot THEN @ + 1 ELSE @,
                !.dependents =
                  IF s = b.slot /\ slots[b.slot].dependentCount < MaxDependents
                  THEN Append(@, d) ELSE @,
                !.dependencyCount =
                  IF s = d.slot /\ slots[b.slot].dependentCount < MaxDependents
                  THEN @ + 1 ELSE @]]
    BY <1>7, <1>11, <1>12
  <2> QED BY ONLY <2>1, <2>2, RegisterFields
<1> DEFINE x == <<t, L>>
           y == <<t, L + 1>>
<1>14. Recast(x, h, f, y, g)
  BY <1>10
<1> HIDE DEF h, k, x, y
<1>15. /\ h.at = "register" /\ h.todo \in Seq(Ids) /\ h.todo # <<>>
       /\ f.at = "addDependents" /\ f.id = h.id /\ f.todo = Tail(h.todo)
       /\ d = h.id /\ b = Head(h.todo)
       /\ Slot(b).generation = b.gen /\ Droppers(b.slot) = {} /\ ~Listed(b.slot)
       /\ UNCHANGED <<free, queue, batches, issued>>
  BY <1>1, <1>2, <1>3, <1>4, <1>6, <1>11, <1>12 DEF k
<1> QED BY ONLY PoolInv, WaitInv, d \in Ids, b \in Ids, <1>9, <1>13, <1>14, <1>15, RegisteredOne

\* There is room before, when no count is beyond the room afterwards.
LEMMA RoomWhenFits ==
  ASSUME PoolInv, NEW t \in Threads, RegisterDependent(t), DependentsFit'
  PROVE  HasRoom(t)
<1> DEFINE h == Head(stack[t])
           r == Head(h.todo).slot
<1>1. /\ stack[t] # <<>> /\ h.at = "register" /\ h.todo # <<>> /\ Todo(t) = h.todo /\ r \in Slots
      /\ slots[r] \in SlotStates
  BY Innermost DEF RegisterDependent, At, Pinned, PoolInv, PoolTyped
<1> DEFINE room == slots[r].dependentCount < MaxDependents
<1>2. slots' =
        [s \in Slots |->
           [slots[s] EXCEPT
              !.dependentCount = IF s = r THEN @ + 1 ELSE @,
              !.dependents = IF s = r /\ room THEN Append(@, Id(t)) ELSE @,
              !.dependencyCount = IF s = Id(t).slot /\ room THEN @ + 1 ELSE @]]
  BY <1>1 DEF RegisterDependent
<1> HIDE DEF room, r
<1>3. \E p, n : slots'[r] =
        [slots[r] EXCEPT !.dependentCount = slots[r].dependentCount + 1,
                         !.dependents = p, !.dependencyCount = n]
  BY <1>1, <1>2
<1>4. slots'[r].dependentCount = slots[r].dependentCount + 1
  <2>1. PICK e \in SlotStates : e = slots[r]
    BY <1>1
  <2>2. PICK p, n : slots'[r] = [e EXCEPT !.dependentCount = e.dependentCount + 1,
                                          !.dependents = p, !.dependencyCount = n]
    BY <1>3, <2>1
  <2>3. slots'[r].dependentCount = e.dependentCount + 1
    BY ONLY <2>2, e \in SlotStates DEF SlotStates
  <2> QED BY <2>1, <2>3
<1>5. slots[r].dependentCount \in Int /\ slots'[r].dependentCount <= MaxDependents
  BY <1>1 DEF SlotStates, DependentsFit
<1>6. MaxDependents \in Nat
  BY PoolAssumption
<1> QED BY <1>1, <1>4, <1>5, <1>6, SMTT(30) DEF HasRoom, r

----------------------------------------------------------------------------
(* submitToMainQueue and the life of a job *)

\* What is recorded of the batch h is known of it alone.
LEMMA RecordKeeps ==
  ASSUME BatchesKnown, NEW h \in Ids, NEW field \in {"pushes", "finished"}, NEW v,
         field = "pushes" => v \in {0, 1}, field = "finished" => v \in BOOLEAN,
         Record(h, field, v), issued' = issued
  PROVE  /\ BatchesKnown' /\ DOMAIN batches' = DOMAIN batches
         /\ \A i \in DOMAIN batches :
              /\ batches'[i].id = batches[i].id /\ batches'[i].deps = batches[i].deps
              /\ field = "pushes" =>
                   /\ batches'[i].finished = batches[i].finished
                   /\ batches'[i].pushes = IF batches[i].id = h THEN v ELSE batches[i].pushes
              /\ field = "finished" =>
                   /\ batches'[i].pushes = batches[i].pushes
                   /\ batches'[i].finished = IF batches[i].id = h THEN v ELSE batches[i].finished
<1>1. /\ batches \in Seq(BatchStates) /\ Len(batches) \in Nat
      /\ DOMAIN batches = 1 .. Len(batches) /\ \A i \in DOMAIN batches : batches[i] \in BatchStates
  BY LenProperties DEF BatchesKnown
<1>2. batches' = [i \in DOMAIN batches |->
                    IF batches[i].id = h THEN [batches[i] EXCEPT ![field] = v] ELSE batches[i]]
  BY DEF Record
<1>3. ASSUME NEW i \in DOMAIN batches
      PROVE  /\ batches'[i] \in BatchStates
             /\ batches'[i].id = batches[i].id /\ batches'[i].deps = batches[i].deps
             /\ field = "pushes" =>
                  /\ batches'[i].finished = batches[i].finished
                  /\ batches'[i].pushes = IF batches[i].id = h THEN v ELSE batches[i].pushes
             /\ field = "finished" =>
                  /\ batches'[i].pushes = batches[i].pushes
                  /\ batches'[i].finished = IF batches[i].id = h THEN v ELSE batches[i].finished
  <2>1. CASE batches[i].id = h
    <3>1. PICK e \in BatchStates : e = batches[i]
      BY <1>1
    <3>2. PICK w : w = [e EXCEPT ![field] = v]
      OBVIOUS
    <3>3. batches'[i] = w
      BY <1>2, <2>1, <3>1, <3>2
    <3>4. /\ field \in {"pushes", "finished"} /\ e \in BatchStates
          /\ field = "pushes" => v \in Nat
          /\ field = "finished" => v \in BOOLEAN
      OBVIOUS
    <3>5. /\ w \in BatchStates /\ w.id = e.id /\ w.deps = e.deps
          /\ field = "pushes" => w.pushes = v /\ w.finished = e.finished
          /\ field = "finished" => w.finished = v /\ w.pushes = e.pushes
      BY ONLY <3>2, <3>4 DEF BatchStates
    <3> QED BY <2>1, <3>1, <3>3, <3>5
  <2>2. CASE batches[i].id # h
    BY <1>1, <1>2, <2>2
  <2> QED BY <2>1, <2>2
<1>4. DOMAIN batches' = DOMAIN batches /\ batches' \in Seq(BatchStates)
  <2>1. DOMAIN batches' = DOMAIN batches
    BY <1>2
  <2>2. batches' \in [1 .. Len(batches) -> BatchStates]
    BY <1>1, <1>2, <1>3
  <2> QED BY <1>1, <2>1, <2>2
<1>5. h # NoHandle
  BY HandlesAreReal
<1>6. BatchesKnown'
  <2>1. \A i, k \in DOMAIN batches : batches[i].id = batches[k].id /\ batches[i].id # NoHandle => i = k
    BY DEF BatchesKnown
  <2>2. \A b \in issued : \E i \in DOMAIN batches : batches[i].id = b
    BY DEF BatchesKnown
  <2>3. \A i \in DOMAIN batches :
          /\ batches[i].deps \subseteq issued /\ batches[i].pushes \in {0, 1}
          /\ batches[i].id = NoHandle => batches[i].finished /\ batches[i].pushes = 0
    BY DEF BatchesKnown
  <2>4. \A b \in issued' : \E i \in DOMAIN batches' : batches'[i].id = b
    BY <1>3, <1>4, <2>2
  <2>5. \A i, k \in DOMAIN batches' :
          batches'[i].id = batches'[k].id /\ batches'[i].id # NoHandle => i = k
    BY <1>3, <1>4, <2>1
  <2>6. \A i \in DOMAIN batches' :
          /\ batches'[i].deps \subseteq issued' /\ batches'[i].pushes \in {0, 1}
          /\ batches'[i].id = NoHandle => batches'[i].finished /\ batches'[i].pushes = 0
    BY <1>3, <1>4, <1>5, <2>3
  <2> QED BY <1>4, <2>4, <2>5, <2>6 DEF BatchesKnown
<1> QED BY <1>3, <1>4, <1>6

\* The batch is pushed, or finds the queue full and is lost.
LEMMA PushWaits == ASSUME PoolInv, WaitInv, NEW t \in Threads, Push(t) PROVE WaitInv'
<1> DEFINE h == Head(stack[t])
           z == Frame("unpin", Id(t), <<>>)
           x == <<t, Len(stack[t])>>
           y == <<t, Len(stack[t]) + 1>>
           room == Cardinality(queue) < QueueSize
<1>1. /\ stack[t] # <<>> /\ h.at = "push" /\ PoolTyped /\ Continue(t, <<>>)
      /\ UNCHANGED <<slots, free, issued>>
  BY DEF Push, At, PoolInv
<1>2. /\ Id(t) = h.id /\ h \in CallFrames /\ h.id \in Ids
      /\ z \in CallFrames /\ z.at = "unpin"
  <2>1. Id(t) = h.id /\ h \in CallFrames /\ h.id \in Ids
    BY <1>1, Innermost
  <2> QED BY <2>1 DEF Frame, CallFrames, Points
<1> HIDE DEF z
<1>3. Restack(t, Len(stack[t]) - 1, <<>>)
  BY <1>1, Continued0
<1>4. Roleless(z)
  BY <1>2 DEF Roleless, GuardPoints, ReleasePoints, RunPoints
<1>5. Recast(x, h, z, y, z)
  BY <1>1, <1>2, <1>3, <1>4, InnermostRoles
<1>6. PICK d \in Ids : d = h.id
  BY <1>2
<1>7. /\ room => queue' = queue \cup {d} /\ Record(d, "pushes", Pushes(d) + 1)
      /\ ~room => queue' = queue /\ batches' = batches
  BY <1>2, <1>6 DEF Push
<1> HIDE DEF h, x, y, room
<1>8. \A F : Coarse(F) => /\ x \in CallsIn(F) <=> h \in F
                          /\ CallsIn(F)' = CallsIn(F) \ {x}
                          /\ h \notin F => CallsIn(F)' = CallsIn(F)
  <2>1. \A F : Coarse(F) => z \notin F
    BY <1>4, <1>5 DEF Recast, Coarse
  <2> QED BY <1>4, <1>5, <2>1, RecastSets
<1>9. /\ \A b : /\ CallsIn(GuardFrames(b))' = CallsIn(GuardFrames(b))
                /\ CallsIn(RunFrames(b))' = CallsIn(RunFrames(b))
      /\ \A b, k : CallsIn(GuardFramesOf(b, k))' = CallsIn(GuardFramesOf(b, k))
      /\ \A s : /\ CallsIn(ReleaseFrames(s))' = CallsIn(ReleaseFrames(s))
                /\ \A b : CallsIn(ReleaseFramesOf(s, b))' = CallsIn(ReleaseFramesOf(s, b))
      /\ CallsIn(UntidyFrames)' = CallsIn(UntidyFrames)
  <2>1. h.at \notin GuardPoints /\ h.at \notin RunPoints /\ h.at \notin ReleasePoints
    BY <1>1 DEF GuardPoints, RunPoints, ReleasePoints
  <2>2. /\ \A b : h \notin GuardFrames(b) /\ h \notin RunFrames(b)
        /\ \A b, k : h \notin GuardFramesOf(b, k)
        /\ \A s : h \notin ReleaseFrames(s) /\ \A b : h \notin ReleaseFramesOf(s, b)
        /\ h \notin UntidyFrames
    BY <1>2, <2>1, OnePart
  <2> QED BY <1>8, <2>2, RolesAreCoarse
<1>10. \A b : b # d => Pushers(b)' = Pushers(b)
  <2>1. \A b : b # d => h \notin PushFrames(b)
    BY <1>6 DEF PushFrames
  <2> QED BY <1>8, <2>1, RolesAreCoarse DEF Pushers
<1>11. x \in Pushers(d) /\ Pushers(d)' = {} /\ Holds(d) = {} /\ Waiting(d)
  <2>1. h \in PushFrames(d)
    BY <1>1, <1>2, <1>6 DEF PushFrames
  <2>2. x \in Pushers(d) /\ Pushers(d)' = Pushers(d) \ {x}
    BY <1>8, <2>1, RolesAreCoarse DEF Pushers
  <2> QED BY <2>2 DEF Waiting, WaitInv, WaitsCounted
<1>12. \A b : Guards(b)' = Guards(b) /\ \A s \in Slots : Awaits(b, s)' <=> Awaits(b, s)
  BY <1>1, <1>9 DEF Guards, Awaits, ToRelease, Registered
<1>13. \A b : Holds(b)' = Holds(b)
  BY <1>12, HoldsKept
<1>14. Unpushed(d)
  BY <1>11 DEF WaitInv, WaitersUnpushed
<1>15. PICK j \in DOMAIN batches : /\ batches[j].id = d /\ batches[j].pushes = 0
                                   /\ \A i \in DOMAIN batches : batches[i].id = d => i = j
  <2>1. d # NoHandle
    BY HandlesAreReal
  <2> QED BY <1>14, <2>1 DEF Unpushed, WaitInv, BatchesKnown
<1>16. Pushes(d) = 0
  BY <1>15 DEF Pushes
<1>17. /\ BatchesKnown' /\ DOMAIN batches' = DOMAIN batches
       /\ \A i \in DOMAIN batches :
            /\ batches'[i].id = batches[i].id /\ batches'[i].deps = batches[i].deps
            /\ batches'[i].finished = batches[i].finished
            /\ batches[i].id # d => batches'[i].pushes = batches[i].pushes
            /\ batches[i].id = d /\ room => batches'[i].pushes = 1
  <2>1. CASE room
    <3>1. Record(d, "pushes", 1) /\ BatchesKnown /\ issued' = issued
      BY <1>1, <1>7, <1>16, <2>1 DEF WaitInv
    <3> QED BY <2>1, <3>1, RecordKeeps
  <2>2. CASE ~room
    BY <1>1, <1>7, <2>2, KnownKept DEF WaitInv
  <2> QED BY <2>1, <2>2
<1>18. \A s : Gone(s)' <=> Gone(s)
  BY <1>1, <1>9 DEF Gone, Listed
<1>19. BatchesPlaced'
  BY <1>1, <1>17, <1>18 DEF WaitInv, BatchesPlaced, Live, Slot
<1>20. WaitersUnpushed'
  <2>1. SUFFICES ASSUME NEW b \in Ids, Waiting(b)'
                 PROVE  Unpushed(b)'
    BY DEF WaitersUnpushed
  <2>2. b # d /\ Waiting(b)
    BY <1>10, <1>11, <1>13, <2>1 DEF Waiting
  <2>3. Unpushed(b)
    BY <2>2 DEF WaitInv, WaitersUnpushed
  <2> QED BY <1>17, <2>2, <2>3 DEF Unpushed
<1>21. RunnersPushed'
  <2>1. SUFFICES ASSUME NEW b \in Ids, Busy(b)'
                 PROVE  Pushed(b)'
    BY DEF RunnersPushed
  <2>2. Busy(b) \/ (b = d /\ room)
    BY <1>7, <1>9, <2>1 DEF Busy
  <2>3. CASE b = d /\ room
    BY <1>15, <1>17, <2>3 DEF Pushed
  <2>4. CASE Busy(b)
    <3>1. Pushed(b)
      BY <2>4 DEF WaitInv, RunnersPushed
    <3>2. b # d
      BY <1>14, <3>1, PushedOrNot DEF WaitInv
    <3> QED BY <1>17, <3>1, <3>2 DEF Pushed
  <2> QED BY <2>2, <2>3, <2>4
<1>22. WaitsCounted'
  <2>1. \A b \in Ids : /\ Holds(b)' = Holds(b)
                       /\ Pushers(b)' \subseteq Pushers(b) /\ Guards(b)' \subseteq Guards(b)
    BY <1>10, <1>11, <1>12, <1>13
  <2> QED BY <1>1, <2>1, CountsKept DEF WaitInv
<1>23. \A b, k : ToRegister(b, k)' <=> ToRegister(b, k)
  BY <1>9 DEF ToRegister
<1>24. ListsInOrder'
  <2>1. CallsIn(UntidyFrames)' = {}
    BY <1>9 DEF WaitInv, ListsInOrder
  <2> QED BY <1>1, <1>18, <1>23, <2>1, OrderKept DEF WaitInv
<1>25. DependenciesTracked'
  BY <1>1, <1>17, <1>23 DEF WaitInv, DependenciesTracked, Registered
<1> QED BY <1>17, <1>19, <1>20, <1>21, <1>22, <1>24, <1>25 DEF WaitInv

LEMMA StartJobWaits == ASSUME PoolInv, WaitInv, NEW t \in Threads, StartJob(t) PROVE WaitInv'
<1>1. /\ stack[t] = <<>> /\ PoolTyped /\ UNCHANGED <<free, batches, issued>>
  BY DEF StartJob, PoolInv
<1>2. PICK d \in queue :
        /\ Set(d.slot, "toStart", Slot(d).toStart - 1)
        /\ queue' = IF Slot(d).toStart = 1 THEN queue \ {d} ELSE queue
        /\ stack' = [stack EXCEPT ![t] = <<Frame("job", d, <<>>)>>]
  BY DEF StartJob
<1>3. d \in Ids /\ d.slot \in Slots
  BY <1>1 DEF PoolTyped, Ids
<1> DEFINE f == Frame("job", d, <<>>)
           z == Frame("unpin", d, <<>>)
           x == <<Main, 0>>
           y == <<t, Len(stack[t]) + 1>>
<1>4. f \in CallFrames /\ f.at = "job" /\ f.id = d /\ z \in CallFrames /\ z.at = "unpin"
  BY <1>3 DEF Frame, CallFrames, Points
<1>5. stack' = [stack EXCEPT ![t] = <<f>> \o @]
  <2>1. stack[t] \in Seq(CallFrames) /\ <<f>> \in Seq(CallFrames)
    BY <1>1, <1>4 DEF PoolTyped
  <2>2. <<f>> \o stack[t] = <<f>>
    BY <1>1, <2>1, ConcatEmptySeq
  <2> QED BY <1>1, <1>2, <2>2
<1> HIDE DEF f, z
<1>6. Restack(t, Len(stack[t]), <<f>>)
  BY <1>1, <1>4, <1>5, Called
<1>7. Roleless(z)
  BY <1>4 DEF Roleless, GuardPoints, ReleasePoints, RunPoints
<1>8. Recast(x, z, z, y, f)
  BY <1>4, <1>6, <1>7, CalledRoles
<1> HIDE DEF x, y
<1>9. \A F : Coarse(F) => /\ CallsIn(F)' = CallsIn(F) \cup Where(y, f, F)
                          /\ f \notin F => CallsIn(F)' = CallsIn(F)
  <2>1. \A F : Coarse(F) => /\ z \notin F /\ x \notin CallsIn(F)
                            /\ CallsIn(F)' = (CallsIn(F) \ {x}) \cup Where(x, z, F)
                                               \cup Where(y, f, F)
    BY <1>7, <1>8 DEF Recast, Coarse
  <2> QED BY <2>1 DEF Where
<1>10. f.at \notin GuardPoints /\ f.at \notin ReleasePoints
  BY <1>4 DEF GuardPoints, ReleasePoints
<1>11. WaitsKept /\ \A s : CallsIn(ReleaseFrames(s))' = CallsIn(ReleaseFrames(s))
  <2>1. /\ \A b : f \notin GuardFrames(b) /\ f \notin PushFrames(b)
        /\ \A b, k : f \notin GuardFramesOf(b, k)
        /\ \A s : f \notin ReleaseFrames(s) /\ \A b : f \notin ReleaseFramesOf(s, b)
        /\ f \notin UntidyFrames
    BY <1>4, <1>10, OnePart
  <2> QED BY <1>9, <2>1, RolesAreCoarse DEF WaitsKept
<1>12. \A b \in Ids : Busy(b)' => Busy(b)
  <2>1. \A b : b # d => f \notin RunFrames(b)
    BY <1>4 DEF RunFrames
  <2>2. \A b : b # d => CallsIn(RunFrames(b))' = CallsIn(RunFrames(b))
    BY <1>9, <2>1, RolesAreCoarse
  <2>3. queue' \subseteq queue
    BY <1>2
  <2> QED BY <1>2, <2>2, <2>3 DEF Busy
<1>13. \A s \in Slots : Gone(s)' => Gone(s)
  BY <1>1, <1>11 DEF Gone, Listed
<1>14. CountsAndListsKept /\ \A s \in Slots : slots'[s].remainingJobs = slots[s].remainingJobs
  BY <1>1, <1>2, <1>3, SetKeeps
<1> QED BY <1>1, <1>11, <1>12, <1>13, <1>14, WaitsKeep

\* A call that plays no part any longer, in a step that changes no part but its own.
LEMMA RunnerLeaves ==
  ASSUME WaitInv, NEW x, NEW h, NEW f, NEW y, NEW g, Recast(x, h, f, y, g), Roleless(f),
         Roleless(g), h.at \in RunPoints, CountsAndListsKept,
         UNCHANGED <<free, queue, batches, issued>>,
         \A s \in Slots : slots[s].remainingJobs > 0 => slots'[s].remainingJobs > 0
  PROVE  WaitInv'
<1>1. WaitsKept /\ \A F : Coarse(F) => CallsIn(F)' = CallsIn(F) \ {x}
  BY PartEnds DEF RunPoints, GuardPoints, ReleasePoints
<1>2. \A s \in Slots : Gone(s)' => Gone(s)
  BY <1>1, RolesAreCoarse DEF Gone, Listed
<1>3. \A b \in Ids : Busy(b)' => Busy(b)
  BY <1>1, RolesAreCoarse DEF Busy
<1> QED BY <1>1, <1>2, <1>3, WaitsKeep

LEMMA FinishJobWaits == ASSUME PoolInv, WaitInv, NEW t \in Threads, FinishJob(t) PROVE WaitInv'
<1> DEFINE h == Head(stack[t])
           f == Frame("signal", Id(t), <<>>)
           z == Frame("unpin", Id(t), <<>>)
           x == <<t, Len(stack[t])>>
           y == <<t, Len(stack[t]) + 1>>
<1>1. /\ stack[t] # <<>> /\ h.at = "job" /\ PoolTyped /\ UNCHANGED <<free, queue, batches, issued>>
  BY DEF FinishJob, At, PoolInv
<1>2. Id(t) = h.id /\ h \in CallFrames /\ h.id \in Ids /\ h.id.slot \in Slots
  BY <1>1, Innermost
<1>3. /\ f \in CallFrames /\ f.at = "signal" /\ f.id = h.id
      /\ z \in CallFrames /\ z.at = "unpin"
  BY <1>2 DEF Frame, CallFrames, Points
<1>4. \/ Continue(t, <<f>>) /\ Set(Id(t).slot, "refCount", Slot(Id(t)).refCount + 1)
      \/ Continue(t, <<>>) /\ slots' = slots
  BY DEF FinishJob
<1> HIDE DEF f, z
<1>5. Roleless(z) /\ SameRole(h, f)
  BY <1>1, <1>3 DEF Roleless, SameRole, GuardPoints, ReleasePoints, RunPoints
<1>6. CASE Continue(t, <<f>>) /\ Set(Id(t).slot, "refCount", Slot(Id(t)).refCount + 1)
  <2>1. Restack(t, Len(stack[t]) - 1, <<f>>)
    BY <1>1, <1>3, <1>6, Continued1
  <2>2. CountsAndListsKept /\ \A s \in Slots : slots'[s].remainingJobs = slots[s].remainingJobs
    BY <1>1, <1>2, <1>6, SetKeeps
  <2> QED BY <1>1, <1>3, <1>5, <2>1, <2>2, AlikeWaits DEF Alike
<1>7. CASE Continue(t, <<>>) /\ slots' = slots
  <2>1. Restack(t, Len(stack[t]) - 1, <<>>)
    BY <1>1, <1>7, Continued0
  <2>2. Recast(x, h, z, y, z)
    BY <1>1, <1>3, <1>5, <2>1, InnermostRoles
  <2> HIDE DEF h, x, y
  <2> QED BY <1>1, <1>5, <1>7, <2>2, RunnerLeaves, SlotsKeptKeep DEF RunPoints
<1> QED BY <1>4, <1>6, <1>7

\* The last job of the batch d is done.
LEMMA BatchFinished ==
  ASSUME PoolInv, WaitInv, NEW x, NEW h, NEW f, NEW y, NEW g, Recast(x, h, f, y, g), Roleless(f),
         Roleless(g), h.at = "signal", NEW d \in Ids, h.id = d,
         Slot(d).generation = d.gen, Set(d.slot, "remainingJobs", 0),
         Record(d, "finished", TRUE), UNCHANGED <<free, queue, issued>>
  PROVE  WaitInv'
<1>0. d.slot \in Slots /\ PoolTyped
  BY HandlesAreReal DEF PoolInv
<1>1. WaitsKept /\ \A F : Coarse(F) => CallsIn(F)' = CallsIn(F) \ {x}
  BY PartEnds DEF GuardPoints, ReleasePoints
<1>2. \A s \in Slots : Gone(s)' => Gone(s)
  BY <1>1, RolesAreCoarse DEF Gone, Listed
<1>3. \A b \in Ids : Busy(b)' => Busy(b)
  BY <1>1, RolesAreCoarse DEF Busy
<1>4. CountsAndListsKept /\ \A s \in Slots : s # d.slot => slots'[s] = slots[s]
  BY <1>0, SetKeeps
<1>5. /\ BatchesKnown' /\ DOMAIN batches' = DOMAIN batches
      /\ \A i \in DOMAIN batches :
           /\ batches'[i].id = batches[i].id /\ batches'[i].deps = batches[i].deps
           /\ batches'[i].pushes = batches[i].pushes
           /\ batches[i].id = d => batches'[i].finished
           /\ batches[i].id # d => batches'[i].finished = batches[i].finished
  <2>1. PICK v \in BOOLEAN : v = TRUE
    OBVIOUS
  <2>2. Record(d, "finished", v) /\ BatchesKnown /\ issued' = issued
    BY <2>1 DEF WaitInv
  <2>3. /\ BatchesKnown' /\ DOMAIN batches' = DOMAIN batches
        /\ \A i \in DOMAIN batches :
             /\ batches'[i].id = batches[i].id /\ batches'[i].deps = batches[i].deps
             /\ batches'[i].pushes = batches[i].pushes
             /\ batches'[i].finished = IF batches[i].id = d THEN v ELSE batches[i].finished
    BY <2>2, RecordKeeps
  <2> QED BY <2>1, <2>3
<1>6. Pushed(d)
  <2>1. h \in CallFrames /\ h \in RunFrames(d)
    BY DEF Recast, RunFrames, RunPoints
  <2>2. Busy(d)
    BY <2>1, PlaysPart, RolesAreCoarse DEF Busy
  <2> QED BY <2>2 DEF WaitInv, RunnersPushed
<1>7. BatchesPlaced'
  <2>1. SUFFICES ASSUME NEW i \in DOMAIN batches, batches[i].id # NoHandle
                 PROVE  LET b == batches[i].id IN
                        /\ b.gen <= slots'[b.slot].generation
                        /\ Gone(b.slot)' => b.gen < slots'[b.slot].generation
                        /\ batches'[i].finished \/ ( /\ slots'[b.slot].generation = b.gen
                                                     /\ slots'[b.slot].remainingJobs > 0)
    BY <1>5 DEF BatchesPlaced, Slot, Live
  <2>2. /\ batches[i].id.slot \in Slots /\ batches[i].id \in Ids
        /\ batches[i].finished \/ Live(batches[i].id)
        /\ batches[i].id.gen <= Slot(batches[i].id).generation
        /\ Gone(batches[i].id.slot) => batches[i].id.gen < Slot(batches[i].id).generation
    BY <2>1, BatchTyped DEF WaitInv, BatchesPlaced
  <2>3. batches'[i].finished \/ batches[i].id.slot # d.slot
    <3>1. SUFFICES ASSUME Live(batches[i].id), batches[i].id.slot = d.slot
                   PROVE  batches[i].id = d
      BY <1>5, <2>2
    <3> QED BY <2>2, <3>1 DEF Live, Slot, Ids
  <2> QED BY <1>2, <1>4, <1>5, <2>2, <2>3 DEF CountsAndListsKept, Slot, Live
<1>8. \A b : Guards(b)' = Guards(b) /\ Pushers(b)' = Pushers(b)
  BY <1>1 DEF Guards, Pushers, WaitsKept
<1>9. \A b : \A s \in Slots : Awaits(b, s)' <=> Awaits(b, s)
  BY <1>1, <1>4 DEF Awaits, Registered, ToRelease, WaitsKept, CountsAndListsKept
<1>10. \A b : Holds(b)' = Holds(b)
  BY <1>8, <1>9, HoldsKept
<1>11. WaitersUnpushed'
  <2>1. SUFFICES ASSUME NEW b \in Ids, Waiting(b)'
                 PROVE  Unpushed(b)'
    BY DEF WaitersUnpushed
  <2>2. Unpushed(b)
    BY <1>8, <1>10, <2>1 DEF Waiting, WaitInv, WaitersUnpushed
  <2>3. b # d
    BY <1>6, <2>2, PushedOrNot DEF WaitInv
  <2> QED BY <1>5, <2>2, <2>3 DEF Unpushed
<1>12. RunnersPushed'
  <2>1. SUFFICES ASSUME NEW b \in Ids, Busy(b)'
                 PROVE  Pushed(b)'
    BY DEF RunnersPushed
  <2>2. Pushed(b)
    BY <1>3, <2>1 DEF WaitInv, RunnersPushed
  <2> QED BY <1>5, <2>2 DEF Pushed
<1>13. WaitsCounted'
  BY <1>4, <1>8, <1>10, CountsKept DEF WaitInv, CountsAndListsKept
<1>14. \A b, k : ToRegister(b, k)' <=> ToRegister(b, k)
  BY <1>1 DEF ToRegister, WaitsKept
<1>15. ListsInOrder'
  <2>1. CallsIn(UntidyFrames)' = {}
    BY <1>1 DEF WaitInv, ListsInOrder, WaitsKept
  <2> QED BY <1>2, <1>4, <1>14, <2>1, OrderKept DEF WaitInv, CountsAndListsKept
<1>16. DependenciesTracked'
  <2>1. SUFFICES ASSUME NEW i \in DOMAIN batches, NEW k \in DOMAIN batches,
                        batches[k].id \in batches[i].deps, ~batches'[k].finished,
                        batches[i].id # NoHandle
                 PROVE  \/ ToRegister(batches[i].id, batches[k].id)'
                        \/ Registered(batches[k].id.slot, batches[i].id)'
    BY <1>5 DEF DependenciesTracked
  <2>2. batches[k].id.slot \in Slots /\ ~batches[k].finished
    BY <1>5, <2>1, BatchTyped, HandlesAreReal DEF WaitInv
  <2>3. ToRegister(batches[i].id, batches[k].id) \/ Registered(batches[k].id.slot, batches[i].id)
    BY <2>1, <2>2 DEF WaitInv, DependenciesTracked
  <2>4. slots'[batches[k].id.slot].dependents = slots[batches[k].id.slot].dependents
    BY <1>4, <2>2 DEF CountsAndListsKept
  <2>5. PICK a, b : a = batches[i].id /\ b = batches[k].id
    OBVIOUS
  <2>6. ToRegister(a, b)' \/ Registered(b.slot, a)'
    BY <1>14, <2>3, <2>4, <2>5 DEF Registered
  <2> QED BY <1>5, <2>5, <2>6
<1> QED BY <1>5, <1>7, <1>11, <1>12, <1>13, <1>15, <1>16 DEF WaitInv

LEMMA SignalCompleteWaits ==
  ASSUME PoolInv, WaitInv, NEW t \in Threads, SignalComplete(t) PROVE WaitInv'
<1> DEFINE h == Head(stack[t])
           f == Frame("complete", Id(t), <<>>)
           g == Frame("unpin", Id(t), <<>>)
           L == Len(stack[t])
           x == <<t, L>>
           y == <<t, L + 1>>
<1>1. /\ stack[t] # <<>> /\ h.at = "signal" /\ PoolTyped /\ UNCHANGED <<free, queue, issued>>
  BY DEF SignalComplete, At, PoolInv
<1>2. PICK d \in Ids : d = h.id
  BY <1>1, Innermost
<1>3. Id(t) = d /\ h \in CallFrames /\ d.slot \in Slots
  BY <1>1, <1>2, Innermost
<1> DEFINE n == slots[d.slot].remainingJobs - 1
<1>4. /\ Set(d.slot, "remainingJobs", n)
      /\ Continue(t, <<g>> \o (IF n = 0 THEN <<f>> ELSE <<>>))
      /\ IF n = 0 THEN Record(d, "finished", TRUE) ELSE UNCHANGED batches
  BY <1>3 DEF SignalComplete, Slot
<1>5. /\ f \in CallFrames /\ f.at = "complete" /\ g \in CallFrames /\ g.at = "unpin"
  BY <1>3 DEF Frame, CallFrames, Points
<1>6. Slot(d).generation = d.gen
  <2>1. L \in Nat /\ L >= 1 /\ h = CallAt(t, L)
    BY <1>1, Innermost
  <2>2. L \in 1 .. Len(stack[t])
    BY <2>1
  <2>3. CallAt(t, L).at = "signal" /\ CallAt(t, L).id = d
    BY <1>1, <1>2, <2>1
  <2> HIDE DEF L
  <2> QED BY <2>2, <2>3, HeldByCall
<1>7. slots[d.slot].remainingJobs \in Int
  BY <1>1, <1>3 DEF PoolTyped, SlotStates
<1> HIDE DEF f, g
<1>8. <<g>> \o <<f>> = <<g, f>> /\ <<g>> \o <<>> = <<g>>
  BY <1>5, Joined
<1>9. Roleless(f) /\ Roleless(g)
  BY <1>5 DEF Roleless, GuardPoints, ReleasePoints, RunPoints
<1>10. CASE n = 0
  <2>1. Restack(t, L - 1, <<g, f>>)
    BY <1>1, <1>4, <1>5, <1>8, <1>10, Continued2
  <2>2. Recast(x, h, f, y, g)
    BY <1>1, <1>5, <1>9, <2>1, InnermostRoles
  <2>3. Set(d.slot, "remainingJobs", 0) /\ Record(d, "finished", TRUE)
    BY <1>4, <1>10
  <2> HIDE DEF h, x, y, L
  <2> QED BY <1>1, <1>2, <1>6, <1>9, <2>2, <2>3, BatchFinished
<1>11. CASE n # 0
  <2>1. Restack(t, L - 1, <<g>>)
    BY <1>1, <1>4, <1>5, <1>8, <1>11, Continued1
  <2>2. Recast(x, h, g, y, g)
    BY <1>1, <1>5, <1>9, <2>1, InnermostRoles
  <2>3. /\ CountsAndListsKept /\ slots'[d.slot].remainingJobs = n
        /\ \A s \in Slots : s # d.slot => slots'[s] = slots[s]
    BY <1>1, <1>3, <1>4, SetKeeps
  <2>4. slots[d.slot].remainingJobs > 0 => n > 0
    BY <1>7, <1>11
  <2> HIDE DEF n
  <2>5. \A s \in Slots : slots[s].remainingJobs > 0 => slots'[s].remainingJobs > 0
    BY <2>3, <2>4
  <2>6. batches' = batches
    BY <1>4, <1>11
  <2>7. h.at \in RunPoints
    BY <1>1 DEF RunPoints
  <2> HIDE DEF h, x, y, L
  <2> QED BY <1>1, <1>9, <2>2, <2>3, <2>5, <2>6, <2>7, RunnerLeaves
<1> QED BY <1>10, <1>11

----------------------------------------------------------------------------
(* A submission adds a batch to the history *)

LEMMA Appended ==
  ASSUME BatchesKnown, NEW b \in BatchStates, batches' = Append(batches, b)
  PROVE  LET n == Len(batches) + 1
         IN /\ batches' \in Seq(BatchStates) /\ n \in DOMAIN batches' /\ batches'[n] = b
            /\ n \notin DOMAIN batches
            /\ \A i \in DOMAIN batches : i \in DOMAIN batches' /\ batches'[i] = batches[i]
            /\ \A i \in DOMAIN batches' : i \in DOMAIN batches \/ i = n
<1>1. batches \in Seq(BatchStates)
  BY DEF BatchesKnown
<1>2. PICK q \in Seq(BatchStates) : q = batches
  BY <1>1
<1>3. PICK v : v = Append(q, b)
  OBVIOUS
<1>4. /\ Len(q) \in Nat /\ DOMAIN q = 1 .. Len(q) /\ v \in Seq(BatchStates)
      /\ Len(v) = Len(q) + 1 /\ v[Len(q) + 1] = b
      /\ \A i \in 1 .. Len(q) : v[i] = q[i]
  BY <1>3, AppendProperties, LenProperties
<1>5. DOMAIN v = 1 .. Len(q) + 1
  BY <1>4, LenProperties
<1>6. /\ Len(q) + 1 \in DOMAIN v /\ Len(q) + 1 \notin DOMAIN q
      /\ \A i \in DOMAIN q : i \in DOMAIN v /\ v[i] = q[i]
      /\ \A i \in DOMAIN v : i \in DOMAIN q \/ i = Len(q) + 1
  BY <1>4, <1>5
<1> QED BY <1>2, <1>3, <1>4, <1>6

LEMMA AppendKnown ==
  ASSUME BatchesKnown, NEW b \in BatchStates, batches' = Append(batches, b),
         b.deps \subseteq issued, b.pushes = 0,
         \/ b.id = NoHandle /\ b.finished /\ issued' = issued
         \/ /\ b.id # NoHandle /\ issued' = issued \cup {b.id}
            /\ \A i \in DOMAIN batches : batches[i].id # b.id
  PROVE  BatchesKnown'
<1> DEFINE n == Len(batches) + 1
<1>1. /\ batches' \in Seq(BatchStates) /\ n \in DOMAIN batches' /\ batches'[n] = b
      /\ n \notin DOMAIN batches
      /\ \A i \in DOMAIN batches : i \in DOMAIN batches' /\ batches'[i] = batches[i]
      /\ \A i \in DOMAIN batches' : i \in DOMAIN batches \/ i = n
  BY Appended
<1> HIDE DEF n
<1>2. issued \subseteq issued' /\ \A h \in issued' : h \in issued \/ (h = b.id /\ b.id # NoHandle)
  OBVIOUS
<1>3. \A i, k \in DOMAIN batches' :
        batches'[i].id = batches'[k].id /\ batches'[i].id # NoHandle => i = k
  BY <1>1 DEF BatchesKnown
<1>4. \A h \in issued' : \E i \in DOMAIN batches' : batches'[i].id = h
  <2>1. \A h \in issued : \E i \in DOMAIN batches : batches[i].id = h
    BY DEF BatchesKnown
  <2> QED BY <1>1, <1>2, <2>1
<1>5. \A i \in DOMAIN batches' :
        /\ batches'[i].deps \subseteq issued' /\ batches'[i].pushes \in {0, 1}
        /\ batches'[i].id = NoHandle => batches'[i].finished /\ batches'[i].pushes = 0
  <2>1. SUFFICES ASSUME NEW i \in DOMAIN batches'
                 PROVE  /\ batches'[i].deps \subseteq issued' /\ batches'[i].pushes \in {0, 1}
                        /\ batches'[i].id = NoHandle =>
                             batches'[i].finished /\ batches'[i].pushes = 0
    OBVIOUS
  <2>2. CASE i \in DOMAIN batches
    BY <1>1, <1>2, <2>2 DEF BatchesKnown
  <2>3. CASE i = n
    BY <1>1, <1>2, <2>3
  <2> QED BY <1>1, <2>2, <2>3
<1> QED BY <1>1, <1>3, <1>4, <1>5 DEF BatchesKnown

LEMMA DependenciesIssued ==
  ASSUME NEW t \in Threads, NEW deps \in DependencyLists(t)
  PROVE  /\ {deps[i] : i \in DOMAIN deps} \subseteq issued /\ NoRepeats(deps)
<1>1. CASE t = Io
  <2>1. deps = <<>>
    BY <1>1 DEF DependencyLists
  <2>2. DOMAIN deps = {}
    BY <2>1
  <2> QED BY <2>2 DEF NoRepeats
<1>2. CASE t # Io
  BY <1>2 DEF DependencyLists, NoRepeats
<1> QED BY <1>1, <1>2

\* What the lists and the calls say of a batch does not change.
LEMMA SubmitFailsWaits ==
  ASSUME PoolInv, WaitInv, NEW t \in Threads, NEW fenced \in BOOLEAN,
         NEW deps \in DependencyLists(t), SubmitFails(t, fenced, deps)
  PROVE  WaitInv'
<1> DEFINE b == [id |-> NoHandle, deps |-> {deps[i] : i \in DOMAIN deps}, fence |-> fenced,
                 pushes |-> 0, finished |-> TRUE]
           n == Len(batches) + 1
<1>1. batches' = Append(batches, b) /\ UNCHANGED <<slots, free, queue, stack, issued>>
  BY DEF SubmitFails
<1>2. b.deps \subseteq issued
  BY DependenciesIssued
<1>3. issued \subseteq Ids
  BY DEF PoolInv, PoolTyped
<1>4. b \in BatchStates /\ b.id = NoHandle /\ b.finished /\ b.pushes = 0
  BY <1>2, <1>3 DEF BatchStates
<1> HIDE DEF b
<1>5. BatchesKnown
  BY DEF WaitInv
<1>6. BatchesKnown'
  BY <1>1, <1>2, <1>4, <1>5, AppendKnown
<1>7. /\ n \in DOMAIN batches' /\ batches'[n] = b
      /\ \A i \in DOMAIN batches : i \in DOMAIN batches' /\ batches'[i] = batches[i]
      /\ \A i \in DOMAIN batches' : i \in DOMAIN batches \/ i = n
  BY <1>1, <1>4, <1>5, Appended
<1> HIDE DEF n
<1>8. \A F : CallsIn(F)' = CallsIn(F)
  BY <1>1 DEF CallsIn, Calls, CallAt
<1>9. \A h : /\ Guards(h)' = Guards(h) /\ Pushers(h)' = Pushers(h) /\ Busy(h)' = Busy(h)
             /\ \A k : ToRegister(h, k)' <=> ToRegister(h, k)
             /\ \A s : (Awaits(h, s)' <=> Awaits(h, s)) /\ (Registered(s, h)' <=> Registered(s, h))
  BY <1>1, <1>8 DEF Guards, Pushers, Busy, ToRegister, Awaits, ToRelease, Registered
<1>10. \A h : Holds(h)' = Holds(h)
  BY <1>9, HoldsKept
<1>11. \A s : Gone(s)' <=> Gone(s)
  BY <1>1, <1>8 DEF Gone, Listed
<1>12. BatchesPlaced'
  <2>1. SUFFICES ASSUME NEW i \in DOMAIN batches', batches'[i].id # NoHandle
                 PROVE  LET h == batches'[i].id IN
                        /\ h.gen <= slots[h.slot].generation
                        /\ Gone(h.slot) => h.gen < slots[h.slot].generation
                        /\ batches'[i].finished \/ ( /\ slots[h.slot].generation = h.gen
                                                     /\ slots[h.slot].remainingJobs > 0)
    BY <1>1, <1>11 DEF BatchesPlaced, Slot, Live
  <2>2. i \in DOMAIN batches /\ batches'[i] = batches[i]
    BY <1>4, <1>7, <2>1
  <2> QED BY <2>1, <2>2 DEF WaitInv, BatchesPlaced, Slot, Live
<1>13. WaitersUnpushed' /\ RunnersPushed'
  <2>1. \A h : (Unpushed(h) => Unpushed(h)') /\ (Pushed(h) => Pushed(h)')
    BY <1>7 DEF Unpushed, Pushed
  <2>2. \A h : Waiting(h)' <=> Waiting(h)
    BY <1>9, <1>10 DEF Waiting
  <2> QED BY <1>9, <2>1, <2>2 DEF WaitInv, WaitersUnpushed, RunnersPushed
<1>14. WaitsCounted'
  BY <1>1, <1>9, <1>10, CountsKept DEF WaitInv
<1>15. ListsInOrder'
  <2>1. CallsIn(UntidyFrames)' = {}
    BY <1>8 DEF WaitInv, ListsInOrder
  <2> QED BY <1>1, <1>9, <1>11, <2>1, OrderKept DEF WaitInv
<1>16. DependenciesTracked'
  <2>1. SUFFICES ASSUME NEW i \in DOMAIN batches', NEW k \in DOMAIN batches',
                        batches'[k].id \in batches'[i].deps, ~batches'[k].finished,
                        batches'[i].id # NoHandle
                 PROVE  \A h, d : h = batches'[i].id /\ d = batches'[k].id =>
                          ToRegister(h, d)' \/ Registered(d.slot, h)'
    BY DEF DependenciesTracked
  <2>2. /\ i \in DOMAIN batches /\ batches'[i] = batches[i]
        /\ k \in DOMAIN batches /\ batches'[k] = batches[k]
    BY <1>4, <1>7, <2>1
  <2> QED BY <1>9, <2>1, <2>2 DEF WaitInv, DependenciesTracked
<1> QED BY <1>6, <1>12, <1>13, <1>14, <1>15, <1>16 DEF WaitInv

\* A call y begins with the frame f.
LEMMA CallBegins ==
  ASSUME PoolInv, NEW t \in Threads, NEW f \in CallFrames,
         stack' = [stack EXCEPT ![t] = <<f>> \o @]
  PROVE  \A F : Coarse(F) =>
           CallsIn(F)' = CallsIn(F) \cup Where(<<t, Len(stack[t]) + 1>>, f, F)
<1> DEFINE z == Frame("unpin", f.id, <<>>)
           x == <<Main, 0>>
           y == <<t, Len(stack[t]) + 1>>
<1>1. z \in CallFrames /\ z.at = "unpin"
  BY DEF Frame, CallFrames, Points
<1> HIDE DEF z
<1>2. Restack(t, Len(stack[t]), <<f>>)
  BY Called DEF PoolInv
<1>3. Roleless(z)
  BY <1>1 DEF Roleless, GuardPoints, ReleasePoints, RunPoints
<1>4. Recast(x, z, z, y, f)
  BY <1>1, <1>2, <1>3, CalledRoles
<1> HIDE DEF x, y
<1>5. \A F : Coarse(F) => /\ z \notin F /\ x \notin CallsIn(F)
                          /\ CallsIn(F)' = (CallsIn(F) \ {x}) \cup Where(x, z, F)
                                             \cup Where(y, f, F)
  BY <1>3, <1>4 DEF Recast, Coarse
<1>6. \A F : Coarse(F) => CallsIn(F)' = CallsIn(F) \cup Where(y, f, F)
  BY <1>5 DEF Where
<1> QED BY <1>6 DEF y

\* The record b enters the history for a batch with handle d, which gets the slot r
\* and the call y, with the frame f, which will register it as a dependent or push it.
Begun(r, d, deps, y, f, b) ==
  /\ r \in Slots /\ d \in Ids /\ d.slot = r /\ d.gen = slots[r].generation
  /\ Listed(r) /\ ~Listed(r)' /\ \A s \in Slots : Listed(s)' => Listed(s)
  /\ deps \in Seq(Ids) /\ NoRepeats(deps)
  /\ f \in CallFrames /\ f.id = d /\ f.todo = deps
  /\ f.at = IF deps = <<>> THEN "push" ELSE "addDependents"
  /\ \A F : Coarse(F) => CallsIn(F)' = CallsIn(F) \cup Where(y, f, F)
  /\ b \in BatchStates /\ b.id = d /\ b.pushes = 0 /\ ~b.finished
  /\ b.deps \subseteq issued /\ \A k \in b.deps : Named(deps, k)
  /\ batches' = Append(batches, b) /\ issued' = issued \cup {d} /\ queue' = queue
  /\ \A s \in Slots : s # r => slots'[s] = slots[s]
  /\ slots'[r].generation = slots[r].generation
  /\ slots'[r].dependencyCount = IF deps = <<>> THEN 0 ELSE 1
  /\ slots'[r].dependentCount = 0 /\ slots'[r].dependents = <<>>
  /\ slots'[r].remainingJobs > 0

LEMMA BatchBegun ==
  ASSUME PoolInv, WaitInv, NEW r, NEW d, NEW deps, NEW y, NEW f, NEW b,
         Begun(r, d, deps, y, f, b)
  PROVE  WaitInv'
<1> USE DEF Begun
<1> DEFINE n == Len(batches) + 1
<1>0. PoolTyped /\ d # NoHandle
  BY HandlesAreReal DEF PoolInv
<1>1. Gone(r) /\ ~(slots[r].remainingJobs > 0)
  BY LiveSlot DEF Gone
<1>2. \A i \in DOMAIN batches : batches[i].id.slot = r /\ batches[i].id # NoHandle =>
        /\ batches[i].finished /\ batches[i].id # d
        /\ batches[i].id.gen < slots[r].generation
  <2>1. SUFFICES ASSUME NEW i \in DOMAIN batches, batches[i].id.slot = r, batches[i].id # NoHandle
                 PROVE  /\ batches[i].finished /\ batches[i].id # d
                        /\ batches[i].id.gen < slots[r].generation
    OBVIOUS
  <2>2. batches[i].id.gen \in Nat /\ batches[i].id.gen < slots[r].generation
    BY <1>1, <2>1, BatchTyped DEF WaitInv, BatchesPlaced, Slot
  <2>3. batches[i].finished
    BY <1>1, <2>1 DEF WaitInv, BatchesPlaced, Live, Slot
  <2> QED BY <2>2, <2>3
<1>3. \A i \in DOMAIN batches : batches[i].id # d
  BY <1>0, <1>2
<1>4. d \notin issued
  BY <1>3 DEF WaitInv, BatchesKnown
<1>5. ~Waiting(d) /\ ~Busy(d)
  BY <1>3 DEF WaitInv, WaitersUnpushed, RunnersPushed, Unpushed, Pushed
<1>6. \A c \in Ids : Waiting(c) => c.slot # r
  BY <1>1, WaiterLives DEF WaitInv
<1>7. BatchesKnown'
  BY <1>0, <1>3, AppendKnown DEF WaitInv
<1>8. /\ n \in DOMAIN batches' /\ batches'[n] = b /\ n \notin DOMAIN batches
      /\ \A i \in DOMAIN batches : i \in DOMAIN batches' /\ batches'[i] = batches[i]
      /\ \A i \in DOMAIN batches' : i \in DOMAIN batches \/ i = n
  BY Appended DEF WaitInv
<1> HIDE DEF n
<1>9. \A F : Coarse(F) => /\ f \notin F => CallsIn(F)' = CallsIn(F)
                          /\ f \in F => CallsIn(F)' = CallsIn(F) \cup {y}
  <2>1. ASSUME NEW F, Coarse(F)
        PROVE  /\ f \notin F => CallsIn(F)' = CallsIn(F)
               /\ f \in F => CallsIn(F)' = CallsIn(F) \cup {y}
    <3>1. CallsIn(F)' = CallsIn(F) \cup Where(y, f, F)
      BY <2>1
    <3> QED BY <3>1 DEF Where
  <2> QED BY <2>1
<1>10. f.at \notin ReleasePoints /\ f.at \notin RunPoints
  BY DEF ReleasePoints, RunPoints
<1>11. /\ \A c : CallsIn(RunFrames(c))' = CallsIn(RunFrames(c))
       /\ \A s : /\ CallsIn(ReleaseFrames(s))' = CallsIn(ReleaseFrames(s))
                 /\ \A c : CallsIn(ReleaseFramesOf(s, c))' = CallsIn(ReleaseFramesOf(s, c))
  <2>1. /\ \A c : f \notin RunFrames(c)
        /\ \A s : f \notin ReleaseFrames(s) /\ \A c : f \notin ReleaseFramesOf(s, c)
    BY <1>10, OnePart
  <2> QED BY <1>9, <2>1, RolesAreCoarse
<1>12. CallsIn(UntidyFrames)' = {}
  <2>1. f \notin UntidyFrames
    BY <1>10 DEF UntidyFrames, ReleasePoints
  <2> QED BY <1>9, <2>1, RolesAreCoarse DEF WaitInv, ListsInOrder
<1>13. \A c : c # d => Guards(c)' = Guards(c) /\ Pushers(c)' = Pushers(c)
  <2>1. \A c : c # d => f \notin GuardFrames(c) /\ f \notin PushFrames(c)
    BY DEF GuardFrames, PushFrames
  <2> QED BY <1>9, <2>1, RolesAreCoarse DEF Guards, Pushers
<1>14. Guards(d) = {} /\ Pushers(d) = {} /\ Holds(d) = {}
  BY <1>5, WaitsFor DEF Waiting
<1>15. /\ deps = <<>> => Guards(d)' = {} /\ Pushers(d)' = {y}
       /\ deps # <<>> => Guards(d)' = {y} /\ Pushers(d)' = {}
  <2>1. /\ deps = <<>> => f \in PushFrames(d) /\ f \notin GuardFrames(d)
        /\ deps # <<>> => f \notin PushFrames(d) /\ f \in GuardFrames(d)
    BY DEF PushFrames, GuardFrames, GuardPoints
  <2> QED BY <1>9, <1>14, <2>1, RolesAreCoarse DEF Guards, Pushers
<1>16. \A c, k : /\ ToRegister(c, k) => ToRegister(c, k)'
                 /\ c # d => (ToRegister(c, k)' <=> ToRegister(c, k))
                 /\ c = d /\ Named(deps, k) => ToRegister(c, k)'
  <2>1. ASSUME NEW c, NEW k
        PROVE  /\ c # d => f \notin GuardFramesOf(c, k)
               /\ c = d /\ Named(deps, k) => f \in GuardFramesOf(c, k)
    <3>1. Named(deps, k) => deps # <<>>
      BY DEF Named
    <3> QED BY <3>1 DEF GuardFramesOf, GuardFrames, GuardPoints
  <2> QED BY <1>9, <2>1, RolesAreCoarse DEF ToRegister
<1>17. \A s \in Slots : slots'[s].dependents = slots[s].dependents
  <2>1. slots[r].dependents = <<>>
    BY <1>1 DEF WaitInv, ListsInOrder
  <2> QED BY <2>1
<1>18. \A c : \A s \in Slots : /\ Awaits(c, s)' <=> Awaits(c, s)
                               /\ Registered(s, c)' <=> Registered(s, c)
  BY <1>11, <1>17 DEF Awaits, Registered, ToRelease
<1>19. \A c : c # d => Holds(c)' = Holds(c)
  BY <1>13, <1>18, HoldsKept
<1>20. /\ deps = <<>> => Holds(d)' = {}
       /\ deps # <<>> => Holds(d)' = {0}
  <2>1. \A s \in Slots : ~Awaits(d, s)'
    BY <1>14, <1>18, WaitsFor
  <2>2. Holds(d)' = IF Guards(d)' = {} THEN {} ELSE {0}
    BY <2>1 DEF Holds
  <2> QED BY <1>15, <2>2
<1>21. \A c \in Ids : Busy(c)' => Busy(c)
  BY <1>11 DEF Busy
<1>22. \A s \in Slots : Gone(s)' => Gone(s) /\ s # r
  <2>1. CallsIn(ReleaseFrames(r)) = {}
    <3>1. \A v \in ReleaseFrames(r) : v \in DropFrames(r)
      BY DEF ReleaseFrames, DropFrames, ReleasePoints, DropPoints
    <3>2. CallsIn(ReleaseFrames(r)) \subseteq Droppers(r)
      BY <1>0, <3>1, RefsForm DEF CallsIn
    <3> QED BY <3>2 DEF PoolInv, SlotsPlaced
  <2> QED BY <1>11, <2>1 DEF Gone
<1>23. BatchesPlaced'
  <2>1. SUFFICES ASSUME NEW i \in DOMAIN batches', batches'[i].id # NoHandle
                 PROVE  \A c : c = batches'[i].id =>
                        /\ c.gen <= slots'[c.slot].generation
                        /\ Gone(c.slot)' => c.gen < slots'[c.slot].generation
                        /\ batches'[i].finished \/ ( /\ slots'[c.slot].generation = c.gen
                                                     /\ slots'[c.slot].remainingJobs > 0)
    BY DEF BatchesPlaced, Slot, Live
  <2>2. CASE i = n
    <3>1. slots[r].generation \in Nat
      BY <1>0 DEF PoolTyped, SlotStates
    <3> QED BY <1>8, <1>22, <2>2, <3>1
  <2>3. CASE i \in DOMAIN batches
    <3>1. /\ batches'[i] = batches[i] /\ batches[i].id # NoHandle
          /\ batches[i].id.slot \in Slots /\ batches[i].id.gen \in Nat
      BY <1>8, <2>1, <2>3, BatchTyped DEF WaitInv
    <3>2. PICK c : c = batches[i].id
      OBVIOUS
    <3>3. /\ c.gen <= slots[c.slot].generation
          /\ Gone(c.slot) => c.gen < slots[c.slot].generation
          /\ batches[i].finished \/ ( /\ slots[c.slot].generation = c.gen
                                      /\ slots[c.slot].remainingJobs > 0)
      BY <2>3, <3>1, <3>2 DEF WaitInv, BatchesPlaced, Slot, Live
    <3>4. c.slot = r => batches[i].finished
      BY <1>2, <2>3, <3>1, <3>2
    <3>5. c.slot \in Slots /\ slots'[c.slot].generation = slots[c.slot].generation
      BY <3>1, <3>2
    <3>6. c.slot # r => slots'[c.slot] = slots[c.slot]
      BY <3>1, <3>2
    <3> QED BY <1>22, <3>1, <3>2, <3>3, <3>4, <3>5, <3>6
  <2> QED BY <1>8, <2>2, <2>3
<1>24. \A c : (Unpushed(c) => Unpushed(c)') /\ (Pushed(c) => Pushed(c)') /\ Unpushed(d)'
  BY <1>8 DEF Unpushed, Pushed
<1>25. WaitersUnpushed' /\ RunnersPushed'
  <2>1. \A c : c # d /\ Waiting(c)' => Waiting(c)
    BY <1>13, <1>19 DEF Waiting
  <2> QED BY <1>21, <1>24, <2>1 DEF WaitInv, WaitersUnpushed, RunnersPushed
<1>26. WaitsCounted'
  <2>1. SUFFICES ASSUME NEW c \in Ids
                 PROVE  /\ Holds(c)' # {} =>
                             slots'[c.slot].dependencyCount = Cardinality(Holds(c)')
                        /\ Pushers(c)' # {} => Holds(c)' = {}
                        /\ \A v, w \in Pushers(c)' : v = w
                        /\ \A v, w \in Guards(c)' : v = w
    BY DEF WaitsCounted, Slot
  <2>2. CASE c = d
    <3>1. Cardinality({0}) = 1
      BY FS_Singleton
    <3> QED BY <1>15, <1>20, <2>2, <3>1
  <2>3. CASE c # d
    <3>1. Holds(c) # {} => c.slot # r
      BY <1>6 DEF Waiting
    <3>2. c.slot \in Slots
      BY HandlesAreReal
    <3> QED BY <1>13, <1>19, <2>3, <3>1, <3>2 DEF WaitInv, WaitsCounted, Slot
  <2> QED BY <2>2, <2>3
<1>27. ListsInOrder'
  <2>1. SUFFICES ASSUME NEW s \in Slots
                 PROVE  /\ slots'[s].dependentCount = Len(slots'[s].dependents)
                        /\ NoRepeats(slots'[s].dependents)
                        /\ Gone(s)' => slots'[s].dependents = <<>>
                        /\ \A c \in Ids :
                             Registered(s, c)' =>
                               ~ToRegister(c, [slot |-> s, gen |-> slots[s].generation])'
    BY <1>12 DEF ListsInOrder
  <2>2. slots'[s].generation = slots[s].generation
    OBVIOUS
  <2>3. \A c \in Ids : Registered(s, c) =>
                         ~ToRegister(c, [slot |-> s, gen |-> slots[s].generation])
    BY DEF WaitInv, ListsInOrder
  <2>4. \A c \in Ids : Registered(s, c)' =>
                         ~ToRegister(c, [slot |-> s, gen |-> slots[s].generation])'
    <3>1. SUFFICES ASSUME NEW c \in Ids, Registered(s, c)
                   PROVE  ~ToRegister(c, [slot |-> s, gen |-> slots[s].generation])'
      BY <1>18
    <3>2. c # d
      BY <1>14, <3>1, WaitsFor DEF Awaits
    <3>3. PICK k : k = [slot |-> s, gen |-> slots[s].generation]
      OBVIOUS
    <3>4. ~ToRegister(c, k)'
      BY <1>16, <2>3, <3>1, <3>2, <3>3
    <3>5. k = [slot |-> s, gen |-> slots'[s].generation]
      BY <2>2, <3>3
    <3> QED BY <3>4, <3>5
  <2>5. Gone(s)' => slots'[s].dependents = <<>>
    BY <1>17, <1>22 DEF WaitInv, ListsInOrder
  <2>6. slots'[s].dependentCount = Len(slots'[s].dependents) /\ NoRepeats(slots'[s].dependents)
    <3>1. CASE s = r
      BY <3>1 DEF NoRepeats
    <3>2. CASE s # r
      BY <3>2 DEF WaitInv, ListsInOrder
    <3> QED BY <3>1, <3>2
  <2> QED BY <2>2, <2>4, <2>5, <2>6
<1>28. DependenciesTracked'
  <2>1. SUFFICES ASSUME NEW i \in DOMAIN batches', NEW k \in DOMAIN batches',
                        batches'[k].id \in batches'[i].deps, ~batches'[k].finished,
                        batches'[i].id # NoHandle
                 PROVE  \A c, e : c = batches'[i].id /\ e = batches'[k].id =>
                          ToRegister(c, e)' \/ Registered(e.slot, c)'
    BY DEF DependenciesTracked
  <2>2. SUFFICES ASSUME NEW c, NEW e, c = batches'[i].id, e = batches'[k].id
                 PROVE  ToRegister(c, e)' \/ Registered(e.slot, c)'
    BY <2>1
  <2>3. CASE i = n
    <3>1. c = d /\ e \in b.deps
      BY <1>8, <2>1, <2>2, <2>3
    <3>2. Named(deps, e)
      BY <3>1
    <3> QED BY <1>16, <3>1, <3>2
  <2>4. CASE i \in DOMAIN batches /\ k \in DOMAIN batches
    <3>1. batches'[i] = batches[i] /\ batches'[k] = batches[k]
      BY <1>8, <2>4
    <3>2. ToRegister(c, e) \/ Registered(e.slot, c)
      BY <2>1, <2>2, <2>4, <3>1 DEF WaitInv, DependenciesTracked
    <3>3. e.slot \in Slots
      BY <2>1, <2>2, <2>4, <3>1, BatchTyped, HandlesAreReal DEF WaitInv
    <3> QED BY <1>16, <1>18, <3>2, <3>3
  <2>5. CASE i \in DOMAIN batches /\ k = n
    BY <1>4, <1>8, <2>1, <2>5 DEF WaitInv, BatchesKnown
  <2> QED BY <1>8, <2>3, <2>4, <2>5
<1> QED BY <1>7, <1>23, <1>25, <1>26, <1>27, <1>28 DEF WaitInv

LEMMA SubmitWaits ==
  ASSUME PoolInv, WaitInv, NEW t \in Threads, NEW size \in Sizes, NEW fenced \in BOOLEAN,
         NEW deps \in DependencyLists(t), Submit(t, size, fenced, deps)
  PROVE  WaitInv'
<1>0. PICK r \in Slots : r = Head(free)
  <2>1. free # <<>> /\ free \in Seq(Slots)
    BY DEF Submit, PoolInv, PoolTyped
  <2> QED BY <2>1, Removed
<1> DEFINE id == [slot |-> r, gen |-> slots[r].generation]
           f == Frame(IF deps = <<>> THEN "push" ELSE "addDependents", id, deps)
           none == <<>>
           count == IF deps = <<>> THEN 0 ELSE 1
           e == [generation |-> slots[r].generation, refCount |-> 1,
                 dependencyCount |-> count, dependentCount |-> 0, dependents |-> none,
                 remainingJobs |-> size, toStart |-> size, fence |-> fenced]
           b == [id |-> id, deps |-> {deps[i] : i \in DOMAIN deps}, fence |-> fenced,
                 pushes |-> 0, finished |-> FALSE]
           y == <<t, Len(stack[t]) + 1>>
<1>1. /\ PoolTyped /\ SlotsPlaced /\ free # <<>> /\ free' = Tail(free)
      /\ queue' = queue /\ issued' = issued \cup {id} /\ slots' = [slots EXCEPT ![r] = e]
      /\ stack' = [stack EXCEPT ![t] = <<f>> \o @]
      /\ batches' = Append(batches, b)
  BY <1>0 DEF Submit, PoolInv
<1>2. /\ r \in Slots /\ free \in Seq(Slots) /\ slots[r] \in SlotStates
      /\ slots[r].generation \in Nat
      /\ id \in Ids /\ id.slot = r /\ id.gen = slots[r].generation
  BY <1>1 DEF PoolTyped, SlotStates, Ids
<1>3. /\ deps \in Seq(Ids) /\ NoRepeats(deps) /\ {deps[i] : i \in DOMAIN deps} \subseteq issued
      /\ issued \subseteq Ids
  BY <1>1, DependenciesTyped, DependenciesIssued DEF PoolTyped
<1>4. /\ f \in CallFrames /\ f.id = id /\ f.todo = deps
      /\ f.at = IF deps = <<>> THEN "push" ELSE "addDependents"
  BY <1>2, <1>3 DEF Frame, CallFrames, Points
<1>5. size \in Nat /\ size > 0 /\ size \in Int
  BY PoolAssumption
<1>6. /\ e \in SlotStates /\ e.generation = slots[r].generation /\ e.dependencyCount = count
      /\ e.remainingJobs = size /\ e.dependentCount = 0 /\ e.dependents = none
  <2>1. none \in Seq(Ids) /\ count \in Int
    OBVIOUS
  <2> HIDE DEF none, count
  <2> QED BY <1>2, <1>5, <2>1 DEF SlotStates
<1>7. /\ b \in BatchStates /\ b.id = id /\ \A k \in b.deps : Named(deps, k)
      /\ b.pushes = 0 /\ ~b.finished /\ b.deps \subseteq issued
  BY <1>2, <1>3 DEF BatchStates, Named
<1>8. Listed(r) /\ ~Listed(r)' /\ \A s \in Slots : Listed(s)' => Listed(s)
  <2>1. /\ r = free[1] /\ 1 \in DOMAIN free
        /\ \A i \in DOMAIN Tail(free) :
             i + 1 \in DOMAIN free /\ i + 1 # 1 /\ Tail(free)[i] = free[i + 1]
    BY <1>0, <1>1, <1>2, Removed
  <2>2. \A i, j \in DOMAIN free : free[i] = free[j] => i = j
    BY <1>1 DEF SlotsPlaced
  <2>3. Listed(r)
    BY <2>1 DEF Listed
  <2>4. ASSUME NEW s, Listed(s)'
        PROVE  Listed(s) /\ s # r
    <3>1. PICK i \in DOMAIN Tail(free) : Tail(free)[i] = s
      BY <1>1, <2>4 DEF Listed
    <3> QED BY <2>1, <2>2, <3>1 DEF Listed
  <2> QED BY <2>3, <2>4
<1> HIDE DEF e, f, id, b
<1>9. slots'[r] = e /\ \A s \in Slots : s # r => slots'[s] = slots[s]
  BY <1>1, <1>6, SlotSet
<1>10. \A F : Coarse(F) => CallsIn(F)' = CallsIn(F) \cup Where(y, f, F)
  BY <1>1, <1>4, CallBegins
<1>11. /\ slots'[r].generation = slots[r].generation
       /\ slots'[r].dependencyCount = IF deps = <<>> THEN 0 ELSE 1
       /\ slots'[r].dependentCount = 0 /\ slots'[r].dependents = <<>>
       /\ slots'[r].remainingJobs > 0
  BY <1>5, <1>6, <1>9
<1>12. queue' = queue /\ issued' = issued \cup {id} /\ batches' = Append(batches, b)
  BY <1>1
<1> HIDE DEF y, none, count
<1>13. Begun(r, id, deps, y, f, b)
  BY <1>2, <1>3, <1>4, <1>7, <1>8, <1>9, <1>10, <1>11, <1>12 DEF Begun
<1> QED BY <1>13, BatchBegun

LEMMA SubmitSomeWaits ==
  ASSUME PoolInv, WaitInv, NEW t \in Threads, SubmitSome(t) PROVE WaitInv'
<1>1. PICK fenced \in {FALSE, t = Main}, deps \in DependencyLists(t) :
        \/ \E size \in Sizes : Submit(t, size, fenced, deps)
        \/ SubmitFails(t, fenced, deps)
  BY DEF SubmitSome
<1>2. fenced \in BOOLEAN
  BY <1>1
<1>3. CASE SubmitFails(t, fenced, deps)
  BY <1>2, <1>3, SubmitFailsWaits
<1>4. ASSUME NEW size \in Sizes, Submit(t, size, fenced, deps)
      PROVE  WaitInv'
  BY <1>2, <1>4, SubmitWaits
<1> QED BY <1>1, <1>3, <1>4

----------------------------------------------------------------------------
(* The invariant of the waits *)

LEMMA WaitInvStep ==
  ASSUME PoolInv, WaitInv, DependentsFit', [Next]_vars
  PROVE  WaitInv'
<1>0. ASSUME NEW t \in Threads, RegisterDependent(t)
      PROVE  WaitInv'
  <2>1. HasRoom(t)
    BY <1>0, RoomWhenFits DEF RegisterDependent
  <2> QED BY <1>0, <2>1, RegisterDependentWaits
<1>1. ASSUME NEW t \in Threads, Step(t)
      PROVE  WaitInv'
  BY <1>0, <1>1, PinCheckWaits, PinTakeWaits, PinVerifyWaits, UnpinWaits, DropInvalidateWaits,
     DropNextDependentWaits, DropResolveWaits, DropFenceWaits, DropReclaimWaits,
     AddDependentWaits, ReleaseGuardWaits, PushWaits, StartJobWaits,
     FinishJobWaits, SignalCompleteWaits, CompleteBatchWaits, WorkDoneWaits DEF Step
<1>2. ASSUME NEW t \in Threads, SubmitSome(t)
      PROVE  WaitInv'
  BY <1>2, SubmitSomeWaits
<1>3. CASE UNCHANGED vars
  <2>1. UNCHANGED <<slots, free, queue, stack, batches, issued>>
    BY <1>3 DEF vars
  <2>2. RolesKept
    BY <2>1 DEF RolesKept, CallsIn, Calls, CallAt
  <2>3. CountsAndListsKept
    BY <2>1, SlotsKeptKeep
  <2> QED BY <2>1, <2>2, <2>3, RolesKeep
<1> QED BY <1>1, <1>2, <1>3 DEF Next, Rest

LEMMA WaitInvInit == Init => WaitInv
<1> SUFFICES ASSUME Init
             PROVE  WaitInv
  OBVIOUS
<1> DEFINE none == <<>>
<1>1. \A t \in Threads : stack[t] = none /\ Len(none) = 0
  BY DEF Init
<1>2. Calls = {}
  BY <1>1 DEF Calls
<1>3. \A F : CallsIn(F) = {}
  BY <1>2 DEF CallsIn
<1>4. /\ batches = none /\ DOMAIN none = {} /\ none \in Seq(BatchStates)
      /\ issued = {} /\ queue = {}
  BY DEF Init
<1>5. \A s \in Slots : slots[s].dependents = none /\ slots[s].dependentCount = Len(none)
  BY <1>1 DEF Init, EmptySlot
<1> HIDE DEF none
<1>6. \A h : Guards(h) = {} /\ Pushers(h) = {} /\ ~Busy(h)
  BY <1>3, <1>4 DEF Guards, Pushers, Busy
<1>7. \A h, s : ~ToRelease(s, h)
  BY <1>3 DEF ToRelease
<1>8. \A h : \A s \in Slots : ~Registered(s, h)
  BY <1>4, <1>5 DEF Registered, Named
<1>9. \A h : Holds(h) = {}
  BY <1>6, <1>7, <1>8 DEF Holds, Awaits
<1>10. BatchesKnown /\ BatchesPlaced /\ DependenciesTracked
  BY <1>4 DEF BatchesKnown, BatchesPlaced, DependenciesTracked
<1>11. WaitersUnpushed /\ RunnersPushed /\ WaitsCounted
  BY <1>6, <1>9 DEF WaitersUnpushed, RunnersPushed, WaitsCounted, Waiting
<1>12. ListsInOrder
  BY <1>3, <1>4, <1>5, <1>8 DEF ListsInOrder, NoRepeats
<1> QED BY <1>10, <1>11, <1>12 DEF WaitInv

LEMMA DependenciesFirstHolds == PoolInv /\ WaitInv => DependenciesFirst
<1> SUFFICES ASSUME PoolInv, WaitInv
             PROVE  DependenciesFirst
  OBVIOUS
<1>1. BatchesKnown
  BY DEF WaitInv
<1>2. ASSUME NEW i \in DOMAIN batches, NEW k \in DOMAIN batches,
             batches[i].pushes > 0, batches[k].id \in batches[i].deps, ~batches[k].finished
      PROVE  FALSE
  <2>1. PICK h, d : h = batches[i].id /\ d = batches[k].id
    OBVIOUS
  <2>2. h # NoHandle
    BY <1>1, <1>2, <2>1 DEF BatchesKnown
  <2>3. h \in Ids /\ d \in Ids
    BY <1>1, <1>2, <2>1, <2>2, BatchTyped
  <2>4. d.slot \in Slots
    BY <2>3, HandlesAreReal
  <2>5. ToRegister(h, d) \/ Registered(d.slot, h)
    BY <1>2, <2>1, <2>2 DEF WaitInv, DependenciesTracked
  <2>6. ToRegister(h, d) => Guards(h) # {}
    BY DEF ToRegister, GuardFramesOf, Guards, CallsIn
  <2>7. Registered(d.slot, h) => Awaits(h, d.slot)
    BY DEF Awaits
  <2>8. Waiting(h)
    BY <2>4, <2>5, <2>6, <2>7, WaitsFor DEF Waiting
  <2>9. Unpushed(h)
    BY <2>3, <2>8 DEF WaitInv, WaitersUnpushed
  <2>10. Pushed(h)
    BY <1>2, <2>1 DEF Pushed
  <2> QED BY <1>1, <2>3, <2>9, <2>10, PushedOrNot
<1>3. \A i \in DOMAIN batches : batches[i].pushes <= 1
  BY <1>1 DEF BatchesKnown
<1> QED BY <1>2, <1>3 DEF DependenciesFirst

\* As long as no batch has more dependents than there is room for: a batch that
\* waits is held by its own submission and by every batch that has it on its list,
\* each counted once; a dependency that is not done is one of those; and what the
\* batch waits for last is the one thing that pushes it.
THEOREM BatchWaitInvariant == Spec /\ []DependentsFit => []WaitInv
<1>1. Init => WaitInv
  BY WaitInvInit
<1>2. PoolInv /\ WaitInv /\ DependentsFit' /\ [Next]_vars => WaitInv'
  BY WaitInvStep
<1> QED BY <1>1, <1>2, BatchPoolInvariant, PTL DEF Spec

\* A batch enters the main queue (submitToMainQueue) once, and only when all jobs of
\* its dependencies are done, whatever the order of registrations and completions.
\* The hypothesis: a dependent beyond JOB_MAX_DEPENDENTS is counted but not kept
\* (addDependent), and the loop of dropHandle then reads beyond the array.
THEOREM DependenciesEndFirst == Spec /\ []DependentsFit => []DependenciesFirst
BY BatchPoolInvariant, BatchWaitInvariant, DependenciesFirstHolds, PTL

============================================================================
