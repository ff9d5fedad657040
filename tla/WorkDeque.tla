------------------------------ MODULE WorkDeque ------------------------------
(***************************************************************************)
(* What a worker's local queue promises: a deque of capacity Size.  The    *)
(* owner adds and removes at the right end, the thieves remove at the left *)
(* end.  The owner is told "nothing there" only when the deque is empty;   *)
(* a thief may be told so whenever it lost a race.                         *)
(***************************************************************************)
EXTENDS Naturals, Sequences

CONSTANTS Thieves, Owner, NoJob, Size

VARIABLES
  items,   \* the jobs in the deque, oldest first
  got,     \* the job each thread got last, or NoJob
  next     \* the number of the next job: jobs are numbered as they arrive

vars == <<items, got, next>>

Init ==
  /\ items = <<>>
  /\ got = [t \in Thieves \cup {Owner} |-> NoJob]
  /\ next = 1

\* The n new jobs arrive together or not at all.
Add(n) ==
  /\ n > 0
  /\ Len(items) + n <= Size
  /\ items' = items \o [i \in 1 .. n |-> next + i - 1]
  /\ next' = next + n
  /\ UNCHANGED got

Remove ==
  /\ items # <<>>
  /\ got' = [got EXCEPT ![Owner] = items[Len(items)]]
  /\ items' = SubSeq(items, 1, Len(items) - 1)
  /\ UNCHANGED next

RemoveNothing ==
  /\ items = <<>>
  /\ got' = [got EXCEPT ![Owner] = NoJob]
  /\ UNCHANGED <<items, next>>

Steal(t) ==
  /\ items # <<>>
  /\ got' = [got EXCEPT ![t] = Head(items)]
  /\ items' = Tail(items)
  /\ UNCHANGED next

StealNothing(t) ==
  /\ got' = [got EXCEPT ![t] = NoJob]
  /\ UNCHANGED <<items, next>>

Next ==
  \/ \E n \in 1 .. Size : Add(n)
  \/ Remove \/ RemoveNothing
  \/ \E t \in Thieves : Steal(t) \/ StealNothing(t)

Spec == Init /\ [][Next]_vars
==============================================================================
