---------------------------- MODULE BoundedQueue ----------------------------
(***************************************************************************)
(* What the job queue promises to its callers: a FIFO queue of capacity    *)
(* Size.  A push takes effect at one instant between its call and its      *)
(* return, and so does a pull.  The two refusals are not exact: a push may *)
(* be refused below capacity while a pull has not returned, and a pull may *)
(* find nothing while a push has not returned; with no operation of the    *)
(* other kind in flight they are exact.                                    *)
(***************************************************************************)
EXTENDS Naturals, Sequences

CONSTANTS Threads, Jobs, NoJob, Size

VARIABLES
  items,   \* the jobs in the queue, oldest first
  phase,   \* where each thread is in its operation
  held     \* the job a thread pushes or has pulled

vars == <<items, phase, held>>

Init ==
  /\ items = <<>>
  /\ phase = [t \in Threads |-> "idle"]
  /\ held = [t \in Threads |-> NoJob]

Move(t, p, j) ==
  /\ phase' = [phase EXCEPT ![t] = p]
  /\ held' = [held EXCEPT ![t] = j]

CallPush(t) ==
  /\ phase[t] = "idle"
  /\ \E j \in Jobs : Move(t, "pushing", j)
  /\ UNCHANGED items

Put(t) ==
  /\ phase[t] = "pushing"
  /\ Len(items) < Size
  /\ items' = Append(items, held[t])
  /\ Move(t, "pushed", held[t])

RefuseFull(t) ==
  /\ phase[t] = "pushing"
  /\ Len(items) = Size \/ \E u \in Threads : phase[u] = "pulled"
  /\ Move(t, "idle", NoJob)
  /\ UNCHANGED items

CallPull(t) ==
  /\ phase[t] = "idle"
  /\ Move(t, "pulling", NoJob)
  /\ UNCHANGED items

Take(t) ==
  /\ phase[t] = "pulling"
  /\ items # <<>>
  /\ items' = Tail(items)
  /\ Move(t, "pulled", Head(items))

RefuseEmpty(t) ==
  /\ phase[t] = "pulling"
  /\ items = <<>> \/ \E u \in Threads : phase[u] = "pushed"
  /\ Move(t, "idle", NoJob)
  /\ UNCHANGED items

Return(t) ==
  /\ phase[t] \in {"pushed", "pulled"}
  /\ Move(t, "idle", NoJob)
  /\ UNCHANGED items

Next ==
  \E t \in Threads :
    \/ CallPush(t) \/ Put(t) \/ RefuseFull(t)
    \/ CallPull(t) \/ Take(t) \/ RefuseEmpty(t)
    \/ Return(t)

Spec == Init /\ [][Next]_vars
============================================================================
