------------------------------ MODULE SpinRwLock ------------------------------
(***************************************************************************)
(* The spinning readers-writer lock (utils/spinRwLock.c).  A reader waits  *)
(* until there is no writer, announces itself by counting up, looks again, *)
(* and retreats if a writer has come meanwhile.  A writer claims the flag, *)
(* then waits until the count is 0.  One action is one atomic access.      *)
(***************************************************************************)
EXTENDS Integers, FiniteSets

CONSTANTS LockThreads

ASSUME LockThreadsAssumption == IsFiniteSet(LockThreads)

VARIABLES
  readers,   \* the number of announced readers
  writer,    \* the flag of the writer
  place      \* where each thread is

lockVars == <<readers, writer, place>>

\* spinRwLockInit
LockInit ==
  /\ readers = 0
  /\ writer = FALSE
  /\ place = [t \in LockThreads |-> "outside"]

Move(t, from, to) == place[t] = from /\ place' = [place EXCEPT ![t] = to]

----------------------------------------------------------------------------
(* Readers *)

BeginRead(t) == Move(t, "outside", "readTest") /\ UNCHANGED <<readers, writer>>

\* Faulty variant: the writer is looked for after the announcement only.
ReadTestSkipped(t) == Move(t, "readTest", "announce") /\ UNCHANGED <<readers, writer>>

\* The spinning loop is the wait for the guard.
ReadTest(t) ==
  /\ Move(t, "readTest", "announce")
  /\ ~ writer
  /\ UNCHANGED <<readers, writer>>

Announce(t) ==
  /\ Move(t, "announce", "recheck")
  /\ readers' = readers + 1
  /\ UNCHANGED writer

\* Faulty variant: the first look is trusted.
RecheckSkipped(t) == Move(t, "recheck", "reading") /\ UNCHANGED <<readers, writer>>

Recheck(t) ==
  /\ Move(t, "recheck", IF writer THEN "retreat" ELSE "reading")
  /\ UNCHANGED <<readers, writer>>

Retreat(t) ==
  /\ Move(t, "retreat", "readTest")
  /\ readers' = readers - 1
  /\ UNCHANGED writer

ReadUnlock(t) ==
  /\ Move(t, "reading", "outside")
  /\ readers' = readers - 1
  /\ UNCHANGED writer

----------------------------------------------------------------------------
(* Writers *)

BeginWrite(t) == Move(t, "outside", "claim") /\ UNCHANGED <<readers, writer>>

\* The compare-and-swap that succeeds; one that fails is tried again.
Claim(t) ==
  /\ Move(t, "claim", "drain")
  /\ ~ writer
  /\ writer' = TRUE
  /\ UNCHANGED readers

Drain(t) ==
  /\ Move(t, "drain", "writing")
  /\ readers = 0
  /\ UNCHANGED <<readers, writer>>

WriteUnlock(t) ==
  /\ Move(t, "writing", "outside")
  /\ writer' = FALSE
  /\ UNCHANGED readers

----------------------------------------------------------------------------

ReaderStep(t) == ReadTest(t) \/ Announce(t) \/ Recheck(t) \/ Retreat(t) \/ ReadUnlock(t)
WriterStep(t) == Claim(t) \/ Drain(t) \/ WriteUnlock(t)
Begin(t) == BeginRead(t) \/ BeginWrite(t)

LockNext == \E t \in LockThreads : Begin(t) \/ ReaderStep(t) \/ WriterStep(t)

LockSpec == LockInit /\ [][LockNext]_lockVars

\* A thread that can take a step takes it, and lets go of the lock; nobody has
\* to come back for it.
FairLockSpec == LockSpec /\ \A t \in LockThreads : WF_lockVars(ReaderStep(t) \/ WriterStep(t))

----------------------------------------------------------------------------
(* Properties *)

Announced(t) == place[t] \in {"recheck", "retreat", "reading"}
Claimed(t) == place[t] \in {"drain", "writing"}

LockTypeOK ==
  /\ readers \in Nat
  /\ writer \in BOOLEAN
  /\ place \in [LockThreads -> {"outside", "readTest", "announce", "recheck", "retreat",
                         "reading", "claim", "drain", "writing"}]

\* While one thread writes, no other writes or reads.
Exclusion ==
  \A t, u \in LockThreads :
    (t # u /\ place[t] = "writing") => place[u] \notin {"writing", "reading"}

\* The count is that of the announced readers and the flag that of a claim: no
\* unlock is lost and none is counted twice.
CountersExact ==
  /\ readers = Cardinality({t \in LockThreads : Announced(t)})
  /\ writer <=> \E t \in LockThreads : Claimed(t)

\* A writer that has claimed the lock gets it: readers that keep coming do not
\* hold it off.
WriterGetsIn == \A t \in LockThreads : place[t] = "drain" ~> place[t] = "writing"

\* The inductive invariant behind Exclusion.
LockInv ==
  /\ LockTypeOK
  /\ CountersExact
  /\ \A t, u \in LockThreads : (t # u /\ Claimed(t)) => ~ Claimed(u)
  /\ \A t, u \in LockThreads : place[t] = "writing" => place[u] # "reading"
============================================================================
