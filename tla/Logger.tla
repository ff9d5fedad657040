------------------------------- MODULE Logger -------------------------------
(***************************************************************************)
(* The logger (logging.c): any thread formats a message, pushes it on a    *)
(* bounded queue and signals the log thread, which takes the messages off  *)
(* the queue, hands them to the sinks and sleeps on a condition variable   *)
(* when it has found none.  The main thread shuts the logger down; so does *)
(* the thread that logs a message of the assert level, and ends the        *)
(* program.                                                                *)
(*                                                                         *)
(* The mutex guards nothing but the condition variable: to lock it, signal *)
(* and unlock it is one step, and to lock it and wait is one step.         *)
(***************************************************************************)
EXTENDS Integers, Sequences, MpmcQueue

CONSTANTS
  Threads,     \* the threads that log
  Main,        \* the one that shuts the logger down
  MaxMessages, \* bound: messages logged in a behaviour
  MaxAsserts   \* bound: those of the assert level

ASSUME ThreadsAssumption == Main \in Threads
ASSUME MaxMessagesAssumption == MaxMessages \in Nat /\ MaxAsserts \in 0 .. MaxMessages

VARIABLES
  queue,      \* the queue, as in MpmcQueue
  running,    \* logger.running
  pc,         \* where each thread is in logInternal or avLogShutdown
  message,    \* the message a thread logs
  ticket,     \* the ticket a thread holds
  logThread,  \* where the log thread is in logThreadMain
  hadWork,    \* its local variable
  delivered,  \* what the sinks were given
  accepted,   \* the messages that got a ticket, in that order
  due,        \* how many of them had been pushed when the first shutdown began
  overtaken,  \* a signal came after the log thread's last look at what it is about
  messages, asserts  \* counters for the bounds

log == <<logThread, hadWork, delivered>>
history == <<accepted, due, messages, asserts>>
vars == <<queue, running, pc, message, ticket, log, overtaken, history>>

Init ==
  /\ queue = Empty
  /\ running = TRUE
  /\ pc = [t \in Threads |-> "idle"]
  /\ message = [t \in Threads |-> NoElement]
  /\ ticket = [t \in Threads |-> 0]
  /\ logThread = "test" /\ hadWork = FALSE /\ delivered = <<>>
  /\ accepted = <<>> /\ due = 0
  /\ overtaken = FALSE
  /\ messages = 0 /\ asserts = 0

Goto(t, point) == pc' = [pc EXCEPT ![t] = point]

\* The program has ended.
Aborted == \E t \in Threads : pc[t] = "aborted"

-----------------------------------------------------------------------------
(* logInternal *)

\* Only the main thread is left, and it is in avLogShutdown.
joined == asserts = 0 /\ pc[Main] \in {"shutdown", "wake", "join", "left"}

\* Messages are numbered in the order in which threads begin to log them.
Log(t) ==
  /\ pc[t] = "idle" /\ messages < MaxMessages /\ ~joined
  /\ messages' = messages + 1
  /\ message' = [message EXCEPT ![t] = messages + 1]
  /\ Goto(t, "reserve")
  /\ UNCHANGED <<queue, running, ticket, log, overtaken, accepted, due, asserts>>

Reserve(t) ==
  /\ pc[t] = "reserve" /\ mayPush(queue)
  /\ queue' = reserve(queue)
  /\ ticket' = [ticket EXCEPT ![t] = queue.tail]
  /\ accepted' = Append(accepted, message[t])
  /\ Goto(t, "write")
  /\ UNCHANGED <<running, message, log, overtaken, due, messages, asserts>>

\* A message the queue has no room for is dropped, and nobody is told.
Drop(t) ==
  /\ pc[t] = "reserve" /\ full(queue)
  /\ Goto(t, "signal")
  /\ UNCHANGED <<queue, running, message, ticket, log, overtaken, history>>

Write(t) ==
  /\ pc[t] = "write"
  /\ queue' = write(queue, ticket[t], message[t])
  /\ Goto(t, "publish")
  /\ UNCHANGED <<running, message, ticket, log, overtaken, history>>

Publish(t) ==
  /\ pc[t] = "publish"
  /\ queue' = publish(queue, ticket[t])
  /\ Goto(t, "signal")
  /\ UNCHANGED <<running, message, ticket, log, overtaken, history>>

\* The condition variable wakes who is waiting and remembers nothing.  It comes
\* too late for a log thread that has looked already and does not sleep yet.
signal(looked) ==
  /\ logThread' = IF logThread = "asleep" THEN "test" ELSE logThread
  /\ overtaken' = (overtaken \/ logThread \in looked)

\* Faulty variant: nobody is woken while the queue holds other messages.
SignalFirstOnly(t) ==
  /\ pc[t] = "signal"
  /\ IF queue.tail - queue.head > 1 THEN UNCHANGED <<logThread, overtaken>> ELSE signal({"wait"})
  /\ \/ Goto(t, "idle") /\ UNCHANGED asserts
     \/ asserts < MaxAsserts /\ asserts' = asserts + 1 /\ Goto(t, "shutdown")
  /\ UNCHANGED <<queue, running, message, ticket, hadWork, delivered, accepted, due, messages>>

\* The message may have been of the assert level.
Signal(t) ==
  /\ pc[t] = "signal"
  /\ signal({"wait"})
  /\ \/ Goto(t, "idle") /\ UNCHANGED asserts
     \/ asserts < MaxAsserts /\ asserts' = asserts + 1 /\ Goto(t, "shutdown")
  /\ UNCHANGED <<queue, running, message, ticket, hadWork, delivered, accepted, due, messages>>

-----------------------------------------------------------------------------
(* logThreadMain *)

TestRunning ==
  /\ logThread = "test"
  /\ logThread' = IF running THEN "pop" ELSE "drain"
  /\ hadWork' = FALSE
  /\ overtaken' = FALSE
  /\ UNCHANGED <<queue, running, pc, message, ticket, delivered, history>>

\* The element is copied and its slot released before the sinks see it.
Deliver ==
  /\ logThread \in {"pop", "drain"} /\ mayPop(queue)
  /\ queue' = release(take(queue), queue.head)
  /\ delivered' = Append(delivered, queue.data[slot(queue.head)])
  /\ hadWork' = TRUE
  /\ UNCHANGED <<running, pc, message, ticket, logThread, overtaken, history>>

FoundNone ==
  /\ logThread = "pop" /\ empty(queue)
  /\ logThread' = IF hadWork THEN "test" ELSE "wait"
  /\ UNCHANGED <<queue, running, pc, message, ticket, hadWork, delivered, overtaken, history>>

Sleep ==
  /\ logThread = "wait"
  /\ logThread' = "asleep"
  /\ UNCHANGED <<queue, running, pc, message, ticket, hadWork, delivered, overtaken, history>>

\* A condition variable may wake a thread for no reason.
WakeForNothing ==
  /\ logThread = "asleep"
  /\ logThread' = "test"
  /\ UNCHANGED <<queue, running, pc, message, ticket, hadWork, delivered, overtaken, history>>

Leave ==
  /\ logThread = "drain" /\ empty(queue)
  /\ logThread' = "left"
  /\ UNCHANGED <<queue, running, pc, message, ticket, hadWork, delivered, overtaken, history>>

-----------------------------------------------------------------------------
(* avLogShutdown *)

\* The main thread comes here when the other threads have been joined.
BeginShutdown ==
  /\ pc[Main] = "idle" /\ \A t \in Threads : pc[t] = "idle"
  /\ Goto(Main, "shutdown")
  /\ UNCHANGED <<queue, running, message, ticket, log, overtaken, history>>

\* How many of the accepted messages have been pushed, up to the first that
\* has not.
pushed ==
  LET unpublished == {p \in queue.head .. queue.tail - 1 : queue.seq[slot(p)] # p + 1}
  IN IF unpublished = {} THEN queue.tail
     ELSE CHOOSE p \in unpublished : \A u \in unpublished : p <= u

StopRunning(t) ==
  /\ pc[t] = "shutdown"
  /\ running' = FALSE
  /\ due' = IF running THEN pushed ELSE due
  /\ Goto(t, "wake")
  /\ UNCHANGED <<queue, message, ticket, log, overtaken, accepted, messages, asserts>>

WakeToLeave(t) ==
  /\ pc[t] = "wake"
  /\ signal({"pop", "wait"})
  /\ Goto(t, "join")
  /\ UNCHANGED <<queue, running, message, ticket, hadWork, delivered, history>>

\* What follows is the end of the logger, and of the program in the thread
\* that has asserted.
Join(t) ==
  /\ pc[t] = "join" /\ logThread = "left"
  /\ Goto(t, IF asserts = 0 THEN "left" ELSE "aborted")
  /\ UNCHANGED <<queue, running, message, ticket, log, overtaken, history>>

-----------------------------------------------------------------------------

LogThread == TestRunning \/ Deliver \/ FoundNone \/ Sleep \/ Leave

Thread(t) ==
  \/ Reserve(t) \/ Drop(t) \/ Write(t) \/ Publish(t) \/ Signal(t)
  \/ StopRunning(t) \/ WakeToLeave(t) \/ Join(t)

Next ==
  /\ ~Aborted
  /\ \/ LogThread \/ WakeForNothing \/ BeginShutdown
     \/ \E t \in Threads : Log(t) \/ Thread(t)

Spec == Init /\ [][Next]_vars

\* Every thread goes on, but none has to log, and nothing wakes the log thread
\* for no reason.
Fairness ==
  /\ WF_vars(~Aborted /\ LogThread)
  /\ \A t \in Threads : WF_vars(~Aborted /\ Thread(t))

FairSpec == Spec /\ Fairness

-----------------------------------------------------------------------------
(* Properties *)

\* The sinks get the accepted messages in the order of their tickets, each once
\* and whole, also when the queue is full and its slots are used again; and when
\* the log thread has left, whoever shut the logger down, they have got all that
\* was pushed before the first shutdown.  A push that was not finished then hides
\* what was pushed after it (logging.c:75-100, 149-166, 190-225, mpmcQueue.c:23-91).
LogFaithful ==
  /\ delivered = SubSeq(accepted, 1, Len(delivered))
  /\ logThread = "left" => Len(delivered) >= due

\* Every accepted message gets to the sinks and every shutdown comes to its end,
\* unless the log thread sleeps for ever because a signal came between its look
\* at the queue, or at the running flag, and its wait (logging.c:84-93).
LogFlows ==
  \/ <>[](overtaken /\ logThread = "asleep")
  \/ /\ \A n \in 1 .. MaxMessages : Len(accepted) >= n ~> Len(delivered) >= n \/ logThread = "left"
     /\ \A t \in Threads : pc[t] = "shutdown" ~> pc[t] = "left" \/ Aborted

-----------------------------------------------------------------------------
(* The inductive invariant behind LogFaithful *)

Payload == (1 .. MaxMessages) \union {NoElement}
Slots == 0 .. QueueSize - 1
Pushing(t) == pc[t] \in {"write", "publish"}

LogTyped ==
  /\ queue \in [head : Nat, tail : Nat, seq : [Slots -> Nat], data : [Slots -> Payload]]
  /\ running \in BOOLEAN
  /\ pc \in [Threads -> {"idle", "reserve", "write", "publish", "signal",
                         "shutdown", "wake", "join", "left", "aborted"}]
  /\ message \in [Threads -> Payload]
  /\ ticket \in [Threads -> Nat]
  /\ logThread \in {"test", "pop", "wait", "asleep", "drain", "left"}
  /\ accepted \in Seq(Payload) /\ delivered \in Seq(Payload)
  /\ due \in Nat
  /\ messages \in 0 .. MaxMessages

\* Every slot holds the position of this lap or the next one, and its sequence
\* number tells how far that position has come.
SlotsByLap ==
  /\ queue.head <= queue.tail /\ queue.tail <= queue.head + QueueSize
  /\ \A p \in queue.head .. queue.tail - 1 : queue.seq[slot(p)] \in {p, p + 1}
  /\ \A p \in queue.tail .. queue.head + QueueSize - 1 : queue.seq[slot(p)] = p

\* Who is pushing holds an unfinished position of his own.
PushesOwned ==
  /\ \A t \in Threads : Pushing(t) =>
       /\ ticket[t] \in queue.head .. queue.tail - 1
       /\ queue.seq[slot(ticket[t])] = ticket[t]
       /\ accepted[ticket[t] + 1] = message[t]
       /\ pc[t] = "publish" => queue.data[slot(ticket[t])] = message[t]
  /\ \A t, u \in Threads : Pushing(t) /\ Pushing(u) /\ ticket[t] = ticket[u] => t = u

\* A position that may be popped holds the message that got its ticket.
PublishedWhole ==
  \A p \in queue.head .. queue.tail - 1 :
    queue.seq[slot(p)] = p + 1 => queue.data[slot(p)] = accepted[p + 1]

\* What was popped went to the sinks, and every ticket belongs to a message.
PositionsCounted ==
  /\ Len(accepted) = queue.tail
  /\ Len(delivered) = queue.head
  /\ \A i \in 1 .. queue.head : delivered[i] = accepted[i]

\* What was pushed before the first shutdown can be popped, until it is.
ShutdownPromise ==
  /\ running => due = 0
  /\ due <= queue.tail
  /\ \A p \in queue.head .. due - 1 : queue.seq[slot(p)] = p + 1
  /\ logThread \in {"drain", "left"} => ~running
  /\ logThread = "left" => queue.head >= due

LogInv ==
  /\ LogTyped /\ SlotsByLap /\ PushesOwned /\ PublishedWhole
  /\ PositionsCounted /\ ShutdownPromise
=============================================================================
