-------------------------- MODULE EventLoop_proofs --------------------------
(***************************************************************************)
(* Proofs about EventLoop, for any callers, tasks and channels.            *)
(***************************************************************************)
EXTENDS EventLoop, TLAPS, SequenceTheorems

\* Between iterations there is no event in hand and no functor left to run.
HandsEmpty ==
  /\ loop \notin {"events", "handler"} => batch = {}
  /\ loop \notin {"functors", "functor"} => functors = <<>>

\* NoLostWakeup is not inductive: the loop must not even come back to poll
\* with a functor queued and no wakeup, that is, from the moment it has taken
\* the functors out.  While it handles events there need be none, since it
\* will take the functors out before it blocks.
LateTaskPending == \E i \in 1..Len(pending) : pending[i] \notin early
WakeupBeforePoll ==
  loop \notin {"events", "handler", "left"} /\ LateTaskPending => WakeupComing

IInv == TypeOK /\ HandsEmpty /\ WakeupStaysArmed /\ WakeupBeforePoll

-----------------------------------------------------------------------------
LEMMA InitIInv == Init => IInv
<1> SUFFICES ASSUME Init PROVE IInv
  OBVIOUS
<1>1. TypeOK
  <2>1. <<>> \in Seq(Tasks) /\ FALSE \in BOOLEAN
    OBVIOUS
  <2>2. ~(loop \in {"functors", "functor"}) /\ ~calling
    BY DEF Init
  <2>3. calling \in BOOLEAN /\ (calling <=> loop \in {"functors", "functor"})
    BY <2>2 DEF Init
  <2> QED BY <2>1, <2>3 DEF Init, TypeOK
<1>2. ~LateTaskPending
  BY DEF Init, LateTaskPending
<1> QED BY <1>1, <1>2
    DEF Init, IInv, HandsEmpty, WakeupStaysArmed, WakeupBeforePoll

LEMMA TypeStep == TypeOK /\ [Next]_vars => TypeOK'
<1> SUFFICES ASSUME TypeOK, [Next]_vars PROVE TypeOK'
  OBVIOUS
<1> USE DEF TypeOK
<1>1. CASE Enter
  BY <1>1 DEF Enter, queue, wakeups
<1>2. CASE Poll
  <2>1. Active \subseteq Channels \cup {Wakeup}
    BY DEF Active
  <2> QED BY <1>2, <2>1 DEF Poll, queue
<1>13. CASE HandleWakeup
  BY <1>13 DEF HandleWakeup, ReadEventfd, queue
<1>14. CASE CheckQuit
  BY <1>14 DEF CheckQuit, queue, wakeups
<1>3. CASE \E ch \in Channels : HandleEvents(ch) \/ Event(ch)
  BY <1>3 DEF HandleEvents, Event, queue, wakeups
<1>4. CASE HandlerReturns \/ FunctorReturns
  BY <1>4 DEF HandlerReturns, FunctorReturns, queue, wakeups
<1>5. CASE TakeFunctors
  BY <1>5 DEF TakeFunctors, SwapPending, wakeups
<1>6. CASE RunFunctor
  BY <1>6 DEF RunFunctor, queue, wakeups
<1>7. CASE FunctorsDone
  BY <1>7 DEF FunctorsDone, StopCalling, queue, wakeups
<1>8. CASE QuitFromLoop
  BY <1>8 DEF QuitFromLoop, queue, wakeups
<1>9. CASE \E t \in Tasks : QueueFromLoop(t)
  <2> PICK t \in Tasks : QueueFromLoop(t)
    BY <1>9
  <2>1. /\ pending' \in Seq(Tasks) /\ queued' \subseteq Tasks
        /\ early' \subseteq Tasks
    BY DEF QueueFromLoop, Push
  <2>2. eventfd' \in BOOLEAN /\ edge' \in BOOLEAN
    BY DEF QueueFromLoop, WriteEventfd, wakeups
  <2>3. UNCHANGED <<loop, quit, functors, calling, batch, ready, caller, done>>
    BY DEF QueueFromLoop
  <2> QED BY <2>1, <2>2, <2>3
<1>10. CASE \E c \in Callers : \E t \in Tasks : QueueInLoop(c, t)
  BY <1>10 DEF QueueInLoop, Push, wakeups
<1>11. CASE \E c \in Callers : Quit(c) \/ WakeLoop(c)
  <2> PICK c \in Callers : Quit(c) \/ WakeLoop(c)
    BY <1>11
  <2>1. CASE Quit(c)
    BY <2>1 DEF Quit, queue, wakeups
  <2>2. CASE WakeLoop(c)
    BY <2>2 DEF WakeLoop, WriteEventfd, queue
  <2> QED BY <2>1, <2>2
<1>12. CASE UNCHANGED vars
  BY <1>12 DEF vars, queue, wakeups
<1> QED BY <1>1, <1>2, <1>3, <1>4, <1>5, <1>6, <1>7, <1>8, <1>9, <1>10,
           <1>11, <1>12, <1>13, <1>14
        DEF Next, LoopThread, UserCalls, OtherThreads

LEMMA HandsStep == HandsEmpty /\ [Next]_vars => HandsEmpty'
<1> SUFFICES ASSUME HandsEmpty, [Next]_vars PROVE HandsEmpty'
  OBVIOUS
<1> USE DEF HandsEmpty
<1>1. CASE LoopThread
  BY <1>1 DEF LoopThread, Enter, CheckQuit, Poll, HandleWakeup, HandleEvents,
              HandlerReturns, TakeFunctors, RunFunctor, FunctorReturns,
              FunctorsDone
<1>2. CASE UserCalls
  BY <1>2 DEF UserCalls, QuitFromLoop, QueueFromLoop
<1>3. CASE OtherThreads
  BY <1>3 DEF OtherThreads, QueueInLoop, Quit, WakeLoop
<1>4. CASE (\E ch \in Channels : Event(ch)) \/ UNCHANGED vars
  BY <1>4 DEF Event, vars
<1> QED BY <1>1, <1>2, <1>3, <1>4 DEF Next

LEMMA ArmedStep ==
  TypeOK /\ HandsEmpty /\ WakeupStaysArmed /\ [Next]_vars => WakeupStaysArmed'
<1> SUFFICES ASSUME TypeOK, HandsEmpty, WakeupStaysArmed, [Next]_vars
             PROVE  WakeupStaysArmed'
  OBVIOUS
<1> USE DEF WakeupStaysArmed
<1>1. CASE Poll
  <2>1. Wakeup \notin batch
    BY <1>1 DEF Poll, HandsEmpty
  <2>2. eventfd => Wakeup \in Active
    BY <2>1 DEF Active
  <2> QED BY <1>1, <2>2 DEF Poll
<1>2. CASE HandleWakeup
  BY <1>2 DEF HandleWakeup, ReadEventfd
<1>3. CASE \E ch \in Channels : HandleEvents(ch)
  BY <1>3, WakeupAssumption DEF HandleEvents, wakeups
<1>4. CASE \/ Enter \/ CheckQuit \/ HandlerReturns \/ TakeFunctors \/ RunFunctor
           \/ FunctorReturns \/ FunctorsDone \/ QuitFromLoop
           \/ (\E ch \in Channels : Event(ch)) \/ UNCHANGED vars
  BY <1>4 DEF Enter, CheckQuit, HandlerReturns, TakeFunctors, RunFunctor,
              FunctorReturns, FunctorsDone, QuitFromLoop, Event, vars, wakeups
<1>5. CASE \E t \in Tasks : QueueFromLoop(t)
  BY <1>5 DEF QueueFromLoop, WriteEventfd, wakeups
<1>6. CASE OtherThreads
  <2> PICK c \in Callers : \/ Quit(c) \/ WakeLoop(c)
                          \/ \E t \in Tasks : QueueInLoop(c, t)
    BY <1>6 DEF OtherThreads
  <2>1. CASE WakeLoop(c)
    BY <2>1 DEF WakeLoop, WriteEventfd
  <2>2. CASE Quit(c) \/ \E t \in Tasks : QueueInLoop(c, t)
    BY <2>2 DEF Quit, QueueInLoop, wakeups
  <2> QED BY <2>1, <2>2
<1> QED BY <1>1, <1>2, <1>3, <1>4, <1>5, <1>6 DEF Next, LoopThread, UserCalls

\* Steps that queue nothing, take no wakeup back and leave the history alone.
LEMMA NothingQueued ==
  ASSUME WakeupBeforePoll, UNCHANGED queue,
         loop' \notin {"events", "handler", "left"} =>
           loop \notin {"events", "handler", "left"},
         WakeupComing => WakeupComing'
  PROVE  WakeupBeforePoll'
BY DEF WakeupBeforePoll, LateTaskPending, queue

LEMMA WakeupStep ==
  TypeOK /\ WakeupBeforePoll /\ [Next]_vars => WakeupBeforePoll'
<1> SUFFICES ASSUME TypeOK, WakeupBeforePoll, [Next]_vars
             PROVE  WakeupBeforePoll'
  OBVIOUS
<1>1. CASE \/ Enter \/ CheckQuit \/ HandlerReturns \/ RunFunctor
           \/ FunctorReturns \/ FunctorsDone \/ QuitFromLoop
           \/ (\E ch \in Channels : Event(ch)) \/ UNCHANGED vars
  <2>1. UNCHANGED <<queue, wakeups, caller>>
    BY <1>1 DEF Enter, CheckQuit, HandlerReturns, RunFunctor, FunctorReturns,
                FunctorsDone, QuitFromLoop, Event, vars
  <2>2. loop' \notin {"events", "handler", "left"} =>
          loop \notin {"events", "handler", "left"}
    BY <1>1 DEF Enter, CheckQuit, HandlerReturns, RunFunctor, FunctorReturns,
                FunctorsDone, QuitFromLoop, Event, vars
  <2>3. WakeupComing => WakeupComing'
    BY <2>1 DEF WakeupComing, wakeups
  <2> QED BY <2>1, <2>2, <2>3, NothingQueued
<1>2. CASE Poll \/ HandleWakeup \/ \E ch \in Channels : HandleEvents(ch)
  BY <1>2 DEF Poll, HandleWakeup, HandleEvents, WakeupBeforePoll
<1>3. CASE TakeFunctors
  <2>1. ~LateTaskPending'
    BY <1>3 DEF TakeFunctors, SwapPending, LateTaskPending
  <2> QED BY <2>1 DEF WakeupBeforePoll
<1>4. CASE \E t \in Tasks : QueueFromLoop(t)
  <2> PICK t \in Tasks : QueueFromLoop(t)
    BY <1>4
  <2>1. CASE loop = "start"
    <3>1. /\ pending' = Append(pending, t) /\ early' = early \cup {t}
          /\ pending \in Seq(Tasks) /\ ~calling /\ UNCHANGED <<loop, caller>>
      BY <2>1 DEF QueueFromLoop, Push, TypeOK
    <3>2. LateTaskPending' => LateTaskPending
      BY <3>1 DEF LateTaskPending
    <3>3. UNCHANGED wakeups
      BY <3>1 DEF QueueFromLoop, NeedsWakeup
    <3> QED BY <2>1, <3>1, <3>2, <3>3
        DEF WakeupBeforePoll, WakeupComing, wakeups
  <2>2. CASE loop = "functor"
    BY <2>2 DEF QueueFromLoop, NeedsWakeup, WriteEventfd, TypeOK,
                WakeupBeforePoll, WakeupComing
  <2>3. CASE loop = "handler"
    BY <2>3 DEF QueueFromLoop, WakeupBeforePoll
  <2> QED BY <2>1, <2>2, <2>3 DEF QueueFromLoop, UserCode
<1>5. CASE OtherThreads
  <2> PICK c \in Callers : \/ Quit(c) \/ WakeLoop(c)
                          \/ \E t \in Tasks : QueueInLoop(c, t)
    BY <1>5 DEF OtherThreads
  <2>1. CASE WakeLoop(c)
    BY <2>1 DEF WakeLoop, WriteEventfd, WakeupBeforePoll, WakeupComing
  <2>2. CASE Quit(c) \/ \E t \in Tasks : QueueInLoop(c, t)
    <3>1. caller'[c] = "wakeup"
      BY <2>2 DEF Quit, QueueInLoop, TypeOK
    <3> QED BY <3>1 DEF WakeupBeforePoll, WakeupComing
  <2> QED BY <2>1, <2>2
<1> QED BY <1>1, <1>2, <1>3, <1>4, <1>5 DEF Next, LoopThread, UserCalls

LEMMA StepIInv == IInv /\ [Next]_vars => IInv'
BY TypeStep, HandsStep, ArmedStep, WakeupStep DEF IInv

-----------------------------------------------------------------------------
(* The theorems.                                                           *)

\* The inductive invariant holds of every state of the loop.
THEOREM Invariance == Spec => []IInv
BY InitIInv, StepIInv, PTL DEF Spec

\* The loop's variables keep their types, and callingPendingFunctors_ is true
\* exactly while doPendingFunctors runs functors (EventLoop.cpp:113-121).
THEOREM TypeCorrect == Spec => []TypeOK
BY Invariance, PTL DEF IInv

\* The comment of queueInLoop (EventLoop.cpp:86-87): a task queued from
\* another thread, a handler or a functor never waits for a loop that blocks
\* in poll with nothing to wake it.
THEOREM WakeupNotLost == Spec => []NoLostWakeup
<1>1. IInv => NoLostWakeup
  BY DEF IInv, WakeupBeforePoll, LateTaskPending, NoLostWakeup
<1> QED BY <1>1, Invariance, PTL

\* Registered with EPOLLET (EventLoop.cpp:37, 71), the eventfd is still
\* reported after every later write to it.
THEOREM EventfdArmed == Spec => []WakeupStaysArmed
BY Invariance, PTL DEF IInv

-----------------------------------------------------------------------------
(* The loop implements the queue of tasks.                                 *)

LEMMA TailOfConcat ==
  ASSUME NEW s \in Seq(Tasks), NEW u \in Seq(Tasks), s # <<>>
  PROVE  /\ s \o u # <<>>
         /\ Head(s \o u) = Head(s)
         /\ Tail(s \o u) = Tail(s) \o u
<1>1. /\ s \o u \in Seq(Tasks) /\ Len(s \o u) = Len(s) + Len(u)
      /\ Tail(s) \in Seq(Tasks) /\ Len(Tail(s)) = Len(s) - 1
      /\ Len(s) \in Nat /\ Len(s) > 0 /\ Len(u) \in Nat
  OBVIOUS
<1>2. s \o u # <<>> /\ Head(s \o u) = Head(s)
  BY <1>1
<1>3. /\ Tail(s \o u) \in Seq(Tasks) /\ Tail(s) \o u \in Seq(Tasks)
      /\ Len(Tail(s \o u)) = Len(Tail(s) \o u)
  BY <1>1, <1>2
<1>4. ASSUME NEW i \in 1..Len(Tail(s \o u))
      PROVE  Tail(s \o u)[i] = (Tail(s) \o u)[i]
  BY <1>1, <1>2, <1>3
<1> QED BY <1>2, <1>3, <1>4, SeqEqual

LEMMA InitRefines == Init => Queue!Init
BY DEF Init, Queue!Init

LEMMA PushRefines ==
  ASSUME TypeOK, NEW t \in Tasks, Push(t), UNCHANGED <<functors, done>>
  PROVE  Queue!Next
<1>1. functors' \o pending' = Append(functors \o pending, t)
  BY DEF TypeOK, Push
<1>2. Queue!Accept(t)
  BY <1>1 DEF Queue!Accept
<1> QED BY <1>2 DEF Queue!Next

LEMMA StepRefines == IInv /\ [Next]_vars => [Queue!Next]_Queue!vars
<1> SUFFICES ASSUME IInv, [Next]_vars PROVE [Queue!Next]_Queue!vars
  OBVIOUS
<1> TypeOK
  BY DEF IInv
<1>1. CASE RunFunctor
  <2>1. /\ functors # <<>> /\ functors' = Tail(functors) /\ pending' = pending
        /\ done' = Append(done, Head(functors))
    BY <1>1 DEF RunFunctor, queue
  <2>2. /\ functors \o pending # <<>>
        /\ functors' \o pending' = Tail(functors \o pending)
        /\ Head(functors \o pending) = Head(functors)
    BY <2>1, TailOfConcat DEF TypeOK
  <2>3. Queue!Execute
    BY <2>1, <2>2 DEF Queue!Execute
  <2> QED BY <2>3 DEF Queue!Next
<1>2. CASE TakeFunctors
  <2>1. functors = <<>>
    BY <1>2 DEF TakeFunctors, IInv, HandsEmpty
  <2>2. functors' = pending /\ pending' = <<>> /\ done' = done
    BY <1>2 DEF TakeFunctors, SwapPending
  <2>3. functors' \o pending' = functors \o pending
    BY <2>1, <2>2 DEF TypeOK
  <2> QED BY <2>2, <2>3 DEF Queue!vars
<1>3. CASE \E t \in Tasks : QueueFromLoop(t)
  BY <1>3, PushRefines DEF QueueFromLoop
<1>4. CASE \E c \in Callers : \E t \in Tasks : QueueInLoop(c, t)
  BY <1>4, PushRefines DEF QueueInLoop
<1>5. CASE \/ Enter \/ CheckQuit \/ Poll \/ HandleWakeup
           \/ (\E ch \in Channels : HandleEvents(ch) \/ Event(ch))
           \/ HandlerReturns \/ FunctorReturns \/ FunctorsDone \/ QuitFromLoop
           \/ (\E c \in Callers : Quit(c) \/ WakeLoop(c)) \/ UNCHANGED vars
  <2>1. UNCHANGED <<functors, pending, done>>
    BY <1>5 DEF Enter, CheckQuit, Poll, HandleWakeup, HandleEvents, Event,
                HandlerReturns, FunctorReturns, FunctorsDone, QuitFromLoop,
                Quit, WakeLoop, vars, queue
  <2> QED BY <2>1 DEF Queue!vars
<1> QED BY <1>1, <1>2, <1>3, <1>4, <1>5
    DEF Next, LoopThread, UserCalls, OtherThreads

\* doPendingFunctors and queueInLoop (EventLoop.cpp:81-88, 111-122) together
\* are one FIFO queue that starts every task at most once, although the
\* functors are swapped out and run without the mutex.
THEOREM Refinement == Spec => ImplementsTaskQueue
BY InitRefines, StepRefines, Invariance, PTL
DEF Spec, ImplementsTaskQueue, Queue!Spec
=============================================================================
