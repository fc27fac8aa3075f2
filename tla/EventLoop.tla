----------------------------- MODULE EventLoop -----------------------------
(***************************************************************************)
(* EventLoop.{h,cpp}: one reactor.  The loop thread polls, handles the     *)
(* active channels, runs the functors other threads queued and starts      *)
(* over; queueInLoop and quit may be called by any thread.  Epoll::poll    *)
(* and the wakeup channel are modelled as far as the loop depends on them: *)
(* an eventfd registered edge-triggered, and channels that become active.  *)
(*                                                                         *)
(* An operator that stands directly before the one it varies (NeverWake    *)
(* before NeedsWakeup) is a slip the properties must notice, used by no    *)
(* action.                                                                 *)
(***************************************************************************)
EXTENDS Naturals, Sequences

CONSTANTS
  Callers,    \* the threads other than the loop's own
  Tasks,      \* the functors; each is queued at most once (a bound)
  Channels,   \* the registered channels besides the wakeup channel
  Wakeup      \* pwakeupChannel_

ASSUME WakeupAssumption == Wakeup \notin Channels

VARIABLES
  loop,       \* control point of the loop thread
  quit,       \* quit_
  pending,    \* pendingFunctors_
  functors,   \* doPendingFunctors' functors, those not started
  calling,    \* callingPendingFunctors_
  batch,      \* the active channels of this iteration, not yet handled
  ready,      \* channels with an event epoll_wait has not reported
  eventfd,    \* the counter of wakeupFd_ is not zero
  edge,       \* wakeupFd_ is on epoll's list of descriptors to report
  caller,     \* caller[c]: control point of caller c
  early,      \* history: tasks the loop's own thread queued before loop()
  queued,     \* history: all tasks queued
  done        \* history: the tasks started, in order

wakeups == <<eventfd, edge>>
queue   == <<pending, early, queued>>
vars == <<loop, quit, queue, functors, calling, batch, ready, wakeups, caller,
          done>>

-----------------------------------------------------------------------------
(* The wakeup descriptor.                                                  *)

\* wakeup(): the write makes wakeupFd_ readable and is a new edge.
WriteNothing == UNCHANGED wakeups
WriteEventfd == eventfd' = TRUE /\ edge' = TRUE

\* handleRead(): the read takes the counter to zero.
LeaveCounter == UNCHANGED wakeups
ReadEventfd == eventfd' = FALSE /\ UNCHANGED edge

\* Epoll::poll has something to report: an edge on a descriptor that is
\* readable still, or another channel's event.
Active == ready \cup (IF edge /\ eventfd THEN {Wakeup} ELSE {})

-----------------------------------------------------------------------------
(* queueInLoop(), runInLoop() and quit() called by another thread.         *)

\* The critical section of queueInLoop.
Push(t) ==
  /\ t \notin queued
  /\ queued' = queued \cup {t}
  /\ pending' = Append(pending, t)

\* From another thread runInLoop is queueInLoop.
QueueInLoop(c, t) ==
  /\ caller[c] = "idle"
  /\ Push(t)
  /\ caller' = [caller EXCEPT ![c] = "wakeup"]
  /\ UNCHANGED <<loop, quit, functors, calling, batch, ready, wakeups, early,
                 done>>

QuitSilently(c) ==
  /\ caller[c] = "idle"
  /\ quit' = TRUE
  /\ UNCHANGED <<loop, queue, functors, calling, batch, ready, wakeups, caller,
                 done>>
Quit(c) ==
  /\ caller[c] = "idle"
  /\ quit' = TRUE
  /\ caller' = [caller EXCEPT ![c] = "wakeup"]
  /\ UNCHANGED <<loop, queue, functors, calling, batch, ready, wakeups, done>>

WakeLoop(c) ==
  /\ caller[c] = "wakeup"
  /\ WriteEventfd
  /\ caller' = [caller EXCEPT ![c] = "idle"]
  /\ UNCHANGED <<loop, quit, queue, functors, calling, batch, ready, done>>

-----------------------------------------------------------------------------
(* User code that runs in the loop thread: before loop(), in a channel's   *)
(* handler, in a functor.                                                  *)

UserCode == {"start", "handler", "functor"}

\* queueInLoop: the loop's own thread wakes itself only between functors.
NeverWake == FALSE
NeedsWakeup == calling

QueueFromLoop(t) ==
  /\ loop \in UserCode
  /\ Push(t)
  /\ IF NeedsWakeup THEN WriteEventfd ELSE UNCHANGED wakeups
  /\ early' = IF loop = "start" THEN early \cup {t} ELSE early
  /\ UNCHANGED <<loop, quit, functors, calling, batch, ready, caller, done>>

QuitFromLoop ==
  /\ loop \in UserCode
  /\ quit' = TRUE
  /\ UNCHANGED <<loop, queue, functors, calling, batch, ready, wakeups, caller,
                 done>>

-----------------------------------------------------------------------------
(* loop()                                                                  *)

Enter ==
  /\ loop = "start"
  /\ loop' = "check"
  /\ quit' = FALSE
  /\ UNCHANGED <<queue, functors, calling, batch, ready, wakeups, caller, done>>

\* while (!quit_)
CheckQuit ==
  /\ loop = "check"
  /\ loop' = IF quit THEN "left" ELSE "poll"
  /\ UNCHANGED <<quit, queue, functors, calling, batch, ready, wakeups, caller,
                 done>>

\* Epoll::poll returns all active channels and blocks while there are none.
Poll ==
  /\ loop = "poll" /\ Active # {}
  /\ loop' = "events"
  /\ batch' = Active
  /\ ready' = {}
  /\ edge' = FALSE
  /\ UNCHANGED <<quit, queue, functors, calling, eventfd, caller, done>>

\* handleEvents of the wakeup channel.
HandleWakeup ==
  /\ loop = "events" /\ Wakeup \in batch
  /\ batch' = batch \ {Wakeup}
  /\ ReadEventfd
  /\ UNCHANGED <<loop, quit, queue, functors, calling, ready, caller, done>>

\* handleEvents of another channel calls its handlers, which return.
HandleEvents(ch) ==
  /\ loop = "events" /\ ch \in batch
  /\ loop' = "handler"
  /\ batch' = batch \ {ch}
  /\ UNCHANGED <<quit, queue, functors, calling, ready, wakeups, caller, done>>

HandlerReturns ==
  /\ loop = "handler"
  /\ loop' = "events"
  /\ UNCHANGED <<quit, queue, functors, calling, batch, ready, wakeups, caller,
                 done>>

\* functors.swap(pendingFunctors_)
CopyPending == functors' = pending /\ UNCHANGED pending
SwapPending == functors' = pending /\ pending' = <<>>

\* doPendingFunctors up to its critical section.
TakeFunctors ==
  /\ loop = "events" /\ batch = {}
  /\ loop' = "functors"
  /\ calling' = TRUE
  /\ SwapPending
  /\ UNCHANGED <<quit, early, queued, batch, ready, wakeups, caller, done>>

RunFunctor ==
  /\ loop = "functors" /\ functors # <<>>
  /\ loop' = "functor"
  /\ functors' = Tail(functors)
  /\ done' = Append(done, Head(functors))
  /\ UNCHANGED <<quit, queue, calling, batch, ready, wakeups, caller>>

FunctorReturns ==
  /\ loop = "functor"
  /\ loop' = "functors"
  /\ UNCHANGED <<quit, queue, functors, calling, batch, ready, wakeups, caller,
                 done>>

KeepCalling == UNCHANGED calling
StopCalling == calling' = FALSE

\* The end of doPendingFunctors; handleExpired only touches timers.
FunctorsDone ==
  /\ loop = "functors" /\ functors = <<>>
  /\ loop' = "check"
  /\ StopCalling
  /\ UNCHANGED <<quit, queue, functors, batch, ready, wakeups, caller, done>>

-----------------------------------------------------------------------------
\* The kernel: an event on a registered channel.
Event(ch) ==
  /\ ch \notin ready
  /\ ready' = ready \cup {ch}
  /\ UNCHANGED <<loop, quit, queue, functors, calling, batch, wakeups, caller,
                 done>>

Init ==
  /\ loop = "start" /\ quit = FALSE
  /\ pending = <<>> /\ early = {} /\ queued = {}
  /\ functors = <<>> /\ calling = FALSE /\ batch = {} /\ ready = {}
  /\ eventfd = FALSE /\ edge = FALSE
  /\ caller = [c \in Callers |-> "idle"]
  /\ done = <<>>

LoopThread == \/ Enter \/ CheckQuit \/ Poll
              \/ HandleWakeup \/ (\E ch \in Channels : HandleEvents(ch))
              \/ HandlerReturns \/ TakeFunctors \/ RunFunctor
              \/ FunctorReturns \/ FunctorsDone

UserCalls == QuitFromLoop \/ \E t \in Tasks : QueueFromLoop(t)

OtherThreads == \E c \in Callers : \/ Quit(c) \/ WakeLoop(c)
                                   \/ \E t \in Tasks : QueueInLoop(c, t)

Next == \/ LoopThread \/ UserCalls \/ OtherThreads
        \/ \E ch \in Channels : Event(ch)

\* The scheduler runs the loop thread and ends every call of wakeup(); user
\* code returns.  No event has to come, nobody has to queue or quit.
Fairness == /\ WF_vars(LoopThread)
            /\ \A c \in Callers : WF_vars(WakeLoop(c))

Spec == Init /\ [][Next]_vars

FairSpec == Spec /\ Fairness

-----------------------------------------------------------------------------
(* Properties                                                              *)

\* Every variable has a value of the kind the code gives it, and
\* callingPendingFunctors_ is set exactly while functors are run.
TypeOK ==
  /\ loop \in {"start", "check", "poll", "events", "handler", "functors",
               "functor", "left"}
  /\ quit \in BOOLEAN /\ eventfd \in BOOLEAN /\ edge \in BOOLEAN
  /\ pending \in Seq(Tasks) /\ functors \in Seq(Tasks) /\ done \in Seq(Tasks)
  /\ calling \in BOOLEAN /\ (calling <=> loop \in {"functors", "functor"})
  /\ batch \subseteq Channels \cup {Wakeup} /\ ready \subseteq Channels
  /\ caller \in [Callers -> {"idle", "wakeup"}]
  /\ early \subseteq Tasks /\ queued \subseteq Tasks

\* What queueInLoop's comment asks of wakeup: the loop never blocks in poll
\* on a queued functor with nothing coming that ends the block.  A task that
\* the loop's own thread queued before loop() has no such guarantee.
WakeupComing == (edge /\ eventfd) \/ \E c \in Callers : caller[c] = "wakeup"
NoLostWakeup ==
  loop = "poll" /\ (\E i \in 1..Len(pending) : pending[i] \notin early)
    => WakeupComing

\* The edge-triggered eventfd never goes deaf: if it is readable and its
\* event is not in hand, epoll is still going to report it.
WakeupStaysArmed == eventfd /\ Wakeup \notin batch => edge

\* Swapping the functors out keeps the order in which they were queued, and
\* runs each at most once.
Queue == INSTANCE TaskQueue
           WITH accepted <- functors \o pending, executed <- done
ImplementsTaskQueue == Queue!Spec

Started(t) == \E i \in 1..Len(done) : done[i] = t

\* Every queued task is run unless the loop is left, but for those queued
\* before loop() by the loop's own thread.
TasksRun ==
  \A t \in Tasks :
    (t \in queued /\ t \notin early) ~> (Started(t) \/ loop = "left")

\* quit() ends the loop, from whichever thread and at whichever moment it is
\* called once loop() has been entered.
QuitLeaves == (quit /\ loop # "start") ~> (loop = "left")
=============================================================================
