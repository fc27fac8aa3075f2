-------------------------- MODULE EventLoopThread --------------------------
(***************************************************************************)
(* EventLoopThread.{h,cpp}: an owner starts a Thread whose function builds *)
(* an EventLoop on its own stack, publishes its address and runs it; the   *)
(* owner's destructor quits the loop and joins the thread.  Composes       *)
(* EventLoop and Thread.  The owner is one of the loop's callers; the      *)
(* others use the address startLoop returned.                              *)
(*                                                                         *)
(* An operator that stands directly before the one it varies (WaitNot      *)
(* before WaitForLoop) is a slip the properties must notice, used by no    *)
(* action.                                                                 *)
(***************************************************************************)
EXTENDS EventLoop

CONSTANT Owner   \* the thread that owns the EventLoopThread

ASSUME OwnerAssumption == Owner \in Callers

VARIABLES
  creator, body, started, joined, tid, count,   \* of thread_
  owner,      \* control point of startLoop() and the destructor
  func,       \* control point of threadFunc()
  loopPtr,    \* loop_ is not NULL
  alive,      \* threadFunc's local EventLoop exists
  exiting,    \* exiting_
  quitLost    \* history: loop() overwrote a quit_ that was already set

thread == <<creator, body, started, joined, tid, count>>
own    == <<owner, func, loopPtr, alive, exiting, quitLost>>
allVars == <<vars, thread, own>>

T == INSTANCE Thread

-----------------------------------------------------------------------------
(* startLoop()                                                             *)

\* thread_.start(), which may create a thread or fail to.
StartThread ==
  /\ owner = "new"
  /\ owner' = "starting"
  /\ T!CreateSucceeds \/ T!CreateFails
  /\ UNCHANGED <<vars, func, loopPtr, alive, exiting, quitLost>>

ThreadStarting ==
  /\ T!StartReturning
  /\ UNCHANGED <<vars, own>>

\* Behind thread_.start(): waits on cond_ while loop_ is NULL.  A spurious
\* wakeup only repeats the test.
WaitNot == owner' = "up"
WaitForLoop == owner' = IF loopPtr THEN "up" ELSE "waiting"
AwaitLoop ==
  /\ owner = "starting" /\ creator \in {"running", "failed"}
  /\ WaitForLoop
  /\ UNCHANGED <<vars, thread, func, loopPtr, alive, exiting, quitLost>>

-----------------------------------------------------------------------------
(* threadFunc()                                                            *)

ThreadRuns ==
  /\ T!RunInThread
  /\ func' = IF body' = "func" THEN "construct" ELSE func
  /\ UNCHANGED <<vars, owner, loopPtr, alive, exiting, quitLost>>

ConstructLoop ==
  /\ func = "construct"
  /\ func' = "publish"
  /\ alive' = TRUE
  /\ UNCHANGED <<vars, thread, owner, loopPtr, exiting, quitLost>>

\* loop_ = &loop, and notify wakes the owner if it waits.
PublishSilently ==
  /\ func = "publish"
  /\ func' = "loop"
  /\ loopPtr' = TRUE
  /\ UNCHANGED <<vars, thread, owner, alive, exiting, quitLost>>
Publish ==
  /\ func = "publish"
  /\ func' = "loop"
  /\ loopPtr' = TRUE
  /\ owner' = IF owner = "waiting" THEN "starting" ELSE owner
  /\ UNCHANGED <<vars, thread, alive, exiting, quitLost>>

\* loop.loop(); user code runs in its handlers and functors.
RunLoop ==
  /\ func = "loop"
  /\ LoopThread
  /\ quitLost' = (quitLost \/ (loop = "start" /\ quit))
  /\ UNCHANGED <<thread, owner, func, loopPtr, alive, exiting>>

FunctorQueues(t) ==
  /\ func = "loop" /\ loop # "start"
  /\ QueueFromLoop(t)
  /\ UNCHANGED <<thread, own>>

\* loop_ = NULL, without the mutex.
ClearPtr ==
  /\ func = "loop" /\ loop = "left"
  /\ func' = "destruct"
  /\ loopPtr' = FALSE
  /\ UNCHANGED <<vars, thread, owner, alive, exiting, quitLost>>

\* ~EventLoop closes wakeupFd_, and threadFunc returns.
DestroyLoop ==
  /\ func = "destruct"
  /\ func' = "done"
  /\ alive' = FALSE
  /\ T!FuncReturns
  /\ UNCHANGED <<vars, owner, loopPtr, exiting, quitLost>>

-----------------------------------------------------------------------------
(* ~EventLoopThread()                                                      *)

\* exiting_ = true and the test of loop_.
Destruct ==
  /\ owner \in {"new", "up"} /\ caller[Owner] = "idle"
  /\ owner' = IF loopPtr THEN "quit" ELSE "destroy"
  /\ exiting' = TRUE
  /\ UNCHANGED <<vars, thread, func, loopPtr, alive, quitLost>>

\* loop_->quit(): first quit_ = true, then wakeup().
QuitLoop ==
  /\ owner = "quit"
  /\ owner' = "wakeup"
  /\ Quit(Owner)
  /\ UNCHANGED <<thread, func, loopPtr, alive, exiting, quitLost>>

\* A write to the descriptor of a destroyed loop wakes nobody.
Wake(c) == IF alive THEN WakeLoop(c)
           ELSE /\ caller[c] = "wakeup"
                /\ caller' = [caller EXCEPT ![c] = "idle"]
                /\ UNCHANGED <<loop, quit, queue, functors, calling, batch,
                               ready, wakeups, done>>

WakeupAndJoin ==
  /\ owner = "wakeup"
  /\ owner' = "join"
  /\ Wake(Owner)
  /\ T!Join
  /\ UNCHANGED <<func, loopPtr, alive, exiting, quitLost>>

JoinThread ==
  /\ owner = "join"
  /\ owner' = "destroy"
  /\ T!JoinReturns
  /\ UNCHANGED <<vars, func, loopPtr, alive, exiting, quitLost>>

\* The members are destroyed, thread_ among them.
DestroyMembers ==
  /\ owner = "destroy"
  /\ owner' = "gone"
  /\ T!Destroy
  /\ UNCHANGED <<vars, func, loopPtr, alive, exiting, quitLost>>

-----------------------------------------------------------------------------
(* The owner and other callers use the loop while its owner keeps it up.   *)

CallerQueues(c, t) ==
  /\ owner = "up"
  /\ QueueInLoop(c, t)
  /\ UNCHANGED <<thread, own>>

CallerWakes(c) ==
  /\ c # Owner \/ owner = "up"
  /\ Wake(c)
  /\ UNCHANGED <<thread, own>>

ChannelEvent(ch) ==
  /\ alive
  /\ Event(ch)
  /\ UNCHANGED <<thread, own>>

-----------------------------------------------------------------------------
LifeInit ==
  /\ Init /\ T!Init
  /\ owner = "new" /\ func = "none" /\ loopPtr = FALSE /\ alive = FALSE
  /\ exiting = FALSE /\ quitLost = FALSE

CreatedThread == \/ ThreadRuns \/ ConstructLoop \/ Publish \/ RunLoop
                 \/ ClearPtr \/ DestroyLoop

OwnerProceeds == \/ ThreadStarting \/ AwaitLoop \/ QuitLoop \/ WakeupAndJoin
                 \/ JoinThread \/ DestroyMembers

LifeNext ==
  \/ StartThread \/ OwnerProceeds \/ CreatedThread \/ Destruct
  \/ \E t \in Tasks : FunctorQueues(t)
  \/ \E c \in Callers : CallerWakes(c) \/ \E t \in Tasks : CallerQueues(c, t)
  \/ \E ch \in Channels : ChannelEvent(ch)

\* EventLoopThreadPool.tla states what of this is fair.
LifeSpec == LifeInit /\ [][LifeNext]_allVars

-----------------------------------------------------------------------------
(* Properties                                                              *)

\* Every variable has a value of the kind the code gives it; EventLoop's
\* own TypeOK holds too.
LifeTypeOK ==
  /\ TypeOK
  /\ creator \in {"idle", "failed", "latch", "waiting", "running", "joining",
                  "joined", "destroyed"}
  /\ body \in {"none", "begin", "counting", "naming", "func", "ended"}
  /\ started \in BOOLEAN /\ joined \in BOOLEAN
  /\ tid \in {0, 1} /\ count \in {0, 1}
  /\ owner \in {"new", "starting", "waiting", "up", "quit", "wakeup", "join",
                "destroy", "gone"}
  /\ func \in {"none", "construct", "publish", "loop", "destruct", "done"}
  /\ loopPtr \in BOOLEAN /\ alive \in BOOLEAN /\ exiting \in BOOLEAN
  /\ quitLost \in BOOLEAN

\* What the latch of Thread::start is worth: when start() has returned the
\* thread's id is known (its assertion), and the new thread is done with the
\* members of a Thread that its owner may destroy from then on.
ThreadMembersOutliveUse ==
  /\ creator \in {"running", "joining", "joined"} => tid > 0 /\ count = 0
  /\ body \in {"begin", "counting"} => creator \notin {"running", "destroyed"}

\* Whoever startLoop or the destructor gives a loop to finds it alive: the
\* address startLoop returns, and the one the destructor calls quit() on.
PublishedLoopIsAlive == owner \in {"up", "quit"} => alive /\ loopPtr

\* startLoop returns, provided its thread could be created.
StartLoopReturns ==
  [](creator # "failed") => (owner = "starting" ~> owner = "up")

\* The destructor ends, unless its quit() came between startLoop's return
\* and loop(), which resets quit_.
DestructorReturns ==
  (owner = "quit") ~> (owner = "gone" \/ quitLost)

\* quit() checks that its wakeup reaches the loop (EventLoop.cpp:58-61), so
\* the loop should still be there when the destructor comes to write.
WakeupReachesLoop == owner = "wakeup" => alive
=============================================================================
