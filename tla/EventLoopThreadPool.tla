------------------------ MODULE EventLoopThreadPool ------------------------
(***************************************************************************)
(* EventLoopThreadPool.{h,cpp}: the base loop's thread starts a number of  *)
(* EventLoopThreads one after the other, hands their loops out in turn,    *)
(* and destroys them.  One of them is EventLoopThread.tla's, with all its  *)
(* steps, and the base loop's thread is its owner; of the others there is  *)
(* what that module shows: startLoop returns a loop, or never returns.     *)
(*                                                                         *)
(* An operator that stands directly before the one it varies (TurnEarly    *)
(* before Turn) is a slip the properties must notice, used by no action.   *)
(***************************************************************************)
EXTENDS EventLoopThread

CONSTANTS
  NumThreads,  \* numThreads_
  This,        \* the place of EventLoopThread's thread in threads_
  MaxGiven     \* calls of getNextLoop (a bound)

\* The constructor aborts if numThreads_ <= 0.
ASSUME PoolAssumption ==
  /\ NumThreads \in Nat \ {0} /\ This \in 0..NumThreads - 1
  /\ MaxGiven \in Nat

Places == 0..NumThreads - 1

VARIABLES
  base,    \* control point of the base loop's thread
  loops,   \* loops_, by the places of their threads
  next,    \* next_
  given    \* history: how often getNextLoop has returned each loop

pool == <<base, loops, next, given>>
poolVars == <<allVars, pool>>

-----------------------------------------------------------------------------
(* start()                                                                 *)

Start ==
  /\ base = "new"
  /\ base' = "start"
  /\ UNCHANGED <<allVars, loops, next, given>>

\* loops_.push_back(t->startLoop())
StartOther ==
  /\ base = "start" /\ Len(loops) < NumThreads /\ Len(loops) # This
  /\ \/ loops' = Append(loops, Len(loops)) /\ UNCHANGED base
     \/ base' = "hung" /\ UNCHANGED loops
  /\ UNCHANGED <<allVars, next, given>>

StartThis ==
  /\ base = "start" /\ Len(loops) = This
  /\ StartThread
  /\ UNCHANGED pool

KeepThis ==
  /\ base = "start" /\ Len(loops) = This /\ owner = "up"
  /\ loops' = Append(loops, This)
  /\ UNCHANGED <<allVars, base, next, given>>

StartReturns ==
  /\ base = "start" /\ Len(loops) = NumThreads
  /\ base' = "started"
  /\ UNCHANGED <<allVars, loops, next, given>>

-----------------------------------------------------------------------------
(* getNextLoop()                                                           *)

TurnEarly(k) == (k + 1) % (NumThreads - 1)
Turn(k) == (k + 1) % NumThreads

GetNextLoop ==
  /\ base = "started" /\ caller[Owner] = "idle"
  /\ base' = IF loops[next + 1] = This THEN "dispatch" ELSE "started"
  /\ \E k \in Places : given[k] < MaxGiven
  /\ given' = [given EXCEPT ![loops[next + 1]] = @ + 1]
  /\ next' = Turn(next)
  /\ UNCHANGED <<allVars, loops>>

\* The base loop's thread queues a functor in the loop it was given, if it
\* has one left; its wakeup() is a step of its own.
Dispatch ==
  /\ base = "dispatch"
  /\ base' = "started"
  /\ \/ \E t \in Tasks : CallerQueues(Owner, t)
     \/ queued = Tasks /\ UNCHANGED allVars
  /\ UNCHANGED <<loops, next, given>>

DispatchWakes ==
  /\ CallerWakes(Owner)
  /\ UNCHANGED pool

-----------------------------------------------------------------------------
\* threads_ is destroyed, and this thread's turn comes.
DestroyThreads ==
  /\ base = "started"
  /\ base' = "destroy"
  /\ Destruct
  /\ UNCHANGED <<loops, next, given>>

PoolInit ==
  /\ LifeInit
  /\ base = "new" /\ loops = <<>> /\ next = 0
  /\ given = [k \in Places |-> 0]

BaseProceeds == \/ StartOther \/ StartThis \/ KeepThis \/ StartReturns
                \/ Dispatch \/ DispatchWakes
                \/ OwnerProceeds /\ UNCHANGED pool

ThreadRunsLoop == CreatedThread /\ UNCHANGED pool

Others ==
  /\ \/ \E t \in Tasks : FunctorQueues(t)
     \/ \E c \in Callers \ {Owner} :
          CallerWakes(c) \/ \E t \in Tasks : CallerQueues(c, t)
     \/ \E ch \in Channels : ChannelEvent(ch)
  /\ UNCHANGED pool

PoolNext == \/ Start \/ BaseProceeds \/ GetNextLoop \/ DestroyThreads
            \/ ThreadRunsLoop \/ Others

\* The scheduler runs every thread that can run.  Nobody has to start the
\* pool, to ask it for loops or to destroy it.
PoolSpec == PoolInit /\ [][PoolNext]_poolVars

FairPoolSpec == /\ PoolSpec
                /\ WF_poolVars(ThreadRunsLoop) /\ WF_poolVars(BaseProceeds)

-----------------------------------------------------------------------------
(* Properties                                                              *)

\* The threads of a pool that has been started share its work: what
\* getNextLoop returns is one of their loops, alive, and no loop is ever
\* two turns ahead of another.
LoopsInTurn ==
  /\ base \in {"started", "dispatch"} =>
       next < Len(loops) /\ alive /\ loopPtr
  /\ \A j, k \in Places : given[j] <= given[k] + 1
=============================================================================
