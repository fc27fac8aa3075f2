----------------------- MODULE EventLoopThread_proofs -----------------------
(***************************************************************************)
(* Proofs about EventLoopThread and the pool of them, for any callers,     *)
(* tasks, channels and number of threads.                                  *)
(***************************************************************************)
EXTENDS EventLoopThreadPool, EventLoop_proofs

-----------------------------------------------------------------------------
(* The invariant: how far the owner, the created thread and the loop can   *)
(* be apart.                                                               *)

\* The latch is counted down once, between the thread's id and its function.
LatchPhases ==
  /\ creator \in {"idle", "failed"} => body = "none"
  /\ creator \in {"latch", "waiting"} => body # "none"
  /\ creator \in {"running", "joining"} => body \in {"naming", "func", "ended"}
  /\ creator = "joined" => body = "ended"
  /\ creator = "destroyed" => body \notin {"begin", "counting"}
  /\ body \in {"none", "begin", "counting"} => count = 1
  /\ body \in {"naming", "func", "ended"} => count = 0 /\ tid = 1
  /\ body = "counting" => tid = 1

\* loop_ points to the loop exactly while threadFunc runs it.  The owner has
\* gone on only with a loop; only its own quit() sets quit_, so the loop is
\* left no earlier.
Late == {"wakeup", "join", "destroy", "gone"}
LoopPhases ==
  /\ loopPtr <=> func = "loop"
  /\ func \in {"publish", "loop", "destruct"} => alive
  /\ body \notin {"func", "ended"} => func = "none"
  /\ owner \in {"up", "quit"} => loopPtr
  /\ quit \/ loop = "left" => owner \in Late
  /\ func \in {"destruct", "done"} => loop = "left"

LifeInv == LifeTypeOK /\ LatchPhases /\ LoopPhases

-----------------------------------------------------------------------------
LEMMA LifeInitInv == LifeInit => LifeInv
<1> SUFFICES ASSUME LifeInit PROVE LifeInv
  OBVIOUS
<1>1. TypeOK /\ quit = FALSE /\ loop = "start"
  BY InitIInv DEF LifeInit, IInv, Init
<1>2. LatchPhases
  BY DEF LifeInit, T!Init, LatchPhases
<1>3. LoopPhases
  BY <1>1 DEF LifeInit, LoopPhases
<1> QED BY <1>1, <1>2, <1>3 DEF LifeInit, T!Init, LifeInv, LifeTypeOK

\* What a step does to the loop's variables is a step of EventLoop, but for
\* a wakeup() that comes when the loop is gone.
LEMMA LoopTypeStep ==
  ASSUME TypeOK, [LifeNext]_allVars
  PROVE  TypeOK'
<1>1. ASSUME NEW c \in Callers, Wake(c) PROVE TypeOK'
  <2>1. CASE alive
    <3>1. WakeLoop(c)
      BY <1>1, <2>1 DEF Wake
    <3>2. [Next]_vars
      BY <3>1 DEF Next, OtherThreads
    <3> QED BY <3>2, TypeStep
  <2>2. CASE ~alive
    <3>1. /\ caller' = [caller EXCEPT ![c] = "idle"]
          /\ UNCHANGED <<loop, quit, queue, functors, calling, batch, ready,
                         wakeups, done>>
      BY <1>1, <2>2 DEF Wake
    <3>2. caller' \in [Callers -> {"idle", "wakeup"}]
      BY <3>1 DEF TypeOK
    <3>3. loop' = loop /\ calling' = calling
      BY <3>1
    <3>4. calling' \in BOOLEAN /\ (calling' <=> loop' \in {"functors", "functor"})
      BY <3>3 DEF TypeOK
    <3> QED BY <3>1, <3>2, <3>4 DEF TypeOK, queue, wakeups
  <2> QED BY <2>1, <2>2
<1>2. CASE [Next]_vars
  BY <1>2, TypeStep
<1>3. CASE WakeupAndJoin
  BY <1>1, <1>3, OwnerAssumption DEF WakeupAndJoin
<1>4. CASE \E c \in Callers : CallerWakes(c)
  BY <1>1, <1>4 DEF CallerWakes
<1>5. CASE \E c \in Callers : \E t \in Tasks : CallerQueues(c, t)
  BY <1>2, <1>5 DEF CallerQueues, Next, OtherThreads
<1>6. CASE QuitLoop
  BY <1>2, <1>6, OwnerAssumption DEF QuitLoop, Next, OtherThreads
<1>7. CASE \E ch \in Channels : ChannelEvent(ch)
  BY <1>2, <1>7 DEF ChannelEvent, Next
<1>8. CASE \E t \in Tasks : FunctorQueues(t)
  BY <1>2, <1>8 DEF FunctorQueues, Next, UserCalls
<1>9. CASE RunLoop
  BY <1>2, <1>9 DEF RunLoop, Next
<1>10. CASE UNCHANGED vars
  BY <1>2, <1>10
<1>11. CASE \/ StartThread \/ ThreadStarting \/ AwaitLoop \/ JoinThread
            \/ DestroyMembers \/ ThreadRuns \/ ConstructLoop \/ Publish
            \/ ClearPtr \/ DestroyLoop \/ Destruct
  BY <1>10, <1>11 DEF StartThread, ThreadStarting, AwaitLoop, JoinThread,
       DestroyMembers, ThreadRuns, ConstructLoop, Publish, ClearPtr,
       DestroyLoop, Destruct
<1>12. CASE UNCHANGED allVars
  BY <1>10, <1>12 DEF allVars
<1> QED BY <1>3, <1>4, <1>5, <1>6, <1>7, <1>8, <1>9, <1>11, <1>12
        DEF LifeNext, OwnerProceeds, CreatedThread

-----------------------------------------------------------------------------
\* The steps that leave thread_ alone.
LEMMA LatchStep ==
  ASSUME LifeTypeOK, LatchPhases, [LifeNext]_allVars
  PROVE  /\ LatchPhases'
         /\ creator' \in {"idle", "failed", "latch", "waiting", "running",
                          "joining", "joined", "destroyed"}
         /\ body' \in {"none", "begin", "counting", "naming", "func", "ended"}
         /\ started' \in BOOLEAN /\ joined' \in BOOLEAN
         /\ tid' \in {0, 1} /\ count' \in {0, 1}
<1> USE DEF LifeTypeOK, LatchPhases
<1>1. CASE StartThread
  BY <1>1 DEF StartThread, T!CreateSucceeds, T!CreateFails
<1>2. CASE ThreadStarting
  BY <1>2 DEF ThreadStarting, T!StartReturning, T!LatchWait, T!SpuriousWakeup
<1>3. CASE WakeupAndJoin
  BY <1>3 DEF WakeupAndJoin, T!Join
<1>4. CASE JoinThread
  BY <1>4 DEF JoinThread, T!JoinReturns
<1>5. CASE DestroyMembers
  BY <1>5 DEF DestroyMembers, T!Destroy
<1>6. CASE ThreadRuns
  BY <1>6 DEF ThreadRuns, T!RunInThread, T!StoreTid, T!CountDown, T!CallFunc
<1>7. CASE DestroyLoop
  BY <1>7 DEF DestroyLoop, T!FuncReturns
<1>8. CASE UNCHANGED thread
  BY <1>8 DEF thread
<1>9. CASE \/ AwaitLoop \/ QuitLoop \/ ConstructLoop \/ Publish \/ RunLoop
           \/ ClearPtr \/ Destruct
  BY <1>8, <1>9 DEF AwaitLoop, QuitLoop, ConstructLoop, Publish, RunLoop,
       ClearPtr, Destruct
<1>10. CASE \/ \E t \in Tasks : FunctorQueues(t)
            \/ \E c \in Callers : CallerWakes(c) \/ \E t \in Tasks : CallerQueues(c, t)
            \/ \E ch \in Channels : ChannelEvent(ch)
  BY <1>8, <1>10 DEF FunctorQueues, CallerWakes, CallerQueues, ChannelEvent
<1>11. CASE UNCHANGED allVars
  BY <1>8, <1>11 DEF allVars
<1> QED BY <1>1, <1>2, <1>3, <1>4, <1>5, <1>6, <1>7, <1>9, <1>10, <1>11
        DEF LifeNext, OwnerProceeds, CreatedThread

-----------------------------------------------------------------------------
\* The loop's own steps: it is left only when quit_ is set.
LEMMA LoopThreadStep ==
  ASSUME TypeOK, LoopThread
  PROVE  /\ quit' => quit
         /\ loop' = "left" => quit \/ loop = "left"
  BY DEF LoopThread, Enter, CheckQuit, Poll, HandleWakeup, HandleEvents,
         HandlerReturns, TakeFunctors, RunFunctor, FunctorReturns,
         FunctorsDone, TypeOK

LEMMA OwnStep ==
  ASSUME LifeInv, [LifeNext]_allVars
  PROVE  /\ LoopPhases'
         /\ owner' \in {"new", "starting", "waiting", "up", "quit", "wakeup",
                        "join", "destroy", "gone"}
         /\ func' \in {"none", "construct", "publish", "loop", "destruct", "done"}
         /\ loopPtr' \in BOOLEAN /\ alive' \in BOOLEAN
         /\ exiting' \in BOOLEAN /\ quitLost' \in BOOLEAN
<1> USE DEF LoopPhases, Late
<1>1. LifeTypeOK /\ LoopPhases
  BY DEF LifeInv
<1>2. CASE StartThread
  BY <1>1, <1>2 DEF StartThread, T!CreateSucceeds, T!CreateFails, vars,
       LifeTypeOK, LifeInv, LatchPhases
<1>3. CASE ThreadStarting
  BY <1>1, <1>3 DEF ThreadStarting, T!StartReturning, T!LatchWait,
       T!SpuriousWakeup, vars, own, LifeTypeOK
<1>4. CASE AwaitLoop
  BY <1>1, <1>4 DEF AwaitLoop, WaitForLoop, vars, thread, LifeTypeOK
<1>5. CASE JoinThread \/ DestroyMembers
  BY <1>1, <1>5 DEF JoinThread, T!JoinReturns, DestroyMembers, T!Destroy, vars,
       LifeTypeOK
<1>6. CASE ThreadRuns
  BY <1>1, <1>6 DEF ThreadRuns, T!RunInThread, T!StoreTid, T!CountDown,
       T!CallFunc, vars, LifeTypeOK
<1>7. CASE ConstructLoop
  BY <1>1, <1>7 DEF ConstructLoop, vars, thread, LifeTypeOK
<1>8. CASE Publish
  BY <1>1, <1>8 DEF Publish, vars, thread, LifeTypeOK
<1>9. CASE RunLoop
  BY <1>1, <1>9, LoopThreadStep DEF RunLoop, thread, LifeTypeOK, TypeOK
<1>10. CASE ClearPtr
  BY <1>1, <1>10 DEF ClearPtr, vars, thread, LifeTypeOK
<1>11. CASE DestroyLoop
  BY <1>1, <1>11 DEF DestroyLoop, T!FuncReturns, vars, LifeTypeOK
<1>12. CASE Destruct
  BY <1>1, <1>12 DEF Destruct, vars, thread, LifeTypeOK
<1>13. CASE QuitLoop
  BY <1>1, <1>13 DEF QuitLoop, Quit, thread, LifeTypeOK
<1>14. CASE WakeupAndJoin
  BY <1>1, <1>14 DEF WakeupAndJoin, T!Join, Wake, WakeLoop, LifeTypeOK
<1>15. CASE \E t \in Tasks : FunctorQueues(t)
  BY <1>1, <1>15 DEF FunctorQueues, QueueFromLoop, thread, own, LifeTypeOK
<1>16. CASE \E c \in Callers : CallerWakes(c) \/ \E t \in Tasks : CallerQueues(c, t)
  BY <1>1, <1>16 DEF CallerWakes, CallerQueues, Wake, WakeLoop, QueueInLoop,
       thread, own, LifeTypeOK
<1>17. CASE \E ch \in Channels : ChannelEvent(ch)
  BY <1>1, <1>17 DEF ChannelEvent, Event, thread, own, LifeTypeOK
<1>18. CASE UNCHANGED allVars
  BY <1>1, <1>18 DEF allVars, vars, thread, own, LifeTypeOK
<1> QED BY <1>2, <1>3, <1>4, <1>5, <1>6, <1>7, <1>8, <1>9, <1>10, <1>11,
           <1>12, <1>13, <1>14, <1>15, <1>16, <1>17, <1>18
        DEF LifeNext, OwnerProceeds, CreatedThread

LEMMA LifeInvariant == LifeSpec => []LifeInv
<1>1. LifeInv /\ [LifeNext]_allVars => LifeInv'
  <2> SUFFICES ASSUME LifeInv, [LifeNext]_allVars PROVE LifeInv'
    OBVIOUS
  <2>1. TypeOK'
    BY LoopTypeStep DEF LifeInv, LifeTypeOK
  <2>2. LatchPhases'
    BY LatchStep DEF LifeInv
  <2>3. LoopPhases'
    BY OwnStep
  <2>4. LifeTypeOK'
    BY <2>1, LatchStep, OwnStep DEF LifeInv, LifeTypeOK
  <2> QED BY <2>2, <2>3, <2>4 DEF LifeInv
<1> QED BY LifeInitInv, <1>1, PTL DEF LifeSpec

\* What LatchPhases and LoopPhases are for.
LEMMA LifeInvImplies ==
  LifeInv => LifeTypeOK /\ ThreadMembersOutliveUse /\ PublishedLoopIsAlive
  BY DEF LifeInv, LifeTypeOK, LatchPhases, LoopPhases, ThreadMembersOutliveUse,
         PublishedLoopIsAlive

\* Every variable of an EventLoopThread keeps its kind, those of its loop
\* and of its thread included.
THEOREM LifeTypeCorrect == LifeSpec => []LifeTypeOK
  BY LifeInvariant, LifeInvImplies, PTL

\* The latch protects the Thread object: runInThread is done with its
\* members when its owner may destroy them.
THEOREM MembersOutliveUse == LifeSpec => []ThreadMembersOutliveUse
  BY LifeInvariant, LifeInvImplies, PTL

\* startLoop returns, and the destructor quits, only a loop that exists.
THEOREM PublishedAlive == LifeSpec => []PublishedLoopIsAlive
  BY LifeInvariant, LifeInvImplies, PTL

-----------------------------------------------------------------------------
(* The pool.                                                               *)

\* The base loop's thread, as its EventLoopThread sees it, is a thread that
\* starts, uses and destroys it like any other.
THEOREM PoolImplementsLife == PoolSpec => LifeSpec
<1>1. PoolInit => LifeInit
  BY DEF PoolInit
<1>2. [PoolNext]_poolVars => [LifeNext]_allVars
  <2> SUFFICES ASSUME [PoolNext]_poolVars PROVE LifeNext \/ UNCHANGED allVars
    OBVIOUS
  <2>1. CASE Start \/ StartOther \/ KeepThis \/ StartReturns \/ GetNextLoop
    BY <2>1 DEF Start, StartOther, KeepThis, StartReturns, GetNextLoop
  <2>2. CASE StartThis \/ OwnerProceeds \/ DestroyThreads \/ ThreadRunsLoop
    BY <2>2 DEF StartThis, DestroyThreads, ThreadRunsLoop, LifeNext
  <2>3. CASE Dispatch \/ DispatchWakes
    BY <2>3, OwnerAssumption DEF Dispatch, DispatchWakes, LifeNext
  <2>4. CASE Others
    BY <2>4 DEF Others, LifeNext
  <2>5. CASE UNCHANGED poolVars
    BY <2>5 DEF poolVars
  <2> QED BY <2>1, <2>2, <2>3, <2>4, <2>5 DEF PoolNext, BaseProceeds
<1> QED BY <1>1, <1>2, PTL DEF PoolSpec, LifeSpec

\* loops_ is filled in the order of threads_, and next_ tells how far the
\* current turn has come.
EvenUpToNext ==
  \E turns \in Nat : \A k \in Places :
    given[k] = IF k < next THEN turns + 1 ELSE turns
PoolInv ==
  /\ base \in {"new", "start", "hung", "started", "dispatch", "destroy"}
  /\ loops \in Seq(Places) /\ Len(loops) <= NumThreads
  /\ \A i \in 1..Len(loops) : loops[i] = i - 1
  /\ base \in {"started", "dispatch"} =>
       Len(loops) = NumThreads /\ owner = "up"
  /\ base = "start" /\ Len(loops) > This => owner = "up"
  /\ base = "new" => loops = <<>>
  /\ next \in Places
  /\ given \in [Places -> Nat] /\ EvenUpToNext

\* Only DestroyThreads ends the time in which the owner has its loop.
LEMMA StaysUp ==
  ASSUME owner = "up", [PoolNext]_poolVars, ~DestroyThreads
  PROVE  owner' = "up"
  BY DEF PoolNext, BaseProceeds, ThreadRunsLoop, Others, poolVars, allVars, own,
         Start, StartOther, StartThis, StartThread, KeepThis, StartReturns,
         GetNextLoop, Dispatch, DispatchWakes, OwnerProceeds, ThreadStarting,
         AwaitLoop, QuitLoop, WakeupAndJoin, JoinThread, DestroyMembers,
         CreatedThread, ThreadRuns, ConstructLoop, Publish, RunLoop, ClearPtr,
         DestroyLoop, FunctorQueues, CallerWakes, CallerQueues, ChannelEvent

LEMMA PoolInitInv == PoolInit => PoolInv
<1> SUFFICES ASSUME PoolInit PROVE PoolInv
  OBVIOUS
<1>1. 0 \in Places /\ NumThreads \in Nat
  BY PoolAssumption DEF Places
<1>2. EvenUpToNext
  <2>1. \A k \in Places : given[k] = IF k < next THEN 0 + 1 ELSE 0
    BY DEF PoolInit, Places
  <2> QED BY <2>1 DEF EvenUpToNext
<1> QED BY <1>1, <1>2 DEF PoolInit, PoolInv

LEMMA TurnStep ==
  ASSUME PoolInv, GetNextLoop
  PROVE  next' \in Places /\ given' \in [Places -> Nat] /\ EvenUpToNext'
<1>1. loops[next + 1] = next
  <2>1. next \in 0..NumThreads - 1 /\ Len(loops) = NumThreads
    BY DEF PoolInv, GetNextLoop, Places
  <2>2. next + 1 \in 1..Len(loops) /\ (next + 1) - 1 = next
    BY <2>1, PoolAssumption
  <2> QED BY <2>2 DEF PoolInv
<1>2. given' = [given EXCEPT ![next] = @ + 1] /\ next' = Turn(next)
  BY <1>1 DEF GetNextLoop
<1>3. next' = IF next = NumThreads - 1 THEN 0 ELSE next + 1
  <2>1. next \in Nat /\ next + 1 <= NumThreads
    BY PoolAssumption DEF PoolInv, Places
  <2>2. CASE next + 1 = NumThreads
    BY <1>2, <2>1, <2>2, PoolAssumption DEF Turn
  <2>3. CASE next + 1 < NumThreads
    BY <1>2, <2>1, <2>3, PoolAssumption DEF Turn
  <2> QED BY <2>1, <2>2, <2>3, PoolAssumption
<1>4. next' \in Places
  BY <1>3, PoolAssumption DEF PoolInv, Places
<1>5. PICK turns \in Nat : \A k \in Places :
        given[k] = IF k < next THEN turns + 1 ELSE turns
  BY DEF PoolInv, EvenUpToNext
<1>6. CASE next = NumThreads - 1
  <2>1. \A k \in Places : given'[k] = turns + 1
    BY <1>2, <1>5, <1>6 DEF PoolInv, Places
  <2>2. \A k \in Places :
          given'[k] = IF k < next' THEN (turns + 1) + 1 ELSE turns + 1
    BY <2>1, <1>3, <1>6 DEF Places
  <2>3. EvenUpToNext'
    BY <2>2, turns + 1 \in Nat DEF EvenUpToNext
  <2> QED BY <2>3, <1>2, <1>4 DEF PoolInv
<1>7. CASE next # NumThreads - 1
  <2>1. \A k \in Places :
          given'[k] = IF k < next' THEN turns + 1 ELSE turns
    BY <1>2, <1>3, <1>5, <1>7 DEF PoolInv, Places
  <2>2. EvenUpToNext'
    BY <2>1 DEF EvenUpToNext
  <2> QED BY <2>2, <1>2, <1>4 DEF PoolInv
<1> QED BY <1>6, <1>7

LEMMA PoolStep == PoolInv /\ [PoolNext]_poolVars => PoolInv'
<1> SUFFICES ASSUME PoolInv, [PoolNext]_poolVars PROVE PoolInv'
  OBVIOUS
<1>1. CASE GetNextLoop
  <2>1. owner' = owner
    BY <1>1 DEF GetNextLoop, allVars, own
  <2> QED BY <1>1, <2>1, TurnStep DEF GetNextLoop, PoolInv
<1>2. CASE StartOther \/ KeepThis
  <2>1. owner' = owner
    BY <1>2 DEF StartOther, KeepThis, allVars, own
  <2>2. CASE base' = "hung"
    BY <1>2, <2>1, <2>2 DEF StartOther, KeepThis, PoolInv, EvenUpToNext
  <2>3. CASE base' # "hung"
    <3>1. /\ loops' = Append(loops, Len(loops)) /\ base' = "start"
          /\ base = "start" /\ UNCHANGED <<next, given>>
          /\ Len(loops) < NumThreads
          /\ Len(loops) = This => owner = "up"
      BY <1>2, <2>3, PoolAssumption DEF StartOther, KeepThis, PoolInv
    <3>2. Len(loops) \in Places
      BY <3>1, PoolAssumption DEF PoolInv, Places
    <3>3. /\ loops' \in Seq(Places) /\ Len(loops') = Len(loops) + 1
          /\ \A i \in 1..Len(loops') : loops'[i] = i - 1
      BY <3>1, <3>2 DEF PoolInv
    <3>4. Len(loops') > This => owner = "up"
      BY <3>1, <3>3, PoolAssumption DEF PoolInv
    <3>5. EvenUpToNext'
      BY <3>1 DEF PoolInv, EvenUpToNext
    <3>6. Len(loops') <= NumThreads
      BY <3>1, <3>3, PoolAssumption DEF PoolInv
    <3> QED BY <3>1, <3>3, <3>4, <3>5, <3>6, <2>1 DEF PoolInv
  <2> QED BY <2>2, <2>3
<1>3. CASE StartReturns
  <2>1. owner' = owner
    BY <1>3 DEF StartReturns, allVars, own
  <2>2. EvenUpToNext'
    BY <1>3 DEF StartReturns, PoolInv, EvenUpToNext
  <2>3. owner = "up"
    BY <1>3, PoolAssumption DEF StartReturns, PoolInv
  <2> QED BY <1>3, <2>1, <2>2, <2>3 DEF StartReturns, PoolInv
<1>4. CASE Start
  <2>1. owner' = owner
    BY <1>4 DEF Start, allVars, own
  <2>2. Len(loops) = 0
    BY <1>4 DEF Start, PoolInv
  <2> QED BY <1>4, <2>1, <2>2, PoolAssumption DEF Start, PoolInv, EvenUpToNext
<1>5. CASE DestroyThreads
  BY <1>5 DEF DestroyThreads, PoolInv, EvenUpToNext
<1>6. CASE Dispatch
  <2>1. owner' = "up"
    BY <1>6, StaysUp DEF Dispatch, DestroyThreads, PoolInv
  <2> QED BY <1>6, <2>1 DEF Dispatch, PoolInv, EvenUpToNext
<1>7. CASE UNCHANGED pool
  <2>1. ~DestroyThreads
    BY <1>7 DEF DestroyThreads, pool
  <2>2. owner = "up" => owner' = "up"
    BY <2>1, StaysUp
  <2> QED BY <1>7, <2>2 DEF pool, PoolInv, EvenUpToNext
<1>8. CASE \/ StartThis \/ DispatchWakes \/ ThreadRunsLoop \/ Others
           \/ UNCHANGED poolVars \/ (OwnerProceeds /\ UNCHANGED pool)
  BY <1>7, <1>8 DEF StartThis, DispatchWakes, ThreadRunsLoop, Others, poolVars
<1> QED BY <1>1, <1>2, <1>3, <1>4, <1>5, <1>6, <1>8 DEF PoolNext, BaseProceeds

LEMMA PoolInvImplies == PoolInv /\ LifeInv => LoopsInTurn
<1> SUFFICES ASSUME PoolInv, LifeInv PROVE LoopsInTurn
  OBVIOUS
<1>1. base \in {"started", "dispatch"} => next < Len(loops) /\ alive /\ loopPtr
  BY PoolAssumption DEF PoolInv, LifeInv, LoopPhases, Places
<1>2. \A j, k \in Places : given[j] <= given[k] + 1
  BY DEF PoolInv, EvenUpToNext
<1> QED BY <1>1, <1>2 DEF LoopsInTurn

\* getNextLoop hands out loops that exist, in turn, for any number of
\* threads.
THEOREM SharedInTurn == PoolSpec => []LoopsInTurn
<1>1. PoolSpec => []PoolInv
  BY PoolInitInv, PoolStep, PTL DEF PoolSpec
<1>2. PoolSpec => []LifeInv
  BY PoolImplementsLife, LifeInvariant, PTL
<1> QED BY <1>1, <1>2, PoolInvImplies, PTL
=============================================================================
