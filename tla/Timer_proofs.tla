---------------------------- MODULE Timer_proofs ----------------------------
(* Proofs about Timer, for every set of nodes and timeouts and every       *)
(* period of the clock.                                                    *)
EXTENDS Timer, TLAPS

\* What the milliseconds still to pass say of the deadline: it is at least so
\* far ahead, also when the clock starts over, and, until the clock does,
\* exactly so far, or passed.
FarEnough == \A n \in queue : left[n] > 0 => clock + left[n] <= exp[n]
NearEnough == \A n \in queue : ~lapped[n] => exp[n] <= clock + left[n]

IInv == TypeOK /\ FarEnough /\ NearEnough

LEMMA Initially == ASSUME TimerAssumption, Init PROVE IInv
BY DEF TimerAssumption, Init, IInv, TypeOK, FarEnough, NearEnough

\* The one step that moves the clock.
LEMMA TickStep == ASSUME TimerAssumption, IInv, Tick PROVE IInv'
<1> USE DEF TimerAssumption, IInv, TypeOK, Tick, NextMs
<1>1. TypeOK'
  <2>1. clock' \in 0..Wrap - 1
    OBVIOUS
  <2>2. left' \in [Nodes -> Nat]
    OBVIOUS
  <2>3. lapped' \in [Nodes -> BOOLEAN]
    BY Zenon
  <2> QED
    BY <2>1, <2>2, <2>3 DEF node
<1>2. FarEnough'
  <2> SUFFICES ASSUME NEW n \in queue, left'[n] > 0
               PROVE clock' + left'[n] <= exp[n]
    BY DEF FarEnough, node
  <2>1. left[n] \in Nat /\ left[n] > 0 /\ left'[n] = left[n] - 1
    OBVIOUS
  <2>2. clock + left[n] <= exp[n]
    BY <2>1 DEF FarEnough
  <2>3. clock' <= clock + 1
    OBVIOUS
  <2> QED
    BY <2>1, <2>2, <2>3
<1>3. NearEnough'
  <2> SUFFICES ASSUME NEW n \in queue, ~lapped'[n]
               PROVE exp[n] <= clock' + left'[n]
    BY DEF NearEnough, node
  <2>1. ~lapped[n] /\ clock' = clock + 1
    OBVIOUS
  <2>2. exp[n] <= clock + left[n]
    BY <2>1 DEF NearEnough
  <2>3. left[n] \in Nat /\ left'[n] \in Nat /\ left'[n] >= left[n] - 1
    OBVIOUS
  <2> QED
    BY <2>1, <2>2, <2>3
<1> QED
  BY <1>1, <1>2, <1>3

\* The steps of the loop's thread.
LEMMA OtherSteps ==
  ASSUME TimerAssumption, IInv, Callers \/ Handler
  PROVE IInv'
<1> USE DEF TimerAssumption, IInv, TypeOK, FarEnough, NearEnough
<1>1. ASSUME NEW n \in Nodes, NEW timeout \in Timeouts, AddTimer(n, timeout)
      PROVE IInv'
  BY <1>1 DEF AddTimer, Deadline
<1>2. ASSUME NEW n \in Nodes, ClearReq(n) PROVE IInv'
  BY <1>2 DEF ClearReq, history
<1>3. ASSUME NEW n \in Nodes, Pop(n) PROVE IInv'
  BY <1>3 DEF Pop
<1>4. CASE HandleExpiredEvent
  BY <1>4 DEF HandleExpiredEvent, node, history
<1>5. CASE Return
  BY <1>5 DEF Return, node, history
<1> QED
  BY <1>1, <1>2, <1>3, <1>4, <1>5 DEF Callers, Handler, PopDeleted, PopExpired

\* The invariant the other theorems rest on.
THEOREM Invariance == ASSUME TimerAssumption PROVE Spec => []IInv
<1>1. Init => IInv
  BY Initially
<1>2. IInv /\ [Next]_vars => IInv'
  <2>1. CASE UNCHANGED vars
    BY <2>1 DEF vars, node, history, IInv, TypeOK, FarEnough, NearEnough
  <2> QED
    BY <2>1, TickStep, OtherSteps DEF Next
<1> QED
  BY <1>1, <1>2, PTL DEF Spec

\* Every variable keeps a value of its kind, for every instance.
THEOREM TypeCorrect == ASSUME TimerAssumption PROVE Spec => []TypeOK
<1>1. IInv => TypeOK
  BY DEF IInv
<1> QED
  BY <1>1, Invariance, PTL

\* No connection is closed before its timeout has passed, although the clock
\* starts over and the deadlines do not.
THEOREM NoneTooEarly == ASSUME TimerAssumption PROVE Spec => NeverEarly
<1>1. IInv /\ [Next]_vars =>
        [\A n \in queue \ queue' : deleted[n] \/ left[n] = 0]_vars
  <2> SUFFICES ASSUME IInv, Next, NEW n \in queue \ queue'
               PROVE deleted[n] \/ left[n] = 0
    BY DEF vars
  <2>1. n \in Nodes /\ left[n] \in Nat /\ exp[n] \in Nat /\ clock \in Nat
    BY DEF IInv, TypeOK, TimerAssumption
  <2>2. PopDeleted(n) \/ PopExpired(n)
    BY <2>1 DEF Next, Tick, Callers, ClearReq, AddTimer, Handler,
                HandleExpiredEvent, Return, PopDeleted, PopExpired, Pop
  <2>3. CASE PopDeleted(n)
    BY <2>3 DEF PopDeleted
  <2>4. CASE PopExpired(n)
    <3>1. ~(clock < exp[n])
      BY <2>4 DEF PopExpired, IsValid
    <3>2. left[n] > 0 => clock + left[n] <= exp[n]
      BY DEF IInv, FarEnough
    <3> QED
      BY <2>1, <3>1, <3>2
  <2> QED
    BY <2>2, <2>3, <2>4
<1> QED
  BY <1>1, Invariance, PTL DEF Spec, NeverEarly

\* What handleExpiredEvent leaves in the queue is not due, unless the clock
\* has started over.
THEOREM OnTimeUntilTheLap == ASSUME TimerAssumption PROVE Spec => OnTime
<1>1. IInv /\ [Next]_vars =>
        [handling /\ ~handling' =>
           \A n \in queue : left[n] = 0 => lapped[n]]_vars
  <2> SUFFICES ASSUME IInv, Next, handling, ~handling', NEW n \in queue,
                      left[n] = 0, ~lapped[n]
               PROVE FALSE
    BY DEF vars
  <2>1. NothingToPop
    BY DEF Next, Tick, Callers, ClearReq, AddTimer, Handler,
           HandleExpiredEvent, Return, PopDeleted, PopExpired, Pop
  <2>2. PICK m \in Tops : clock < exp[m]
    BY <2>1 DEF NothingToPop, IsValid
  <2>3. exp[m] <= exp[n] /\ exp[m] \in Nat /\ exp[n] \in Nat /\ clock \in Nat
    BY DEF Tops, IInv, TypeOK, TimerAssumption
  <2>4. exp[n] <= clock
    BY <2>3 DEF IInv, NearEnough
  <2> QED
    BY <2>2, <2>3, <2>4
<1> QED
  BY <1>1, Invariance, PTL DEF Spec, OnTime
=============================================================================
