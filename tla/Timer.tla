-------------------------------- MODULE Timer --------------------------------
(***************************************************************************)
(* Timer.cpp: the queue of timer nodes of one event loop, each of which    *)
(* keeps a request's connection until its time has come or the request was *)
(* taken from it.  One thread uses the queue; the clock runs by itself.    *)
(*                                                                         *)
(* Milliseconds are counted modulo 10000 seconds, the deadline computed    *)
(* from them is not.                                                       *)
(*                                                                         *)
(* An operator that stands directly before the one it varies (Largest      *)
(* before Tops) is a slip the properties must notice, used by no action.   *)
(***************************************************************************)
EXTENDS Integers

CONSTANTS
  Nodes,        \* timer nodes; one is used again when it has left the queue
  Timeouts,     \* the timeouts callers pass to addTimer
  Wrap          \* milliseconds after which the clock starts over: 10000 * 1000

ASSUME TimerAssumption ==
  Timeouts \subseteq Nat /\ Wrap \in Nat \ {0}

VARIABLES
  clock,      \* (tv_sec % 10000) * 1000 + tv_usec / 1000
  queue,      \* the nodes in timerNodeQueue
  exp,        \* expiredTime_
  deleted,    \* deleted_
  handling,   \* handleExpiredEvent() is running
  left,       \* history: milliseconds until the node's timeout has passed
  lapped      \* history: the clock has started over since the node was added

node == <<exp, deleted>>
history == <<left, lapped>>
vars == <<clock, queue, node, handling, history>>

-----------------------------------------------------------------------------
\* A millisecond passes, also in the middle of handleExpiredEvent, which
\* reads the clock for each node.
ByNoModulus == clock + 1
NextMs == IF clock = Wrap - 1 THEN 0 ELSE clock + 1

Tick ==
  /\ clock' = NextMs
  /\ left' = [n \in Nodes |-> IF left[n] = 0 THEN 0 ELSE left[n] - 1]
  /\ lapped' = [n \in Nodes |-> lapped[n] \/ (n \in queue /\ NextMs = 0)]
  /\ UNCHANGED <<queue, node, handling>>

\* The constructor of TimerNode.
ReducedDeadline(timeout) == (clock + timeout) % Wrap
Deadline(timeout) == clock + timeout

AddTimer(n, timeout) ==
  /\ ~handling /\ n \notin queue
  /\ queue' = queue \cup {n}
  /\ exp' = [exp EXCEPT ![n] = Deadline(timeout)]
  /\ deleted' = [deleted EXCEPT ![n] = FALSE]
  /\ left' = [left EXCEPT ![n] = timeout]
  /\ lapped' = [lapped EXCEPT ![n] = FALSE]
  /\ UNCHANGED <<clock, handling>>

\* clearReq(): the connection is taken from its node, which stays queued.
ClearReq(n) ==
  /\ ~handling /\ n \in queue /\ ~deleted[n]
  /\ deleted' = [deleted EXCEPT ![n] = TRUE]
  /\ UNCHANGED <<clock, queue, exp, handling, history>>

-----------------------------------------------------------------------------
(* handleExpiredEvent()                                                    *)

\* What top() may be: a node no other comes before.  Which of several equal
\* ones it is depends on the heap.
Largest == {n \in queue : \A m \in queue : exp[n] >= exp[m]}
Tops == {n \in queue : \A m \in queue : exp[n] <= exp[m]}

\* isValid(): the deadline is still ahead.
IsValid(n) == clock < exp[n]

\* What has left the queue is forgotten: its node is destroyed, which closes
\* the connection if the node still has one.
Pop(n) ==
  /\ queue' = queue \ {n}
  /\ exp' = [exp EXCEPT ![n] = 0]
  /\ deleted' = [deleted EXCEPT ![n] = FALSE]
  /\ left' = [left EXCEPT ![n] = 0]
  /\ lapped' = [lapped EXCEPT ![n] = FALSE]
  /\ UNCHANGED <<clock, handling>>

HandleExpiredEvent ==
  /\ ~handling
  /\ handling' = TRUE
  /\ UNCHANGED <<clock, queue, node, history>>

PopDeleted(n) == handling /\ n \in Tops /\ deleted[n] /\ Pop(n)

PopExpired(n) == handling /\ n \in Tops /\ ~deleted[n] /\ ~IsValid(n) /\ Pop(n)

\* The loop ends: the queue is empty or its top is neither deleted nor due.
NothingToPop == queue = {} \/ \E n \in Tops : ~deleted[n] /\ IsValid(n)

Return ==
  /\ handling /\ NothingToPop
  /\ handling' = FALSE
  /\ UNCHANGED <<clock, queue, node, history>>

-----------------------------------------------------------------------------
Init ==
  /\ clock \in 0..Wrap - 1
  /\ queue = {} /\ handling = FALSE
  /\ exp = [n \in Nodes |-> 0] /\ deleted = [n \in Nodes |-> FALSE]
  /\ left = [n \in Nodes |-> 0] /\ lapped = [n \in Nodes |-> FALSE]

Handler == \/ HandleExpiredEvent \/ Return
           \/ \E n \in Nodes : PopDeleted(n) \/ PopExpired(n)

Callers == \E n \in Nodes :
              ClearReq(n) \/ \E timeout \in Timeouts : AddTimer(n, timeout)

Next == Tick \/ Callers \/ Handler

Spec == Init /\ [][Next]_vars

\* The best a loop can do: it handles what has expired within the same
\* millisecond, every millisecond.  No two deadlines are equal, so that
\* nothing depends on how the heap breaks a tie.
PromptTick == Tick /\ ~handling /\ NothingToPop
NoTie == \A m, n \in queue : exp[m] = exp[n] => m = n

PromptSpec == /\ Init /\ [][(PromptTick \/ Callers \/ Handler) /\ NoTie']_vars
              /\ SF_vars(PromptTick) /\ WF_vars(Handler)

-----------------------------------------------------------------------------
(* Properties                                                              *)

\* Every variable has a value of the kind the code gives it.
TypeOK ==
  /\ clock \in 0..Wrap - 1 /\ queue \subseteq Nodes
  /\ exp \in [Nodes -> Nat] /\ deleted \in [Nodes -> BOOLEAN]
  /\ handling \in BOOLEAN
  /\ left \in [Nodes -> Nat] /\ lapped \in [Nodes -> BOOLEAN]

\* "The timeout is the lower bound of the deletion" (the comment above
\* handleExpiredEvent): a node that still holds its connection leaves the
\* queue, and closes it, only when its timeout has passed in full, however
\* often the clock started over.
NeverEarly ==
  [][\A n \in queue \ queue' : deleted[n] \/ left[n] = 0]_vars

\* When handleExpiredEvent returns, every node whose timeout has passed has
\* left the queue, unless the clock has started over since it was added:
\* then it may stay for another 10000 seconds, or for ever.
OnTime ==
  [][handling /\ ~handling' =>
       \A n \in queue : left[n] = 0 => lapped[n]]_vars

\* "A node that was set deleted is deleted TIMER_TIME_OUT later at the
\* latest" (the same comment): it leaves the queue some time, at least when
\* the loop is as prompt as it can be.
DeletedNodeLeaves ==
  \A n \in Nodes : (n \in queue /\ deleted[n]) ~> (n \notin queue)
=============================================================================
