------------------------------- MODULE Thread -------------------------------
(***************************************************************************)
(* Thread.{h,cpp} and CountDownLatch.{h,cpp}: a thread object, the thread  *)
(* that owns it (start, join, the destructor) and the thread it creates    *)
(* (ThreadData::runInThread).  Each critical section on the latch's mutex  *)
(* is one action.  An operator that stands directly before the one it      *)
(* varies (SkipLatch before LatchWait) is a slip the properties must       *)
(* notice, used by no action.                                              *)
(***************************************************************************)
EXTENDS Naturals

VARIABLES
  creator,    \* control point of the owner
  body,       \* control point of the created thread
  started,    \* started_
  joined,     \* joined_
  tid,        \* tid_ (0 before the thread has stored its own)
  count       \* latch_'s count_

vars == <<creator, body, started, joined, tid, count>>

-----------------------------------------------------------------------------
(* start(), join(), ~Thread()                                              *)

\* pthread_create succeeds: start() goes on to wait for the latch.
CreateSucceeds ==
  /\ creator = "idle" /\ ~started
  /\ creator' = "latch"
  /\ started' = TRUE
  /\ body' = "begin"
  /\ UNCHANGED <<joined, tid, count>>

\* pthread_create fails: start() returns, as if nothing had been started.
CreateFails ==
  /\ creator = "idle" /\ ~started
  /\ creator' = "failed"
  /\ UNCHANGED <<body, started, joined, tid, count>>

\* CountDownLatch::wait tests its condition and waits or returns.
SkipLatch ==
  /\ creator = "latch"
  /\ creator' = "running"
  /\ UNCHANGED <<body, started, joined, tid, count>>
LatchWait ==
  /\ creator = "latch"
  /\ creator' = IF count > 0 THEN "waiting" ELSE "running"
  /\ UNCHANGED <<body, started, joined, tid, count>>

\* pthread_cond_wait may return unnotified.
SpuriousWakeup ==
  /\ creator = "waiting"
  /\ creator' = "latch"
  /\ UNCHANGED <<body, started, joined, tid, count>>

Join ==
  /\ creator = "running" /\ started /\ ~joined
  /\ creator' = "joining"
  /\ joined' = TRUE
  /\ UNCHANGED <<body, started, tid, count>>

JoinReturns ==
  /\ creator = "joining" /\ body = "ended"
  /\ creator' = "joined"
  /\ UNCHANGED <<body, started, joined, tid, count>>

\* The owner destroys the object; a thread not joined is detached.
Destroy ==
  /\ creator \in {"idle", "failed", "running", "joined"}
  /\ creator' = "destroyed"
  /\ UNCHANGED <<body, started, joined, tid, count>>

-----------------------------------------------------------------------------
(* runInThread()                                                           *)

StoreTid ==
  /\ body = "begin"
  /\ body' = "counting"
  /\ tid' = 1
  /\ UNCHANGED <<creator, started, joined, count>>

\* latch_->countDown(), which wakes the owner if it waits.
CountDown ==
  /\ body = "counting"
  /\ body' = "naming"
  /\ count' = count - 1
  /\ creator' = IF count' = 0 /\ creator = "waiting" THEN "latch" ELSE creator
  /\ UNCHANGED <<started, joined, tid>>

\* The thread names itself and calls func_.
CallFunc ==
  /\ body = "naming"
  /\ body' = "func"
  /\ UNCHANGED <<creator, started, joined, tid, count>>

FuncReturns ==
  /\ body = "func"
  /\ body' = "ended"
  /\ UNCHANGED <<creator, started, joined, tid, count>>

-----------------------------------------------------------------------------
Init ==
  /\ creator = "idle" /\ body = "none"
  /\ started = FALSE /\ joined = FALSE /\ tid = 0 /\ count = 1

StartReturning == LatchWait \/ SpuriousWakeup
RunInThread == StoreTid \/ CountDown \/ CallFunc

Next == \/ CreateSucceeds \/ CreateFails \/ StartReturning
        \/ Join \/ JoinReturns \/ Destroy
        \/ RunInThread \/ FuncReturns

Spec == Init /\ [][Next]_vars

-----------------------------------------------------------------------------
(* Properties                                                              *)

\* What CountDownLatch.h says the latch is for: start() returns only after
\* the function given to Thread has really been started.
FuncStartedWhenStartReturns ==
  creator = "running" => body \in {"func", "ended"}
=============================================================================
