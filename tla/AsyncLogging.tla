---------------------------- MODULE AsyncLogging ----------------------------
(***************************************************************************)
(* The asynchronous logger: Logging.cpp (output, once_init),               *)
(* AsyncLogging.{h,cpp} (append, threadFunc, start, stop), LogFile.cpp and *)
(* the FixedBuffer of LogStream.h.                                         *)
(*                                                                         *)
(* Three parties run concurrently: the threads that log (append), the      *)
(* logging thread (threadFunc), and an owner that may call stop.  Every    *)
(* critical section on mutex_ is one action; running_, which the code      *)
(* reads and writes without the mutex, is read and written by actions of   *)
(* their own.  Buffers have identities, so that two shared_ptrs to one     *)
(* FixedBuffer are visible as such.                                        *)
(*                                                                         *)
(* An operator that stands directly before the one it varies (NoReset      *)
(* before Reset) is a slip the properties must notice, used by no action.  *)
(***************************************************************************)
EXTENDS Naturals, Sequences, SequencesExt

CONSTANTS
  Lines,        \* the lines logged; each is logged at most once (a bound)
  Size,         \* Size[l]: the length of line l
  Cap,          \* kLargeBuffer: the capacity of a FixedBuffer
  Buffers,      \* the blocks `new Buffer` can return (a bound on the heap)
  NULL,         \* an empty shared_ptr
  DropLimit,    \* a batch of more buffers than this is cut (25)
  FlushEveryN   \* LogFile's flushEveryN_ (1024)

ASSUME ConstAssumption ==
  /\ NULL \notin Buffers
  /\ Cap \in Nat
  /\ Size \in [Lines -> Nat \ {0}]
  \* A line is a LogStream buffer (kSmallBuffer), far below kLargeBuffer.
  /\ \A l \in Lines : Size[l] < Cap
  /\ DropLimit \in Nat /\ DropLimit >= 2
  /\ FlushEveryN \in Nat \ {0}

VARIABLES
  starter,      \* control point of the thread that runs once_init
  logger,       \* control point of the logging thread
  stopper,      \* control point of the owner's stop()
  running,      \* running_
  signalled,    \* cond_ was notified while the logging thread waited on it
  current,      \* currentBuffer_
  next,         \* nextBuffer_
  buffers,      \* buffers_
  new1, new2,   \* threadFunc's newBuffer1 and newBuffer2
  toWrite,      \* threadFunc's buffersToWrite
  written,      \* how many buffers of toWrite the file has been given
  data,         \* data[b]: the lines in buffer b (none in a free block)
  file,         \* the lines given to fwrite, in order
  durable,      \* at least this many of them have been flushed
  count,        \* LogFile's count_
  logged        \* history: the lines passed to append

ptrs == <<current, next, buffers, new1, new2, toWrite>>
disk == <<file, durable, count>>
vars == <<starter, logger, stopper, running, signalled, ptrs, written, data,
          disk, logged>>

-----------------------------------------------------------------------------
(* FixedBuffer, and the shared_ptrs that keep buffers alive.               *)

Length(b) == FoldLeft(LAMBDA n, l : n + Size[l], 0, data[b])

Avail(b) == Cap - Length(b)

\* FixedBuffer::append copies a line that fits strictly and ignores another.
FixedAppend(b, l) ==
  data' = [data EXCEPT ![b] = IF Avail(b) > Size[l] THEN Append(@, l) ELSE @]

Referenced == ({current, next, new1, new2} \ {NULL})
                \cup Range(buffers) \cup Range(toWrite)

\* `new Buffer`: a block nobody references.  Which one is immaterial, since
\* buffers are only compared for identity.
Fresh(inUse) == CHOOSE b \in Buffers : b \notin inUse

\* reset() of the buffers bs, or their release: what they held is gone.
NoReset(bs) == data' = data
Reset(bs) == data' = [b \in Buffers |-> IF b \in bs THEN <<>> ELSE data[b]]

\* The model's heap has room for two more buffers.
HeapRoom == \E a, b \in Buffers \ Referenced : a # b

\* cond_.notify(): wakes the logging thread if it waits, else is forgotten.
NotifyForgotten == signalled' = signalled
Notify == signalled' = (signalled \/ logger = "wait")

-----------------------------------------------------------------------------
(* Starting.  pthread_once runs once_init in one thread; every other       *)
(* caller of output blocks until it has returned.                          *)

\* new AsyncLogging, then start() up to running_ = true.
OnceInit ==
  /\ starter = "new" /\ HeapRoom
  /\ starter' = "create"
  /\ running' = TRUE
  /\ current' = Fresh(Referenced)
  /\ next' = Fresh(Referenced \cup {current'})
  /\ UNCHANGED <<logger, stopper, signalled, buffers, new1, new2, toWrite,
                 written, data, disk, logged>>

\* thread_.start(): pthread_create succeeds, or fails and Thread::start
\* returns without telling its caller.
CreateThread ==
  /\ starter = "create"
  /\ starter' = "await"
  /\ logger' \in {"entry", "failed"}
  /\ UNCHANGED <<stopper, running, signalled, ptrs, written, data, disk,
                 logged>>

\* threadFunc has counted latch_ down.
CountedAtEnd == logger = "done"
Counted == logger \notin {"none", "entry", "failed"}

\* latch_.wait() returns.
StartReturns ==
  /\ starter = "await" /\ Counted
  /\ starter' = "done"
  /\ UNCHANGED <<logger, stopper, running, signalled, ptrs, written, data,
                 disk, logged>>

-----------------------------------------------------------------------------
(* append(), by any thread that logs.                                      *)

AppendLine(l) ==
  /\ starter = "done" /\ HeapRoom
  /\ l \notin logged
  /\ logged' = logged \cup {l}
  /\ \/ /\ Avail(current) > Size[l]
        /\ FixedAppend(current, l)
        /\ UNCHANGED <<current, next, buffers, signalled>>
     \/ /\ Avail(current) <= Size[l]
        /\ buffers' = Append(buffers, current)
        /\ current' = IF next # NULL THEN next ELSE Fresh(Referenced)
        /\ next' = NULL
        /\ FixedAppend(current', l)
        /\ Notify
  /\ UNCHANGED <<starter, logger, stopper, running, new1, new2, toWrite,
                 written, disk>>

-----------------------------------------------------------------------------
(* threadFunc(), the logging thread.                                       *)

\* Counts the latch down and allocates its two spare buffers.
Enter ==
  /\ logger = "entry" /\ HeapRoom
  /\ logger' = "check"
  /\ new1' = Fresh(Referenced)
  /\ new2' = Fresh(Referenced \cup {new1'})
  /\ UNCHANGED <<starter, stopper, running, signalled, current, next, buffers,
                 toWrite, written, data, disk, logged>>

\* while (running_)
CheckRunning ==
  /\ logger = "check"
  /\ logger' = IF running THEN "lock" ELSE "exit"
  /\ UNCHANGED <<starter, stopper, running, signalled, ptrs, written, data,
                 disk, logged>>

\* A batch of more than DropLimit buffers is cut to its first two.
TrimOldest(batch) ==
  IF Len(batch) > DropLimit THEN SubSeq(batch, Len(batch) - 1, Len(batch))
                            ELSE batch
Trim(batch) == IF Len(batch) > DropLimit THEN SubSeq(batch, 1, 2) ELSE batch

\* currentBuffer_ = std::move(newBuffer1)
CopySpare == current' = new1 /\ UNCHANGED new1
MoveSpare == current' = new1 /\ new1' = NULL

\* The rest of the critical section: take buffers_ and currentBuffer_ away,
\* put spare buffers in their place.  The buffers Trim cuts are freed.
Swap ==
  LET batch == Append(buffers, current)
  IN  /\ logger' = "write"
      /\ MoveSpare
      /\ buffers' = <<>>
      /\ IF next = NULL THEN next' = new2 /\ new2' = NULL
                        ELSE UNCHANGED <<next, new2>>
      /\ toWrite' = Trim(batch)
      /\ Reset(Range(batch) \ Range(toWrite'))
      /\ signalled' = FALSE
      /\ UNCHANGED <<starter, stopper, running, written, disk, logged>>

\* The lock is taken and there are full buffers.
SwapNow == logger = "lock" /\ buffers # <<>> /\ Swap

\* The lock is taken, there are none: cond_.waitForSeconds releases it.
BeginWait ==
  /\ logger = "lock" /\ buffers = <<>>
  /\ logger' = "wait"
  /\ UNCHANGED <<starter, stopper, running, signalled, ptrs, written, data,
                 disk, logged>>

\* waitForSeconds returns: notified, after flushInterval_, or spuriously.
WokenByNotify == logger = "wait" /\ signalled /\ Swap
Woken == logger = "wait" /\ Swap

\* LogFile::append_unlocked
AppendOneTooMany(lines) ==
  /\ file' = file \o lines
  /\ IF count + 1 > FlushEveryN
     THEN count' = 0 /\ durable' = Len(file')
     ELSE count' = count + 1 /\ UNCHANGED durable
AppendUnlocked(lines) ==
  /\ file' = file \o lines
  /\ IF count + 1 >= FlushEveryN
     THEN count' = 0 /\ durable' = Len(file')
     ELSE count' = count + 1 /\ UNCHANGED durable

\* output.append of one buffer.
WriteBuffer ==
  /\ logger = "write" /\ written < Len(toWrite)
  /\ written' = written + 1
  /\ AppendUnlocked(data[toWrite[written + 1]])
  /\ UNCHANGED <<starter, logger, stopper, running, signalled, ptrs, data,
                 logged>>

\* LogFile::flush
NoFlush == UNCHANGED disk
Flush == durable' = Len(file) /\ UNCHANGED <<file, count>>

\* All buffers written: up to two of them become the new spares, the others
\* are released.
Recycle ==
  LET kept == SubSeq(toWrite, 1, IF Len(toWrite) > 2 THEN 2 ELSE Len(toWrite))
      rest == IF new1 = NULL THEN Front(kept) ELSE kept
  IN  /\ logger = "write" /\ written = Len(toWrite)
      /\ logger' = "check"
      /\ new1' = IF new1 = NULL THEN Last(kept) ELSE new1
      /\ new2' = IF new2 = NULL THEN Last(rest) ELSE new2
      /\ toWrite' = <<>>
      /\ written' = 0
      /\ Reset(Range(toWrite))
      /\ Flush
      /\ UNCHANGED <<starter, stopper, running, signalled, current, next,
                     buffers, logged>>

\* Behind the loop: the last flush; the thread ends and closes the file.
Exit ==
  /\ logger = "exit"
  /\ logger' = "done"
  /\ Flush
  /\ UNCHANGED <<starter, stopper, running, signalled, ptrs, written, data,
                 logged>>

-----------------------------------------------------------------------------
(* stop(), by the owner, at any time after start() has returned.           *)

StopClear ==
  /\ stopper = "idle" /\ starter = "done"
  /\ stopper' = "notify"
  /\ running' = FALSE
  /\ UNCHANGED <<starter, logger, signalled, ptrs, written, data, disk, logged>>

\* cond_.notify(), without the mutex.
StopNotify ==
  /\ stopper = "notify"
  /\ stopper' = "join"
  /\ Notify
  /\ UNCHANGED <<starter, logger, running, ptrs, written, data, disk, logged>>

StopJoin ==
  /\ stopper = "join" /\ logger = "done"
  /\ stopper' = "stopped"
  /\ UNCHANGED <<starter, logger, running, signalled, ptrs, written, data,
                 disk, logged>>

-----------------------------------------------------------------------------
Init ==
  /\ starter = "new" /\ logger = "none" /\ stopper = "idle"
  /\ running = FALSE /\ signalled = FALSE
  /\ current = NULL /\ next = NULL /\ buffers = <<>>
  /\ new1 = NULL /\ new2 = NULL /\ toWrite = <<>> /\ written = 0
  /\ data = [b \in Buffers |-> <<>>]
  /\ file = <<>> /\ durable = 0 /\ count = 0
  /\ logged = {}

Starting == OnceInit \/ CreateThread \/ StartReturns

ThreadFunc == \/ Enter \/ CheckRunning \/ SwapNow \/ BeginWait \/ Woken
              \/ WriteBuffer \/ Recycle \/ Exit

Stopping == StopClear \/ StopNotify \/ StopJoin

Next == Starting \/ ThreadFunc \/ Stopping \/ \E l \in Lines : AppendLine(l)

\* The scheduler runs every thread that can run, and the timed wait ends
\* after flushInterval_ at the latest.  Nobody has to log or to call stop.
Fairness == /\ WF_vars(Starting)
            /\ WF_vars(ThreadFunc)
            /\ WF_vars(StopNotify) /\ WF_vars(StopJoin)

Spec == Init /\ [][Next]_vars

FairSpec == Spec /\ Fairness

-----------------------------------------------------------------------------
(* Properties                                                              *)

\* Every variable has a value of the kind the code gives it.
TypeOK ==
  /\ starter \in {"new", "create", "await", "done"}
  /\ logger \in {"none", "entry", "failed", "check", "lock", "wait", "write",
                 "exit", "done"}
  /\ stopper \in {"idle", "notify", "join", "stopped"}
  /\ running \in BOOLEAN /\ signalled \in BOOLEAN
  /\ current \in Buffers \cup {NULL} /\ next \in Buffers \cup {NULL}
  /\ new1 \in Buffers \cup {NULL} /\ new2 \in Buffers \cup {NULL}
  /\ buffers \in Seq(Buffers) /\ toWrite \in Seq(Buffers)
  /\ written \in 0..Len(toWrite)
  /\ data \in [Buffers -> Seq(Lines)]
  /\ file \in Seq(Lines) /\ durable \in 0..Len(file)
  /\ count \in 0..FlushEveryN - 1
  /\ logged \in SUBSET Lines

\* No buffer is reachable from two places.  append fills currentBuffer_ under
\* mutex_ while the logging thread reads buffersToWrite without it, so a
\* shared buffer is a data race and a line written twice or torn.
FrontEnd == ({current, next} \ {NULL}) \cup Range(buffers)
BackEnd  == ({new1, new2} \ {NULL}) \cup Range(toWrite)
OwnedOnce ==
  /\ FrontEnd \cap BackEnd = {}
  /\ current # NULL => current # next /\ current \notin Range(buffers)
  /\ next # NULL => next \notin Range(buffers)
  /\ new1 # NULL => new1 # new2 /\ new1 \notin Range(toWrite)
  /\ new2 # NULL => new2 \notin Range(toWrite)
  /\ IsInjective(buffers) /\ IsInjective(toWrite)

\* The assertions of threadFunc: running_ on entry; two empty spares and an
\* empty batch at the head of the loop; a non-empty batch after the swap,
\* from which as many buffers as are missing can be taken back.
AssertionsHold ==
  /\ logger = "entry" => running
  /\ logger \in {"check", "lock", "wait"} =>
       /\ new1 # NULL /\ data[new1] = <<>>
       /\ new2 # NULL /\ data[new2] = <<>>
       /\ toWrite = <<>>
  /\ logger = "write" =>
       /\ toWrite # <<>>
       /\ new1 = NULL
       /\ new2 = NULL => Len(toWrite) >= 2

\* The logging thread never sleeps out its flush interval on a full buffer:
\* whenever one is queued while it waits, it has been notified.
FullBufferWakes == logger = "wait" /\ buffers # <<>> => signalled

\* Whenever the logging thread is not busy writing, all it wrote is flushed.
FlushedWhenIdle == logger # "write" => durable = Len(file)

\* The lines accepted and not yet in the file, oldest first.
Pending ==
  LET lines(b) == data[b]
      chain == SubSeq(toWrite, written + 1, Len(toWrite)) \o buffers
                 \o (IF current = NULL THEN <<>> ELSE <<current>>)
  IN  FlattenSeq([i \in 1..Len(chain) |-> lines(chain[i])])

\* The double buffering is a FIFO queue of lines: nothing is reordered,
\* duplicated or lost, except that a batch over DropLimit loses its newest
\* lines and never its two oldest.
Queue == INSTANCE LogQueue
           WITH pending <- Pending, Backlog <- DropLimit, KeepLines <- 2
ImplementsQueue == Queue!Spec

\* A line is gone when it was logged and is neither pending nor in the file.
Dropped(l) == l \in logged /\ l \notin Range(Pending) \cup Range(file)

\* While nobody stops the logger, every line logged reaches the disk, unless
\* an overlong batch was cut.
LineReachesDisk ==
  \A l \in Lines :
    (l \in logged) ~> \/ l \in Range(SubSeq(file, 1, durable))
                      \/ Dropped(l) \/ ~running

\* stop() returns although its notify may come before the wait it is meant
\* for: the wait is bounded by flushInterval_.
StopReturnsEventually == (stopper # "idle") ~> (stopper = "stopped")

\* The first LOG of the program returns, provided the thread was created.
StartReturnsEventually ==
  [](logger # "failed") => (starter = "create" ~> starter = "done")
=============================================================================
