# myWeber: TLA+ models, checks and proofs

myWeber is two programs in one tree. What `main` (app/Main.cpp) runs is a web
server of one thread around `select` (app/TCP_Server.cpp), with its HTTP
handling (app/HttpData.cpp) and its write loop (app/Util.cpp), configured by a
file (app/c_conf.cpp), and with a small test client (Client/). Beside it lies a
reactor library in the style of muduo, on its way into the server and not yet
called by it: event loops, timers, threads, and an asynchronous logger. Both are
modelled from the C++ source. Line numbers below are those of `src/`.

## Inventory

| Part | State | Operations | Talks to |
|---|---|---|---|
| Asynchronous logging: Logging, AsyncLogging, LogFile, FileUtil, FixedBuffer | `currentBuffer_`, `nextBuffer_`, `buffers_`, `running_`; `threadFunc`'s two spares and its batch; `count_` | `append`, `threadFunc`, `start`, `stop`, `flush` | any thread that logs; Thread, latch, condition |
| Thread, CountDownLatch, Condition, MutexLock | `started_`, `joined_`, `tid_`, `count_` | `start`, `join`, destructor, `runInThread`, `wait`, `countDown` | every part that owns a thread |
| EventLoop | `quit_`, `pendingFunctors_`, `callingPendingFunctors_`, `wakeupFd_` | `loop`, `runInLoop`, `queueInLoop`, `quit`, `wakeup` | Epoll, Channel, Timer; callers in other threads |
| Epoll, Channel | `fd2chan_`, `fd2http_`, events of a channel | `epoll_add`, `epoll_mod`, `epoll_del`, `poll`, `handleEvents` | EventLoop, Timer, HttpData |
| Timer | priority queue of nodes, `expiredTime_`, `deleted_` | `addTimer`, `clearReq`, `isValid`, `handleExpiredEvent` | Epoll (owner), HttpData (held by a node) |
| EventLoopThread and its pool | `loop_`, `exiting_`; `next_` | `startLoop`, `threadFunc`, destructor; `start`, `getNextLoop` | Thread, EventLoop |
| Server | `client[]`, `maxi`, `maxfd`, `all_set`, `read_set`, `nready` | `ServerStart`, `httpRecvandSend` | HttpData, Util, the kernel |
| HttpData, MimeType | request and its headers | `HandleRead`, `ParseRequest`, `HandleWrite`, `HandleError` | Util, files |
| CConfig, server_string, Main | `m_ConfigItemList` | `Load`, `GetString`, `GetInt`; `main` | Server |
| Test client | bytes received | connect, send, receive until end, timeout or error | Server |
| LogStream, build files and pages | nothing that lasts | | |

The reactor does not compile against the headers of this commit: `EventLoop.cpp`
calls `writen(int, char*, size_t)` and `readn(int, void*, size_t)`, `Timer.cpp`
and `Epoll.cpp` call `HttpData::handleClose` and `linkTimer`, and none of these
is declared. The models take them as their callers use them: a write of eight
bytes to the eventfd, a read that empties it, a connection closed when its timer
node dies.

### What is hard, and what makes each part correct

- **Logging.** Buffers are handed back and forth as shared pointers, half of
  them under the mutex, half not. Correct means: no buffer has two owners, lines
  leave in the order they came, once, and none waits for ever; `start` and
  `stop` return.
- **EventLoop.** `queueInLoop` is a push and a wakeup in two steps, against a
  loop that swaps, clears flags and blocks on an edge-triggered descriptor.
  Correct means: no wakeup is lost, tasks run once and in order, `quit` ends the
  loop.
- **EventLoopThread.** The loop lives on the stack of one thread, its address in
  an object of another. Correct means: whoever gets the address finds it alive,
  `startLoop` and the destructor end.
- **EventLoopThreadPool.** Starts such threads one by one and hands their loops
  out. Correct means: every loop handed out is alive, and they take turns.
- **Epoll and Channel.** Two tables and the kernel's set, changed by handlers in
  the middle of a batch, by functors and by dying timer nodes, with calls that
  fail and descriptors that are used again. Correct means: tables and kernel
  agree, who can still be reported is alive, and overdue connections are closed.
- **Configuration and requests.** Text in fixed fields, indices that wrap
  around. Correct means: settings and requests are understood as written, and
  parsing ends.
- **Answers.** A file is looked at three times and may change in between.
  Correct means: as many bytes as announced, and the file's own.
- **Timer.** The clock starts over every 10000 seconds. Correct means: never
  early, and late only within bounds.
- **Server.** Descriptors are in four places at once: the kernel, `client[]`,
  `all_set`, and what `select` reported. Correct means they agree, a round
  serves all that was reported, and every request is received.
- **Failures.** `pthread_create`, `accept4` and writes may fail; peers finish
  and reset at any moment; conditions wake spuriously and time out.

`PROJECT.json` lists each of these at its line under "hazards", with the
properties that cover it or the reason why none does yet.

## Modules

| Module | Models | Composes / refines |
|---|---|---|
| `LogQueue` | promise of the logger: a FIFO queue of lines, whose newest lines an overlong backlog may lose | |
| `AsyncLogging` | Logging.cpp, AsyncLogging, LogFile, FixedBuffer | refines `LogQueue` |
| `TaskQueue` | promise of a loop: tasks start once, in order | |
| `EventLoop` | EventLoop.cpp over Epoll::poll and the wakeup channel | refines `TaskQueue` |
| `Thread` | Thread.cpp, CountDownLatch.cpp | |
| `EventLoopThread` | EventLoopThread.cpp | `EventLoop` (EXTENDS) and `Thread` (INSTANCE) |
| `EventLoopThreadPool` | EventLoopThreadPool.cpp | `EventLoopThread` (EXTENDS), and refines its `LifeSpec` |
| `Reactor` | Epoll.cpp, Channel.cpp, and the loop, timers and HttpData by what they do to these | |
| `Timer` | Timer.cpp, Timer.h | |
| `Server` | TCP_Server.cpp, HttpData by effect, writen | |
| `Config` | c_conf.cpp, server_string.cpp: operators on lines | |
| `HttpRequest` | `ParseRequest`: operators on texts and indices | |
| `Program` | Main.cpp, Load, HttpData.cpp with files, TCP_Client.c | `Config`, `HttpRequest` (EXTENDS) |
| `MC*` | constants of the instances that TLC checks | |
| `AsyncLogging_proofs`, `EventLoop_proofs`, `EventLoopThread_proofs`, `Program_proofs`, `Reactor_proofs`, `Server_proofs`, `Timer_proofs` | theorems | |
| `SequenceLemmas` | what joining sequences yields, for the first and the fourth of these | |

An operator that stands directly before the one it varies, such as `NoReset`
before `Reset`, is a slip a programmer could make. No action uses it. Each
checked property fails once the right slip is put in its place; `PROJECT.json`
lists the pairs under "mutants".

### AsyncLogging

A critical section on `mutex_` is one action (`AppendLine`, `Swap`), and every
access outside it an action of its own: `running_` is read by `CheckRunning` and
written by `StopClear`, the file by `WriteBuffer` and `Flush`. Buffers have
identities, so two pointers to one buffer are visible; a line is a number with a
length; a buffer counts lengths. `BeginWait` releases the mutex and `Woken` may
fire at once, since the wait is timed and may also end spuriously: that is why
the code runs the swap even with no full buffer, and the model too. `signalled`
records whether a notify reached a waiting thread. A batch that is cut keeps its
first two buffers, as in the code, and so loses the newest lines. `LogQueue` has
no buffers: what it lets a cut leave is counted in lines, and so is a little
looser. `pthread_create` may fail. The error path of `AppendFile::append` and
the formatting of lines are left out.

### EventLoop, Thread, EventLoopThread

The loop's control points follow `loop` and `doPendingFunctors`: "check",
"poll", "events", "handler", "functors", "functor". The counter of the eventfd
is a flag, its place on epoll's ready list another (`edge`), because the channel
is edge-triggered. `Epoll::poll` reports all that is active. User code runs in
handlers, in functors, and in the loop's thread before `loop()`.
`runInLoop` from another thread is `queueInLoop`; in the loop's own thread it
is a call.

`Thread` has the owner and the created thread, with one action per critical
section on the latch, spurious wakeups and failure. `EventLoopThread` takes its
actions, adds `startLoop`, `threadFunc` and the destructor, and runs the actions
of the loop only while `threadFunc` is in `loop.loop()`. In the source only the
destructor calls `quit` on such a loop, so here only the owner does. After the
loop is destroyed a wakeup reaches nobody: of all that can happen then (the
object is gone, its descriptor closed), this is the mildest, and enough for what
`wakeup_dead` shows.

### EventLoopThreadPool

The base loop's thread is the owner of one `EventLoopThread`, at the place
`This` of `threads_`, which is modelled with all its steps; of the other threads
there is what the owner sees: `startLoop` returns, or hangs because a thread
could not be created. So `start` is a sequence of steps, and threads run while
it goes on. `GetNextLoop` returns the loop at `next_` and turns it;
where it is this thread's loop the caller may queue a functor in it (`Dispatch`,
`DispatchWakes`). `threads_` is destroyed by the implicit destructor of the
pool.

### Reactor

One thread runs everything here: `Poll`, then `HandleEvents` for each channel of
the batch with the handlers that `revents_` selects, then functors, then the
timers, as in `EventLoop::loop`. A handler or functor may add, update and remove
connections any number of times before it returns; `AddToPoller`,
`UpdatePoller` and `RemoveFromPoller` are `epoll_add`, `epoll_mod` and
`epoll_del` with their timers and tables. A call of `epoll_ctl` fails where the
kernel may let it: for want of memory when a descriptor is added, and for one
that is not in the set. `EPOLLHUP` without `EPOLLIN` calls no handler, as in the
code. Which of `fd2http_`, timer nodes and user code holds an `HttpData` decides
whether it is alive; a handler whose `HttpData` is gone leads to the control
point "undefined", where nothing more happens. The order in which a batch is
handled is open (epoll's order is). `HttpData` here lacks what Epoll and Timer
call of it; it is taken from these uses, and its `seperateTimer` from the name
and the comment at Epoll.cpp:104. Deadlines pass at any moment (`Elapse`);
`Timer` has their order. `isValid` compares them again each time, with a clock
that starts over: then nodes that had expired are valid again (`StartOver`), and
`handleExpiredEvent` leaves them in the queue. `lapped` remembers these.

### Config, HttpRequest, Program

Texts are sequences of symbols. A word that the code never looks into is one
symbol, with a width where a buffer's size matters; a blank is the symbol "SP".
`ConfText` is the text of a configuration file, `Lined` how it is written: every
line but the last ends with a line feed, and a line that sets nothing is empty,
has no "=", or begins with one of the symbols `Load` passes over. `Text` is a
request's, and `WellFormed` says what is in its parts. `Config` has what `Load`
does to a line, from `fgets` to the two trimmed fields; a content that overruns
its field, and a name that fills its field and so runs on into the content
(`Unterminated`), are told apart. `HttpRequest` has `std::string` with indices
as the code has them: unsigned, wrapping around, with `npos` the largest
(`SizeT` stands for 2^64; anything larger than a request plus the few constants
gives the same results). So "not found" travels on through `npos + 1` or `npos +
2` as it does in the code, and `substr` behind the end of a string throws.
`Program` has one action per step that may go wrong: `Fopen`, `LoadLine`,
`GetSettings` (a missing setting is a null pointer given to `std::string`),
`ServerStart`, `HandleRead`, `ParseRequestLine` and `ParseHeader`, `InfoPrint`
(which is where `_headers` is cleared), `Stat`, `OpenFile`, `Mmap`, `SendFile`,
`HandleError`. `recv` takes no more than `RecvSize` at once, and what it leaves
is read as another request. A file goes out with `writen`; the page of an error
with one `send`, which may send a part of it or nothing. A name that is empty
(of a request cut short) makes `_filename.back()` undefined, and the index page
is then added or not. Files are sizes. Between any two of these a name may come
to name another file, and a file that is open may shrink or grow; the copy from
a mapping raises SIGBUS behind the file's last page. The client is
TCP_Client.c's, except that its request is one of several; `Arrive` brings a
request in one piece or two. Once a request has been parsed its values are dead
and are reset. Many clients at once are `Server`'s matter.

### Timer

A node keeps the code's `expiredTime_`: the clock, modulo `Wrap`, plus the
timeout, *not* reduced. Two history variables tell what the properties are
about: `left`, the milliseconds until the timeout has really passed, and
`lapped`, that the clock has started over since. The clock ticks between any two
steps, in `handleExpiredEvent` too, which reads it for each node. The heap
yields some smallest node.

### Server

`pc` follows `ServerStart` and `httpRecvandSend`. Descriptors are numbers, and a
new one is the lowest free. `sock` is the kernel's table; `client`, `maxi`,
`maxfd`, `allSet`, `readSet`, `nready`, `i` are the code's variables. Only the
first `Initialised` entries of `client[]` are -1, because the `memset` of line
44 counts bytes; the others hold any value of `Garbage`, and the history
variable `found` remembers which. Garbage of the size of a descriptor is scanned
like a connection, once `maxi` has reached it: its number may be another
entry's, the listening socket's (`CloseListening`), or a closed one. `select`
may fail (`SelectFails`, with `read_set` still all of `all_set`), and so may
`accept4`. `Recv` stands for `HandleRead` and `ParseRequest`, which reads one
request, throws, or never returns (a header cut short); `Respond` for
`HandleWrite` up to its write; and `Write` for one turn of `writen`. A write to
a reset connection fails or kills the process (SIGPIPE). Values that are dead
behind a round or a write are set to zero. `Scan` goes on to the next entry
reported, or, where there is none, ends the round.

## Runs

| Run | Instance | Shows |
|---|---|---|
| `async_log` | 4 lines, one of double length; buffers of 2 usable units; 8 blocks; cut above 2 buffers; flush every 2 | 9 properties of the logger, among them the refinement of `LogQueue` and three liveness properties |
| `event_loop` | 2 callers, 3 tasks, 1 channel | 6 properties, among them the refinement of `TaskQueue` |
| `loop_thread` | a pool of 3 threads, the second in full; the base loop's thread, 1 user, 2 tasks, 1 channel; 2 turns each | 6 properties over the whole life of a pool and of an EventLoopThread |
| `reactor` | 2 connections, 2 descriptors, 2 nodes, a clock that starts over at any moment; reports of reads, hangups, and reads with errors | 5 properties of Epoll, Channel and the timers behind them |
| `program` | 12 configuration files, 5 requests in one piece or two, one longer than a `recv`; files of 0 to 3 units and pages of memory of 2 | 6 properties from the configuration file to the client's end |
| `server` | 3 peers, 2 descriptors, a table of 3 with 1 initialised and 2 that hold garbage of either sign, 1 request each, responses of 2 bytes into a buffer of 1 | 5 properties of the select loop |
| `timer` | 3 nodes, timeouts 1 to 3, a period of 5 | 3 properties of the timers |
| `thread_start` | one Thread | violated: start() returns before the function is entered |
| `wakeup_dead` | one EventLoopThread, otherwise as `loop_thread` | violated: quit() may write to a dead loop |
| `server_table` | as `server`, with 3 descriptors and a table of 2 | violated: "too many client!" with a table that is not full |
| `write_spin` | as `server`, with a table of 2 | violated: a peer that does not read holds the thread in `writen` |
| `timer_wrap` | 2 nodes, no two deadlines equal | violated: a deleted node stays in the queue for ever |

**Bounds.** The counters that grow are bounded by using each line, task and
connection at most once, by the blocks of the heap and by `Requests`. They are
large enough for the interesting cases, as TLC's coverage of the actions and the
slips show, each of which the instances of the table expose: four lines fill a
buffer, a second behind it, and a batch of three that is cut, while both spares
are in use; three tasks let a functor queue a functor while another thread
queues a third; two descriptors for three peers let two connections be reported
at once and let `accept` fail; a table with one initialised entry and two that
hold the listening descriptor, a connection's or a negative number is full early
or not, and has garbage above, below and between entries in use; a period of 5
with timeouts up to 3 puts deadlines on either side of it. Two connections with
two nodes let the node of an earlier update fire on a connection in use, let a
handler remove the other channel of its batch, and let a descriptor be used
again; connections are accepted once each. In a pool of three the loops before
and after the modelled one take turns with it. Configuration lines stand just
inside and just outside each of the three limits of the code, between empty
lines, sections, comments and lines with no "="; requests have headers with and
without blanks, colons in values, a header twice, a directory, queries, and
bodies. The limits are scaled down (a line of 16 for 500, a name of 6 for 50, a
content of 6 for 100, a `recv` of 37 for 65535), so that few symbols stand on
either side of each; the theorems hold for any. Lines in `AsyncLogging` are
shorter than a buffer, as `kSmallBuffer` and `kLargeBuffer` are. CHECK_DEADLOCK
is off where the system may stop: a logger that was stopped, a loop that was
left, a server that exited, a thread that could not be created.

**Fairness.** Weak fairness on each thread: the scheduler runs a thread that can
run. The timed wait of the logger ends (`Woken` is part of `ThreadFunc`);
a call of `wakeup()` that has begun ends; user code returns. No fairness on
those who log, queue, quit, stop, connect or send: nobody has to. `write_spin`
states fairness of the server only, and `server` that peers read what they are
sent (`ReadingSpec`), which is what `write_spin` shows to be needed. In both,
`select` and `accept4` that are called again and again succeed some time (strong
fairness on `Select` and `AcceptSucceeds`): the kernel wants for memory only for a
while. For descriptors it may want for ever, see below. No call has to fail, so no
failed `select` comes to a connection's rescue.
`timer_wrap` assumes the best a loop can do: it handles what is due within the
millisecond, every millisecond (strong fairness on the clock, because the
handler may always be running when the clock could tick). In `reactor` the loop's
thread runs whenever it is not in `epoll_wait`; nothing has to end a poll, and no
deadline has to pass. In `program` both processes run; the network need not
deliver, and files need not change: the client ends by its timeout.

**Exceptions the properties name.** They are cases the code really gets wrong,
or leaves open: lines logged and not written when `stop` comes
(`LineReachesDisk`); a functor queued by the loop's own thread before `loop()`,
which wakes nobody (`NoLostWakeup`, `TasksRun`); a `quit` before `loop()`, which
resets `quit_`, so that the destructor joins for ever or the loop stays
(`DestructorReturns`, `QuitLeaves`); a thread that could not be created, after
which `start` and `startLoop` hang (`StartReturnsEventually`,
`StartLoopReturns`); an `accept` that fails for want of descriptors and skips
the scan each time (`RequestReceived`), or fails once and ends its round
(`RoundServesAll`); a `select` that fails, whose result nobody looks at, so that
quiet connections are taken for ready and closed (`ReportStaysTrue`,
`RoundServesAll`) and `accept4` waits although nobody connects
(`RequestReceived`); an uninitialised entry of `client[]` that is not negative
and lies at or below `maxi` (`Stray`), which the scan takes for a connection, so
that another one's descriptor is served, counted or closed twice, or the
listening socket closed (`TableMatchesSockets`, `RoundServesAll`; TLC finds both
violated without the exception); a clock that starts over (`OnTime`), and nodes
that had expired and not been popped when it did, which a busy loop, too, leaves
until their deadlines come again (`Lapped`, in `OverdueIsClosed`); an idle loop,
which `poll` leaves only for an event, never for a timeout, so that overdue
connections stay open (`OverdueIsClosed`); a handler that removes a channel of
its own batch, whose `HttpData` may be gone when `handleEvents` goes on
(`BatchStaysValid`, `OverdueIsClosed`); configuration lines and fields that are
too long, which are undefined or read as other lines (`SettingsAsWritten`); a
port above 65535, which is cut to 16 bits; a configuration file that cannot be
read (a directory, say), with which `Load` spins for ever and clients are
refused (`ClientEnds` holds there, too); a request in two pieces
(`RequestAsSent`, `ParsingEnds`); a query directly behind the first "/", taken
for a file's name because `pos_qm > 0` misses it, and one character, the colon
or the last blank, that stays at the front of each header's value
(`RequestAsSent`); a file that changes (`AnswerIsFile` still promises the
length); the page of an error, which one unchecked `send` may cut short
(`AnswerIsFile`).

## Proofs

Each theorem is `Spec => ...` under the module's assumptions on its constants,
by an inductive invariant `IInv`: `Init => IInv`, one lemma or step per action
for `IInv /\ [Next]_vars => IInv'`, and PTL to close.

- **AsyncLogging_proofs.** `TypeCorrect`, `NoSharedBuffer` (`OwnedOnce`),
  `NoAssertionFails` (`AssertionsHold`), `NoMissedNotify` (`FullBufferWakes`),
  `FlushedBetweenBatches` (`FlushedWhenIdle`); assumption `ConstAssumption`: a
  line is shorter than a buffer, the cut keeps at least two. `AssertionsHold` is
  not inductive. That two buffers can be taken back after a batch rests on
  `NextMissing` (nextBuffer_ is given away only together with a full buffer, so
  a batch without it has at least two), and that they are empty on `EmptyBuffers`
  (free blocks were reset). `Phases` says how far the threads can be apart.
  `LoggerIsQueue` (`ImplementsQueue`) is the refinement of `LogQueue`: the
  abstract queue is the text of the buffers still to be written, in the order in
  which they will be, and every step of the logger is a step of the queue or
  changes nothing of it (`StepQueue`, one lemma per action that is not the
  latter). An `AppendLine` writes behind the text because the current buffer is
  the last of the chain and in no other place (`OwnedOnce`); a cut is one the
  queue allows because every buffer of a batch but the newest holds a line, so
  that two buffers kept are at least two lines kept and a batch over the limit
  has at least so many lines. That is the strengthening the proof needs
  (`Filled`, in `QInv`).
- **EventLoop_proofs.** `TypeCorrect`, `WakeupNotLost` (`NoLostWakeup`),
  `EventfdArmed` (`WakeupStaysArmed`), `Refinement` (`ImplementsTaskQueue`);
  assumption `WakeupAssumption`. `NoLostWakeup` speaks of the loop in poll; the
  invariant has to hold from the moment the functors are swapped out
  (`WakeupBeforePoll`), and needs that no event is in hand between iterations
  (`HandsEmpty`).
- **Timer_proofs.** `TypeCorrect`, `NoneTooEarly` (`NeverEarly`),
  `OnTimeUntilTheLap` (`OnTime`); assumption `TimerAssumption`. The invariant
  relates the deadline to the milliseconds left: at least so far ahead while
  some are left (`FarEnough`, which a clock that starts over keeps, since it
  only goes back), and no farther until it does (`NearEnough`).
- **EventLoopThread_proofs.** `LifeTypeCorrect` (`LifeTypeOK`),
  `MembersOutliveUse` (`ThreadMembersOutliveUse`), `PublishedAlive`
  (`PublishedLoopIsAlive`), all of `LifeSpec`; `SharedInTurn` (`LoopsInTurn`) of
  `PoolSpec`, under `PoolAssumption`. Between them `PoolImplementsLife`: a step
  of the pool is a step of `LifeNext` or leaves the thread alone, so the first
  three hold of the thread in the pool too, and `SharedInTurn` rests on them for
  "alive". That no loop is two turns ahead is not inductive: the invariant says
  that the loops before `next_` have been given exactly once more than those
  from `next_` on.
- **Reactor_proofs.** `TypeCorrect`, `TableAgrees` (`TableMatchesEpoll`),
  `RegisteredStaysAlive` (`RegisteredIsAlive`), `BatchValid` (`BatchStaysValid`),
  under `ReactorAssumption`. The middle of the invariant, `Owners`, says who
  holds a connection that is registered, and that a descriptor with a channel
  belongs to a connection that is alive: it is what keeps the kernel from giving
  the descriptor to another. `Batches` speaks of the batch as `BatchStaysValid`
  does, and of the control points at which it is empty.
- **SequenceLemmas.** `FlattenSeq` joins what it should: of nothing, of one, of
  one more, of two sequences in a row, and in what length. These are inductions
  over the length. The library's induction theorems take an operator as a
  parameter, which the provers cannot instantiate; instead the set of lengths
  with no such function, or with a wrong value, is shown to have no least
  element (`Least`, from the library's well-foundedness of the naturals).
- **Program_proofs.** `TypeCorrect` (`TypeOK`), `AnswersAreFiles`
  (`AnswerIsFile`), `RequestUnderstood` (`RequestAsSent`), `WholeRequestsGoOn`,
  `SettingsRead` (`SettingsAsWritten`), `NoOverrun`. The first two are under
  `ProgramAssumption`, `SizeTAssumption` (`size_t` has at
  least two values) and `TextAssumption` (what a client may send is a sequence;
  the stronger `RequestAssumption` implies it, and these two do not use that). The
  hard part of `TypeOK` is the parser's position, which stays at most one behind
  the end of the text although the sums it comes from wrap around (`BehindIn`);
  that needs texts to be sequences wherever the network cuts them (`Texts`). For
  `AnswerIsFile` the invariant says what `HandleWrite` knows of its file between
  `stat` and the copy (`FileKnown`).

  `RequestUnderstood` is what the parser computes on requests of any length,
  under `RequestAssumption`: what separates the parts of a request is in none of
  them, and its length is a `size_t`. A text stands in another behind a position
  (`Stands`); where a header stands, its colon, its value and its end are where
  the parser looks (`Laid`, `HeaderScanned`), none of its sums wraps, and it goes
  on right behind it (`HeaderParsed`); so for the request line (`LineLaid`,
  `LineParsed`). The invariant `Understood` says that behind the k headers read
  so far `pos` is the length of their texts joined, and `headers` has of each key
  the last value among them (`ReadSoFar`); `NextHeader` says that the next header
  stands there, and `HeadersAtEnd` that behind the last one the loop ends.
  `WholeRequestsGoOn` reads off the same invariant that the parser does not
  throw and that `pos` grows but stays within the text, which is what
  `ParsingEnds` adds fairness to.

  `SettingsRead` is the same for the configuration file, under `FileAssumption`
  (the file is `Lined`). `Loading` says that while `Load` runs, some k lines have
  been taken: `rest` is the text of the others (`LinesBehind`), and for each name
  that is asked for, the first item that a lookup finds has the value of the
  first of the k lines that sets it (`Agrees`). A step takes one line, since one
  that fits has its only line feed at its end (`LineTaken`); the line is passed
  over (`LinePassed`) or makes an item of its trimmed name and value
  (`LineStored`), and a later item hides no earlier one (`AgreesStored`). `Chars`
  counts with a recursive function, of which it has to be shown that it exists
  (`CountsExist`). That a line fits is a premise, as in `SettingsAsWritten`: the
  code does not check it. `NoOverrun` says that this premise is also enough for
  `strcpy` and `strncpy` to stay inside their item.
- **Server_proofs.** `TypeCorrect`, `ReportIsTrue` (`ReportStaysTrue`),
  `TableIsRight` (`TableMatchesSockets`) and `RoundIsComplete` (`RoundServesAll`,
  an action property), under `ServerAssumption`: for a table of any length with any
  part of it initialised, and any `Garbage`. The last two promise nothing once the
  scan can reach a stray entry, see above; as `maxi` never goes down, what they say
  until then is inductive, given that entries above `maxi` still hold what was
  found. `ReportIsTrue` needs `OnePlace`: a connection waits in the backlog once
  or has one descriptor, never both. For `RoundIsComplete` the invariant
  counts: `nready` is the number of reported descriptors not yet scanned, and
  each of those stands at `i` or later. `AcceptFails` and `Accept` take the
  least free descriptor and entry, whose existence is a fact about finite sets
  of naturals proved first.

So every invariant, action property and refinement that a passing run checks is
also a theorem. Only model-checked: all liveness properties (`LineReachesDisk`,
`StopReturnsEventually`, `StartReturnsEventually`, `TasksRun`, `QuitLeaves`,
`StartLoopReturns`, `DestructorReturns`, `RequestReceived`, `OverdueIsClosed`,
`ParsingEnds`, `ClientEnds`), which need fairness and ENABLED, out of the prover's
reach; and `Thread` beyond what `EventLoopThread` uses of it. The theorems about
texts say nothing of a request in two pieces or of a line that does not fit: what
becomes of these is what `ParsingEnds`, `TypeCorrect` and the hazards speak of.

## Not modelled, and why

- `LogStream` formatting, `MimeType`'s table, the wording of answers, pages,
  build files: data without control. The capacity of a `FixedBuffer` is in
  `AsyncLogging`.
- `readn(int, std::string&)`: nothing calls it.
- `TimerNode::update` and the copy constructor: nothing calls them.
- The error path of `AppendFile::append`, and a process that exits with lines in
  memory: either loses lines by construction, and nothing in the repository
  promises that it does not.
- `FD_SET` of a descriptor of `FD_SETSIZE` or more, which a process with a raised
  limit of descriptors can get, and `FD_ISSET` of a garbage entry of that size:
  undefined, and a matter of one guard that is not there. The properties that name
  the stray entry name this one with it.
- `accept4` with ECONNABORTED: Linux does not report it.
- The client's own buffer (line 78 writes one byte behind a full one).
- `SIGPIPE` in `EventLoop` and `shutDownWR`: the reactor's connections have no
  sockets here.

## Plan

1. (done) `AsyncLogging` with `LogQueue`; `EventLoop` with `TaskQueue`;
   `Thread`, `EventLoopThread`; `Server`; `Timer`; proofs for the first two and
   for `Timer`.
2. (done) `Reactor`; `EventLoopThreadPool`; `Config`, `HttpRequest` and
   `Program`; proofs for `EventLoopThread` with its pool, `Program`, `Reactor`
   and `Server`.
3. (done) The refinement of `LogQueue`, `RequestAsSent` and `SettingsAsWritten`
   proved, for which `HttpRequest` and `Program` got names for the parts of texts.
4. `EventLoop` and `Reactor` in one module, with functors queued by other threads
   that add and remove connections, and several connections per pool.
5. The error path of `AppendFile::append`, once a property is worth stating.
