------------------------------- MODULE Reactor -------------------------------
(***************************************************************************)
(* Epoll.{h,cpp} and Channel.{h,cpp}, driven by EventLoop::loop: channels  *)
(* are added to, updated in and removed from epoll by the code that runs   *)
(* in the loop's thread, which are the handlers of a batch of active       *)
(* channels, the functors behind it, and the timers behind those.          *)
(*                                                                         *)
(* A connection is a channel with the HttpData that holds it.  HttpData    *)
(* is known from its uses only: Epoll and timer nodes hold it by           *)
(* shared_ptr, a channel's handlers are bound to it, it is closed when     *)
(* its timer node dies, and its descriptor goes with it.  Timer.tla has    *)
(* the order of the nodes and the clock; here a deadline passes some time. *)
(*                                                                         *)
(* An operator that stands directly before the one it varies (HoldNothing  *)
(* before Hold) is a slip the properties must notice, used by no action.   *)
(***************************************************************************)
EXTENDS Naturals

CONSTANTS
  Conns,     \* connections, numbered as they are accepted, each once (a bound)
  Wakeup,    \* pwakeupChannel_
  Fds,       \* descriptors connections may get
  WakeupFd,  \* wakeupFd_
  Nodes,     \* timer nodes; no more of them are live at once (a bound)
  Masks,     \* sets of events that user code asks for
  Reports,   \* sets of events that the kernel finds at once
  None       \* no channel, connection, descriptor or node

Channels == Conns \cup {Wakeup}
AllFds == Fds \cup {WakeupFd}
\* EPOLLPRI and EPOLLRDHUP are handled as EPOLLIN is.
Events == {"in", "out", "hup", "err"}

ASSUME ReactorAssumption ==
  /\ Wakeup \notin Conns /\ WakeupFd \notin Fds
  /\ Conns \subseteq Nat /\ Fds \subseteq Nat /\ Nodes \subseteq Nat
  /\ Masks \subseteq SUBSET {"in", "out"}
  /\ Reports \subseteq SUBSET Events
  /\ None \notin Channels \cup AllFds \cup Nodes

VARIABLES
  pc,          \* control point of the loop's thread
  cur,         \* the channel whose handler runs, or None
  batch,       \* what poll returned, not yet handled
  events,      \* events_ of each channel
  lastEvents,  \* lastEvents_
  revents,     \* revents_, empty behind handleEvents
  fdOf,        \* fd_; None until the connection is accepted
  fd2chan,     \* fd2chan_
  fd2http,     \* fd2http_
  registered,  \* kernel: the descriptors in the epoll set
  interest,    \* kernel: the events asked for
  nodeOf,      \* the connection a timer node holds; None if deleted or unused
  due,         \* the nodes of which isValid() says that they have expired
  lapped,      \* history: nodes that had expired when the clock started over
  link,        \* the node a connection was last linked to
  held,        \* connections that user code holds itself
  dropped      \* history: channels that handlers of this batch removed

loop    == <<pc, cur, batch>>
channel == <<events, lastEvents, revents, fdOf>>
tables  == <<fd2chan, fd2http>>
kernel  == <<registered, interest>>
timers  == <<nodeOf, due, lapped, link>>
user    == <<held, dropped>>
vars == <<loop, channel, tables, kernel, timers, user>>

-----------------------------------------------------------------------------
(* Lifetime and descriptors of connections.                                *)

\* Somebody holds the HttpData by a shared_ptr.
Alive(c) == \/ c \in held
            \/ \E f \in Fds : fd2http[f] = c
            \/ \E n \in Nodes : nodeOf[n] = c

Lowest(S) == {x \in S : \A y \in S : x <= y}
FreeFds == Fds \ {fdOf[c] : c \in {d \in Conns : Alive(d)}}
FreeNodes == {n \in Nodes : nodeOf[n] = None}

-----------------------------------------------------------------------------
(* Epoll                                                                   *)

\* add_timer: a new node is linked; the one before stays where it is, since
\* seperateTimer is commented out.
AddTimer(c) ==
  \E n \in Lowest(FreeNodes) :
    /\ nodeOf' = [nodeOf EXCEPT ![n] = c]
    /\ link' = [link EXCEPT ![c] = n]
    /\ UNCHANGED <<due, lapped>>
SetTimer(c, timed) == IF timed THEN AddTimer(c) ELSE UNCHANGED timers

\* fd2http_[fd] = request->getHolder()
HoldNothing(c, f, timed) == UNCHANGED fd2http
Hold(c, f, timed) ==
  fd2http' = IF timed THEN [fd2http EXCEPT ![f] = c] ELSE fd2http

\* EPOLL_CTL_ADD of a new descriptor succeeds, or fails for want of memory
\* or of watches; then the channel is forgotten again.
CtlAdd(c, f, m) ==
  \/ /\ fd2chan' = [fd2chan EXCEPT ![f] = c]
     /\ registered' = registered \cup {f}
     /\ interest' = [interest EXCEPT ![f] = m]
  \/ /\ fd2chan' = [fd2chan EXCEPT ![f] = None]
     /\ registered' = registered \ {f}
     /\ UNCHANGED interest

\* epoll_mod behind add_timer: a call of the kernel only if events_ changed,
\* which fails if the descriptor is not in the set.
ModAlways(c, m) ==
  /\ events' = [events EXCEPT ![c] = m]
  /\ interest' = [interest EXCEPT ![fdOf[c]] = m]
  /\ UNCHANGED <<lastEvents, fd2chan>>
Mod(c, m) ==
  /\ events' = [events EXCEPT ![c] = m]
  /\ lastEvents' = [lastEvents EXCEPT ![c] = m]
  /\ IF lastEvents[c] = m
     THEN UNCHANGED <<interest, fd2chan>>
     ELSE IF fdOf[c] \in registered
     THEN interest' = [interest EXCEPT ![fdOf[c]] = m] /\ UNCHANGED fd2chan
     ELSE fd2chan' = [fd2chan EXCEPT ![fdOf[c]] = None] /\ UNCHANGED interest

\* epoll_del: the tables are cleared whether or not the kernel knew the
\* descriptor.
Forget(f) ==
  /\ registered' = registered \ {f}
  /\ interest' = [interest EXCEPT ![f] = {}]
DelKernelOnly(c) == Forget(fdOf[c]) /\ UNCHANGED tables
Del(c) ==
  /\ Forget(fdOf[c])
  /\ fd2chan' = [fd2chan EXCEPT ![fdOf[c]] = None]
  /\ fd2http' = [fd2http EXCEPT ![fdOf[c]] = None]

-----------------------------------------------------------------------------
(* User code in the loop's thread: a channel's handler, or a functor.      *)

Handlers == {"io", "conn", "error"}
UserCode == Handlers \cup {"functors"}
\* A handler updates its own channel, a functor may be about any.
MayUpdate(c) == pc = "functors" \/ (pc \in Handlers /\ cur = c)

\* A connection is accepted and passed to addToPoller.  Without a timeout
\* nobody but user code holds it.
AddToPoller(c, m, timed) ==
  /\ pc \in UserCode /\ c \in Lowest({d \in Conns : fdOf[d] = None})
  /\ \E f \in Lowest(FreeFds) :
       /\ fdOf' = [fdOf EXCEPT ![c] = f]
       /\ Hold(c, f, timed)
       /\ CtlAdd(c, f, m)
  /\ events' = [events EXCEPT ![c] = m]
  /\ lastEvents' = [lastEvents EXCEPT ![c] = m]
  /\ SetTimer(c, timed)
  /\ held' = IF timed THEN held ELSE held \cup {c}
  /\ UNCHANGED <<loop, revents, dropped>>

\* setEvents, or not, and updatePoller.
UpdatePoller(c, m, timed) ==
  /\ MayUpdate(c) /\ Alive(c)
  /\ Mod(c, m)
  /\ SetTimer(c, timed)
  /\ UNCHANGED <<loop, revents, fdOf, fd2http, registered, user>>

RemoveFromPoller(c) ==
  /\ pc \in UserCode /\ Alive(c)
  /\ Del(c)
  /\ held' = held \ {c}
  /\ dropped' = IF c \in batch \cup {cur} THEN dropped \cup {c} ELSE dropped
  /\ UNCHANGED <<loop, channel, timers>>

\* clearReq: the node loses its connection and is marked deleted.
ResetOnly(n) ==
  nodeOf' = [nodeOf EXCEPT ![n] = None] /\ UNCHANGED <<due, lapped>>
ClearReq(n) ==
  /\ nodeOf' = [nodeOf EXCEPT ![n] = None]
  /\ due' = due \ {n} /\ lapped' = lapped \ {n}

\* HttpData::seperateTimer clears the linked node.
SeparateTimer(c) ==
  /\ MayUpdate(c) /\ link[c] # None
  /\ ClearReq(link[c])
  /\ link' = [link EXCEPT ![c] = None]
  /\ UNCHANGED <<loop, channel, tables, kernel, user>>

-----------------------------------------------------------------------------
(* EventLoop::loop                                                         *)

\* What epoll_wait may find of a descriptor besides nothing: events that
\* were asked for, and of a connection hangups and errors.
Found(f) ==
  IF f \notin registered THEN {}
  ELSE IF f = WakeupFd THEN SUBSET interest[f]
  ELSE {r \in Reports : r \subseteq interest[f] \cup {"hup", "err"}}

\* poll: the channels take what is reported; a descriptor without a channel
\* is passed over, and poll goes on while there are no others.
Poll ==
  /\ pc = "poll"
  /\ \E found \in [AllFds -> {{}, {"in"}} \cup Reports] :
       LET active == {fd2chan[f] : f \in {g \in AllFds : found[g] # {}}}
                       \ {None} IN
         /\ \A f \in AllFds : found[f] \in {{}} \cup Found(f)
         /\ active # {}
         /\ batch' = active
         /\ revents' = [c \in Channels |->
                          IF c \in active THEN found[fdOf[c]] ELSE revents[c]]
         /\ events' = [c \in Channels |->
                         IF c \in active THEN {} ELSE events[c]]
  /\ pc' = "events"
  /\ UNCHANGED <<cur, lastEvents, fdOf, tables, kernel, timers, user>>

\* The wakeup channel: handleRead asks for reads again, handleConn updates.
HandleWakeup ==
  /\ pc = "events" /\ Wakeup \in batch
  /\ batch' = batch \ {Wakeup}
  /\ Mod(Wakeup, {"in"})
  /\ revents' = [revents EXCEPT ![Wakeup] = {}]
  /\ UNCHANGED <<pc, cur, fdOf, fd2http, registered, timers, user>>

\* handleEvents: which handler comes first.  EPOLLHUP alone calls none.
FirstHandler(c) ==
  IF "hup" \in revents[c] /\ "in" \notin revents[c] THEN "events"
  ELSE IF "err" \in revents[c] THEN "error" ELSE "io"

\* The channel is kept alive by the batch, the HttpData its handlers are
\* bound to is not.
HandleEvents(c) ==
  /\ pc = "events" /\ c \in batch
  /\ batch' = batch \ {c}
  /\ cur' = IF FirstHandler(c) = "events" THEN None ELSE c
  /\ pc' = IF FirstHandler(c) = "events" \/ Alive(c) THEN FirstHandler(c)
           ELSE "undefined"
  /\ events' = [events EXCEPT ![c] = {}]
  /\ revents' = [revents EXCEPT ![c] = {}]
  /\ UNCHANGED <<lastEvents, fdOf, tables, kernel, timers, user>>

\* readHandler_ and writeHandler_ are followed by connHandler_, always.
IoReturns ==
  /\ pc = "io"
  /\ pc' = IF Alive(cur) THEN "conn" ELSE "undefined"
  /\ UNCHANGED <<cur, batch, channel, tables, kernel, timers, user>>

ConnReturns ==
  /\ pc = "conn"
  /\ pc' = "events" /\ cur' = None
  /\ UNCHANGED <<batch, channel, tables, kernel, timers, user>>

ErrorReturns ==
  /\ pc = "error"
  /\ pc' = "events" /\ cur' = None
  /\ events' = [events EXCEPT ![cur] = {}]
  /\ UNCHANGED <<batch, lastEvents, revents, fdOf, tables, kernel, timers,
                 user>>

\* Functors run when the whole batch has been handled.
RunAtOnce ==
  /\ pc = "events"
  /\ pc' = "functors"
  /\ UNCHANGED <<cur, batch, channel, tables, kernel, timers, user>>
RunFunctors ==
  /\ pc = "events" /\ batch = {}
  /\ pc' = "functors" /\ dropped' = {}
  /\ UNCHANGED <<cur, batch, channel, tables, kernel, timers, held>>

FunctorsDone ==
  /\ pc = "functors"
  /\ pc' = "expire"
  /\ UNCHANGED <<cur, batch, channel, tables, kernel, timers, user>>

\* handleExpired: the node dies and closes its connection, also when the
\* connection has been given another node since.
Pop(n) ==
  /\ pc = "expire" /\ n \in due
  /\ ClearReq(n)
  /\ link' = [c \in Conns |-> IF link[c] = n THEN None ELSE link[c]]
  /\ Del(nodeOf[n])
  /\ held' = held \ {nodeOf[n]}
  /\ UNCHANGED <<loop, channel, dropped>>

DoneAtOnce ==
  /\ pc = "expire"
  /\ pc' = "poll"
  /\ UNCHANGED <<cur, batch, channel, tables, kernel, timers, user>>
ExpiredDone ==
  /\ pc = "expire" /\ due = {}
  /\ pc' = "poll"
  /\ UNCHANGED <<cur, batch, channel, tables, kernel, timers, user>>

-----------------------------------------------------------------------------
(* The clock, which isValid() reads again for each node, modulo 10000 s.   *)

Elapse(n) ==
  /\ nodeOf[n] # None /\ n \notin due
  /\ due' = due \cup {n}
  /\ UNCHANGED <<loop, channel, tables, kernel, nodeOf, lapped, link, user>>

\* The clock starts over: deadlines that had passed lie ahead again.
StartOver ==
  \E S \in SUBSET due \ {{}} :
    /\ due' = due \ S /\ lapped' = lapped \cup S
    /\ UNCHANGED <<loop, channel, tables, kernel, nodeOf, link, user>>

-----------------------------------------------------------------------------
Init ==
  /\ pc = "poll" /\ cur = None /\ batch = {}
  /\ events = [c \in Channels |-> IF c = Wakeup THEN {"in"} ELSE {}]
  /\ lastEvents = events
  /\ revents = [c \in Channels |-> {}]
  /\ fdOf = [c \in Channels |-> IF c = Wakeup THEN WakeupFd ELSE None]
  /\ fd2chan = [f \in AllFds |-> IF f = WakeupFd THEN Wakeup ELSE None]
  /\ fd2http = [f \in AllFds |-> None]
  /\ registered = {WakeupFd}
  /\ interest = [f \in AllFds |-> IF f = WakeupFd THEN {"in"} ELSE {}]
  /\ nodeOf = [n \in Nodes |-> None] /\ due = {} /\ lapped = {}
  /\ link = [c \in Conns |-> None]
  /\ held = {} /\ dropped = {}

LoopThread == \/ HandleWakeup \/ IoReturns \/ ConnReturns
              \/ ErrorReturns \/ RunFunctors \/ FunctorsDone \/ ExpiredDone
              \/ \E c \in Conns : HandleEvents(c)
              \/ \E n \in Nodes : Pop(n)

UserCalls ==
  \E c \in Conns :
    \/ RemoveFromPoller(c) \/ SeparateTimer(c)
    \/ \E timed \in BOOLEAN :
         \/ \E m \in Masks : AddToPoller(c, m, timed)
         \/ \E m \in Masks \cup {events[c]} : UpdatePoller(c, m, timed)

Next == Poll \/ LoopThread \/ UserCalls \/ StartOver \/ \E n \in Nodes : Elapse(n)

Spec == Init /\ [][Next]_vars

\* The scheduler runs the loop's thread, and user code returns.  Nothing has
\* to happen that ends a poll.
FairSpec == Spec /\ WF_vars(LoopThread)

-----------------------------------------------------------------------------
(* Properties                                                              *)

\* Every variable has a value of the kind the code gives it, and no node is
\* waited for that has no connection to close.
TypeOK ==
  /\ pc \in {"poll", "events", "functors", "expire", "undefined"} \cup Handlers
  /\ cur \in Conns \cup {None} /\ batch \subseteq Channels
  /\ events \in [Channels -> SUBSET Events]
  /\ lastEvents \in [Channels -> SUBSET Events]
  /\ revents \in [Channels -> SUBSET Events]
  /\ fdOf \in [Channels -> AllFds \cup {None}]
  /\ fd2chan \in [AllFds -> Channels \cup {None}]
  /\ fd2http \in [AllFds -> Conns \cup {None}]
  /\ registered \subseteq AllFds
  /\ interest \in [AllFds -> SUBSET Events]
  /\ nodeOf \in [Nodes -> Conns \cup {None}]
  /\ due \cup lapped \subseteq {n \in Nodes : nodeOf[n] # None}
  /\ link \in [Conns -> Nodes \cup {None}]
  /\ held \subseteq Conns /\ dropped \subseteq Conns

\* fd2chan_ and the kernel's epoll set agree through failed calls, stale
\* channels and descriptors used again: what epoll reports always has a
\* channel, the one that owns the descriptor, and the kernel waits for the
\* events that EqualAndUpdateLastEvents compares with.
TableMatchesEpoll ==
  \A f \in AllFds :
    /\ f \in registered <=> fd2chan[f] # None
    /\ f \in registered => /\ fdOf[fd2chan[f]] = f
                           /\ interest[f] = lastEvents[fd2chan[f]]

\* What fd2http_ is for: a connection that epoll may report is alive, also
\* when its timer has been separated from it.
RegisteredIsAlive ==
  \A f \in Fds : fd2chan[f] # None => Alive(fd2chan[f])

\* Timers and functors never pull a channel from under a batch, however
\* late a node fires: a channel of the batch is registered still, and its
\* handlers find their HttpData, unless a handler of this very batch
\* removed it.
BatchStaysValid ==
  /\ \A c \in batch : fd2chan[fdOf[c]] = c \/ c \in dropped
  /\ pc = "undefined" => cur \in dropped

\* A connection with a node that has expired, be it one of an earlier
\* epoll_add or epoll_mod, is closed, unless the loop stays idle for ever:
\* poll does not return for a timeout.  The other way out is seperateTimer.
\* The exception is a node that the loop came to only after the clock had
\* started over: it waits for its deadline once more, on a busy loop too.
Lapped(c) == \E n \in lapped : nodeOf[n] = c
Overdue(c) == Lapped(c) \/ \E n \in due : nodeOf[n] = c
OverdueIsClosed ==
  \A c \in Conns :
    \/ Overdue(c) ~> (~Overdue(c) \/ Lapped(c) \/ pc = "undefined")
    \/ <>[](pc = "poll")
=============================================================================
