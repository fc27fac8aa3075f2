--------------------------- MODULE Reactor_proofs ---------------------------
(***************************************************************************)
(* Proofs about Reactor, for any connections, descriptors, timer nodes and *)
(* sets of events.                                                         *)
(***************************************************************************)
EXTENDS Reactor, TLAPS

-----------------------------------------------------------------------------
(* The invariant.                                                          *)

\* Who owns a descriptor: the wakeup channel has its own for ever, and of
\* the connections that are alive each has one that no other has.  What is
\* registered is held by user code or by fd2http_, which is stronger than
\* being alive: a timer node may be taken away.
WakeupOwns ==
  /\ fdOf[Wakeup] = WakeupFd
  /\ fd2chan[WakeupFd] = Wakeup /\ WakeupFd \in registered
FdsOwned ==
  /\ \A c \in Conns : fdOf[c] \in Fds \cup {None}
  /\ \A c \in Conns : Alive(c) => fdOf[c] \in Fds
  /\ \A c, d \in Conns : Alive(c) /\ Alive(d) /\ fdOf[c] = fdOf[d] => c = d
HttpOwns ==
  /\ \A f \in Fds : fd2http[f] # None => fdOf[fd2http[f]] = f
  /\ \A f \in Fds : fd2chan[f] # None =>
       fd2chan[f] \in Conns /\ (fd2chan[f] \in held \/ fd2http[f] = fd2chan[f])
LinksPoint == \A c \in Conns : link[c] # None => nodeOf[link[c]] = c

Owners == WakeupOwns /\ FdsOwned /\ HttpOwns /\ LinksPoint

\* What is in a batch or in a handler is registered, or was dropped.
Valid(c) == fdOf[c] \in AllFds /\ (fd2chan[fdOf[c]] = c \/ c \in dropped)
Batches ==
  /\ \A c \in batch : Valid(c)
  /\ cur # None => Valid(cur)
  /\ pc \in {"poll", "functors", "expire"} => batch = {}
  /\ pc \in Handlers \cup {"undefined"} <=> cur # None
  /\ pc = "undefined" => cur \in dropped

IInv == TypeOK /\ TableMatchesEpoll /\ Owners /\ Batches

-----------------------------------------------------------------------------
LEMMA ConstFacts ==
  /\ Wakeup \notin Conns /\ WakeupFd \notin Fds
  /\ None \notin Conns /\ None # Wakeup /\ None \notin Fds /\ None # WakeupFd
  /\ None \notin Nodes
  /\ \A m \in Masks : m \in SUBSET Events
  /\ \A r \in Reports : r \in SUBSET Events
  BY ReactorAssumption DEF Channels, AllFds, Events

\* Whoever is registered is alive and owns the descriptor.
LEMMA RegisteredOwns ==
  ASSUME IInv, NEW f \in Fds, fd2chan[f] # None
  PROVE  fd2chan[f] \in Conns /\ Alive(fd2chan[f]) /\ fdOf[fd2chan[f]] = f
  BY DEF IInv, Owners, HttpOwns, Alive, TableMatchesEpoll, AllFds

\* A living connection's descriptor is its own: nobody else is found there.
LEMMA OwnDescriptor ==
  ASSUME IInv, NEW c \in Conns, Alive(c)
  PROVE  /\ fdOf[c] \in Fds
         /\ fd2chan[fdOf[c]] \in {c, None} /\ fd2http[fdOf[c]] \in {c, None}
<1>1. fdOf[c] \in Fds
  BY DEF IInv, Owners, FdsOwned
<1>2. fd2chan[fdOf[c]] \in {c, None}
  BY <1>1, RegisteredOwns DEF IInv, Owners, FdsOwned
<1>3. ASSUME fd2http[fdOf[c]] # None PROVE fd2http[fdOf[c]] = c
  <2> DEFINE d == fd2http[fdOf[c]]
  <2>1. d \in Conns /\ Alive(d) /\ fdOf[d] = fdOf[c]
    BY <1>1, <1>3 DEF IInv, TypeOK, AllFds, Owners, HttpOwns, Alive
  <2> QED BY <2>1 DEF IInv, Owners, FdsOwned
<1> QED BY <1>1, <1>2, <1>3

\* Nobody is found at a descriptor that is free.
LEMMA FreeDescriptor ==
  ASSUME IInv, NEW f \in FreeFds
  PROVE  /\ f \in Fds /\ fd2chan[f] = None /\ fd2http[f] = None
         /\ f \notin registered
         /\ \A c \in Conns : Alive(c) => fdOf[c] # f
<1>1. f \in Fds /\ \A c \in Conns : Alive(c) => fdOf[c] # f
  BY DEF FreeFds
<1>2. fd2chan[f] = None
  BY <1>1, RegisteredOwns
<1>3. fd2http[f] = None
  BY <1>1 DEF IInv, Owners, HttpOwns, TypeOK, AllFds, Alive
<1> QED BY <1>1, <1>2, <1>3 DEF IInv, TableMatchesEpoll, AllFds

-----------------------------------------------------------------------------
LEMMA InitInv == Init => IInv
<1> SUFFICES ASSUME Init PROVE IInv
  OBVIOUS
<1> USE ConstFacts
<1>1. TypeOK
  BY DEF Init, TypeOK, Channels, AllFds, Handlers, Events
<1>2. TableMatchesEpoll
  BY DEF Init, TableMatchesEpoll, AllFds, Channels
<1>3. \A c \in Conns : ~Alive(c)
  BY DEF Init, Alive, AllFds
<1>4. Owners
  BY <1>3 DEF Init, Owners, WakeupOwns, FdsOwned, HttpOwns, LinksPoint, AllFds,
              Channels
<1>5. Batches
  BY DEF Init, Batches, Valid, Handlers
<1> QED BY <1>1, <1>2, <1>4, <1>5 DEF IInv

-----------------------------------------------------------------------------
(* Steps that change neither the tables nor who holds what.                *)

LEMMA QuietStep ==
  ASSUME IInv, UNCHANGED <<lastEvents, fdOf, tables, kernel, nodeOf, link, held>>
  PROVE  TableMatchesEpoll' /\ Owners'
<1>1. TableMatchesEpoll'
  BY DEF IInv, TableMatchesEpoll, tables, kernel
<1>2. \A c \in Conns : Alive(c)' <=> Alive(c)
  BY DEF Alive, tables
<1>3. FdsOwned'
  BY <1>2 DEF IInv, Owners, FdsOwned
<1>4. WakeupOwns' /\ HttpOwns' /\ LinksPoint'
  BY DEF IInv, Owners, WakeupOwns, HttpOwns, LinksPoint, tables, kernel
<1> QED BY <1>1, <1>3, <1>4 DEF Owners

LEMMA PollStep == IInv /\ Poll => IInv'
<1> SUFFICES ASSUME IInv, Poll PROVE IInv'
  OBVIOUS
<1> USE ConstFacts
<1>1. TableMatchesEpoll' /\ Owners'
  BY QuietStep DEF Poll, timers, user
<1>2. PICK found \in [AllFds -> {{}, {"in"}} \cup Reports] :
        /\ \A f \in AllFds : found[f] \in {{}} \cup Found(f)
        /\ batch' = {fd2chan[f] : f \in {g \in AllFds : found[g] # {}}} \ {None}
        /\ revents' = [c \in Channels |->
                         IF c \in batch' THEN found[fdOf[c]] ELSE revents[c]]
        /\ events' = [c \in Channels |->
                        IF c \in batch' THEN {} ELSE events[c]]
  BY DEF Poll
<1>3. \A c \in batch' : c \in Channels /\ fdOf[c] \in AllFds /\ fd2chan[fdOf[c]] = c
  BY <1>2 DEF IInv, TypeOK, TableMatchesEpoll
<1>4. \A f \in AllFds : found[f] \in SUBSET Events
  BY <1>2 DEF Events
<1>5. revents' \in [Channels -> SUBSET Events]
  BY <1>2, <1>3, <1>4 DEF IInv, TypeOK
<1>6. events' \in [Channels -> SUBSET Events] /\ batch' \subseteq Channels
  BY <1>2, <1>3 DEF IInv, TypeOK
<1>7. TypeOK'
  BY <1>5, <1>6 DEF Poll, IInv, TypeOK, tables, kernel, timers, user
<1>8. Batches'
  BY <1>3 DEF Poll, IInv, Batches, Valid, Handlers, tables, user
<1> QED BY <1>1, <1>7, <1>8 DEF IInv

LEMMA HandleEventsStep ==
  ASSUME IInv, NEW c \in Conns, HandleEvents(c)
  PROVE  IInv'
<1> USE ConstFacts
<1>1. TableMatchesEpoll' /\ Owners'
  BY QuietStep DEF HandleEvents, timers, user
<1>2. TypeOK'
  BY DEF HandleEvents, FirstHandler, IInv, TypeOK, tables, kernel, timers,
         user, Handlers, Channels
<1>3. Valid(c) /\ (Alive(c) \/ c \in dropped)
  <2>1. Valid(c)
    BY DEF HandleEvents, IInv, Batches
  <2>2. fdOf[c] \in Fds
    BY <2>1 DEF Valid, AllFds, IInv, Owners, FdsOwned
  <2> QED BY <2>1, <2>2, RegisteredOwns DEF Valid
<1>4. Batches'
  BY <1>3 DEF HandleEvents, FirstHandler, IInv, Batches, Valid, Handlers, tables, user
<1> QED BY <1>1, <1>2, <1>4 DEF IInv

\* A handler returns; if it has destroyed its connection, it has dropped it.
LEMMA ReturnStep == IInv /\ (IoReturns \/ ConnReturns \/ ErrorReturns) => IInv'
<1> SUFFICES ASSUME IInv, IoReturns \/ ConnReturns \/ ErrorReturns PROVE IInv'
  OBVIOUS
<1> USE ConstFacts
<1>1. TableMatchesEpoll' /\ Owners'
  BY QuietStep DEF IoReturns, ConnReturns, ErrorReturns, channel, timers, user
<1>2. cur \in Conns /\ Valid(cur)
  BY DEF IoReturns, ConnReturns, ErrorReturns, IInv, Batches, Handlers, TypeOK
<1>3. Alive(cur) \/ cur \in dropped
  <2>1. fdOf[cur] \in Fds
    BY <1>2 DEF Valid, AllFds, IInv, Owners, FdsOwned
  <2> QED BY <1>2, <2>1, RegisteredOwns DEF Valid
<1>4. TypeOK'
  BY <1>2 DEF IoReturns, ConnReturns, ErrorReturns, IInv, TypeOK, channel,
              tables, kernel, timers, user, Handlers, Channels
<1>5. Batches'
  BY <1>3 DEF IoReturns, ConnReturns, ErrorReturns, IInv, Batches, Valid,
              Handlers, channel, tables, user
<1> QED BY <1>1, <1>4, <1>5 DEF IInv

\* The steps between the batch and the next poll, and the clock.
LEMMA PhaseStep ==
  IInv /\ (RunFunctors \/ FunctorsDone \/ ExpiredDone \/ StartOver
             \/ \E n \in Nodes : Elapse(n))
    => IInv'
<1> SUFFICES ASSUME IInv,
                    RunFunctors \/ FunctorsDone \/ ExpiredDone \/ StartOver
                      \/ \E n \in Nodes : Elapse(n)
             PROVE  IInv'
  OBVIOUS
<1> USE ConstFacts
<1>1. TableMatchesEpoll' /\ Owners'
  BY QuietStep DEF RunFunctors, FunctorsDone, ExpiredDone, StartOver, Elapse,
                   channel, timers, user
<1>2. TypeOK'
  BY DEF RunFunctors, FunctorsDone, ExpiredDone, StartOver, Elapse, IInv, TypeOK, loop,
         channel, tables, kernel, timers, user
<1>3. Batches'
  BY DEF RunFunctors, FunctorsDone, ExpiredDone, StartOver, Elapse, IInv, Batches, Valid,
         Handlers, loop, channel, tables, user
<1> QED BY <1>1, <1>2, <1>3 DEF IInv

-----------------------------------------------------------------------------
(* Epoll's own operations.                                                 *)

\* epoll_mod of a channel that owns its descriptor.
LEMMA ModKeepsTable ==
  ASSUME IInv, NEW c \in Channels, NEW m \in SUBSET Events, Mod(c, m),
         fdOf[c] \in AllFds, fd2chan[fdOf[c]] \in {c, None},
         UNCHANGED <<fdOf, registered>>
  PROVE  /\ TableMatchesEpoll' /\ fd2chan' = fd2chan
         /\ events' \in [Channels -> SUBSET Events]
         /\ lastEvents' \in [Channels -> SUBSET Events]
         /\ interest' \in [AllFds -> SUBSET Events]
<1> USE ConstFacts
<1>1. events' = [events EXCEPT ![c] = m] /\ lastEvents' = [lastEvents EXCEPT ![c] = m]
  BY DEF Mod
<1>2. fd2chan' = fd2chan
  BY DEF Mod, IInv, TypeOK, TableMatchesEpoll
<1>3. interest' = IF lastEvents[c] # m /\ fdOf[c] \in registered
                  THEN [interest EXCEPT ![fdOf[c]] = m] ELSE interest
  BY DEF Mod
<1>4. TableMatchesEpoll'
  BY <1>1, <1>2, <1>3 DEF IInv, TypeOK, TableMatchesEpoll
<1> QED BY <1>1, <1>2, <1>3, <1>4 DEF IInv, TypeOK

\* epoll_del of a descriptor whose channel, if it has one, is the one that
\* goes.
LEMMA DelKeepsTable ==
  ASSUME IInv, NEW c \in Conns, Alive(c), Del(c), UNCHANGED <<fdOf, lastEvents>>
  PROVE  /\ TableMatchesEpoll' /\ WakeupOwns'
         /\ fd2chan' \in [AllFds -> Channels \cup {None}]
         /\ fd2http' \in [AllFds -> Conns \cup {None}]
         /\ registered' \subseteq AllFds
         /\ interest' \in [AllFds -> SUBSET Events]
<1> USE ConstFacts
<1>1. fdOf[c] \in Fds /\ fdOf[c] \in AllFds /\ fdOf[c] # WakeupFd
  BY OwnDescriptor DEF AllFds
<1>2. TableMatchesEpoll'
  BY <1>1 DEF Del, Forget, IInv, TypeOK, TableMatchesEpoll
<1>3. WakeupOwns'
  BY <1>1 DEF Del, Forget, IInv, TypeOK, Owners, WakeupOwns, AllFds
<1> QED BY <1>1, <1>2, <1>3 DEF Del, Forget, IInv, TypeOK

\* Nobody gains or loses a descriptor when no connection comes to life.
LEMMA NobodyNew ==
  ASSUME IInv, fdOf' = fdOf, \A c \in Conns : Alive(c)' => Alive(c)
  PROVE  FdsOwned'
  BY DEF IInv, Owners, FdsOwned

\* add_timer links an unused node.
LEMMA TimerLinked ==
  ASSUME IInv, NEW c \in Conns, NEW timed \in BOOLEAN, SetTimer(c, timed)
  PROVE  /\ nodeOf' \in [Nodes -> Conns \cup {None}]
         /\ link' \in [Conns -> Nodes \cup {None}]
         /\ due' \cup lapped' \subseteq {n \in Nodes : nodeOf'[n] # None}
         /\ LinksPoint'
         /\ \A n \in Nodes : nodeOf'[n] \in {nodeOf[n], c}
<1> USE ConstFacts
<1>1. CASE ~timed
  BY <1>1 DEF SetTimer, timers, IInv, TypeOK, Owners, LinksPoint
<1>2. CASE timed
  <2>1. PICK n \in FreeNodes :
          /\ nodeOf' = [nodeOf EXCEPT ![n] = c]
          /\ link' = [link EXCEPT ![c] = n]
          /\ due' = due /\ lapped' = lapped
    BY <1>2 DEF SetTimer, AddTimer, Lowest
  <2>2. n \in Nodes /\ nodeOf[n] = None
    BY DEF FreeNodes
  <2>3. LinksPoint'
    BY <2>1, <2>2 DEF IInv, TypeOK, Owners, LinksPoint
  <2> QED BY <2>1, <2>2, <2>3 DEF IInv, TypeOK
<1> QED BY <1>1, <1>2

LEMMA HandleWakeupStep == IInv /\ HandleWakeup => IInv'
<1> SUFFICES ASSUME IInv, HandleWakeup PROVE IInv'
  OBVIOUS
<1> USE ConstFacts
<1>1. fdOf[Wakeup] = WakeupFd /\ fd2chan[WakeupFd] = Wakeup
  BY DEF IInv, Owners, WakeupOwns
<1>2. /\ TableMatchesEpoll' /\ fd2chan' = fd2chan
      /\ events' \in [Channels -> SUBSET Events]
      /\ lastEvents' \in [Channels -> SUBSET Events]
      /\ interest' \in [AllFds -> SUBSET Events]
  <2>1. Wakeup \in Channels /\ {"in"} \in SUBSET Events /\ WakeupFd \in AllFds
    BY DEF Channels, Events, AllFds
  <2> QED BY <1>1, <2>1, ModKeepsTable DEF HandleWakeup
<1>3. Owners'
  <2>1. \A c \in Conns : Alive(c)' <=> Alive(c)
    BY DEF Alive, HandleWakeup, timers, user
  <2>2. FdsOwned'
    BY <2>1, NobodyNew DEF HandleWakeup
  <2> QED BY <1>2, <2>2 DEF HandleWakeup, timers, user, IInv, Owners,
                            WakeupOwns, HttpOwns, LinksPoint
<1>4. TypeOK'
  BY <1>2 DEF HandleWakeup, timers, user, IInv, TypeOK
<1>5. Batches'
  BY <1>2 DEF HandleWakeup, user, IInv, Batches, Valid, Handlers
<1> QED BY <1>2, <1>3, <1>4, <1>5 DEF IInv

LEMMA UpdateStep ==
  ASSUME IInv, NEW c \in Conns, NEW m \in Masks \cup {events[c]},
         NEW timed \in BOOLEAN, UpdatePoller(c, m, timed)
  PROVE  IInv'
<1> USE ConstFacts
<1>1. Alive(c) /\ fdOf[c] \in AllFds /\ fd2chan[fdOf[c]] \in {c, None}
  BY OwnDescriptor DEF UpdatePoller, AllFds
<1>2. /\ TableMatchesEpoll' /\ fd2chan' = fd2chan
      /\ events' \in [Channels -> SUBSET Events]
      /\ lastEvents' \in [Channels -> SUBSET Events]
      /\ interest' \in [AllFds -> SUBSET Events]
  <2>1. c \in Channels /\ m \in SUBSET Events
    BY DEF Channels, IInv, TypeOK
  <2> QED BY <1>1, <2>1, ModKeepsTable DEF UpdatePoller
<1>3. /\ nodeOf' \in [Nodes -> Conns \cup {None}]
      /\ link' \in [Conns -> Nodes \cup {None}]
      /\ due' \cup lapped' \subseteq {n \in Nodes : nodeOf'[n] # None}
      /\ LinksPoint'
      /\ \A n \in Nodes : nodeOf'[n] \in {nodeOf[n], c}
  BY TimerLinked DEF UpdatePoller
<1>4. Owners'
  <2>1. \A d \in Conns : Alive(d)' => Alive(d)
    BY <1>1, <1>3 DEF Alive, UpdatePoller, user
  <2>2. FdsOwned'
    BY <2>1, NobodyNew DEF UpdatePoller
  <2> QED BY <1>2, <1>3, <2>2 DEF UpdatePoller, user, IInv, Owners, WakeupOwns,
                                  HttpOwns
<1>5. TypeOK'
  BY <1>2, <1>3 DEF UpdatePoller, loop, user, IInv, TypeOK
<1>6. Batches'
  BY <1>2 DEF UpdatePoller, loop, user, IInv, Batches, Valid
<1> QED BY <1>2, <1>4, <1>5, <1>6 DEF IInv

\* A new connection gets a descriptor that nobody alive has, and the tables
\* have nobody there.
LEMMA AddStep ==
  ASSUME IInv, NEW c \in Conns, NEW m \in Masks, NEW timed \in BOOLEAN,
         AddToPoller(c, m, timed)
  PROVE  IInv'
<1> USE ConstFacts
<1>1. fdOf[c] = None /\ ~Alive(c)
  BY DEF AddToPoller, Lowest, IInv, Owners, FdsOwned
<1>2. PICK f \in FreeFds :
        /\ fdOf' = [fdOf EXCEPT ![c] = f]
        /\ Hold(c, f, timed)
        /\ CtlAdd(c, f, m)
  BY DEF AddToPoller, Lowest
<1>3. /\ f \in Fds /\ f \in AllFds /\ f # WakeupFd
      /\ fd2chan[f] = None /\ fd2http[f] = None /\ f \notin registered
      /\ \A d \in Conns : Alive(d) => fdOf[d] # f
  BY FreeDescriptor DEF AllFds
<1>4. /\ nodeOf' \in [Nodes -> Conns \cup {None}]
      /\ link' \in [Conns -> Nodes \cup {None}]
      /\ due' \cup lapped' \subseteq {n \in Nodes : nodeOf'[n] # None}
      /\ LinksPoint'
      /\ \A n \in Nodes : nodeOf'[n] \in {nodeOf[n], c}
  BY TimerLinked DEF AddToPoller
<1>5. /\ events' = [events EXCEPT ![c] = m]
      /\ lastEvents' = [lastEvents EXCEPT ![c] = m]
      /\ held' = IF timed THEN held ELSE held \cup {c}
      /\ UNCHANGED <<loop, revents, dropped>>
  BY DEF AddToPoller
<1>6. fd2http' = IF timed THEN [fd2http EXCEPT ![f] = c] ELSE fd2http
  BY <1>2 DEF Hold
<1>7. c \in Channels /\ m \in SUBSET Events
  BY DEF Channels
<1>8. /\ fd2chan' \in [AllFds -> Channels \cup {None}]
      /\ registered' \subseteq AllFds
      /\ interest' \in [AllFds -> SUBSET Events]
      /\ fd2chan'[f] \in {c, None}
      /\ \A g \in AllFds \ {f} : fd2chan'[g] = fd2chan[g]
  BY <1>2, <1>3, <1>7 DEF CtlAdd, IInv, TypeOK
<1>9. TypeOK'
  BY <1>2, <1>3, <1>4, <1>5, <1>6, <1>7, <1>8 DEF loop, IInv, TypeOK
<1>10. TableMatchesEpoll'
  <2> SUFFICES ASSUME NEW g \in AllFds
               PROVE  /\ g \in registered' <=> fd2chan'[g] # None
                      /\ g \in registered' =>
                           /\ fdOf'[fd2chan'[g]] = g
                           /\ interest'[g] = lastEvents'[fd2chan'[g]]
    BY DEF TableMatchesEpoll
  <2>1. CASE g = f
    BY <1>2, <1>3, <1>5, <1>7, <2>1 DEF CtlAdd, IInv, TypeOK
  <2>2. CASE g # f
    <3>1. /\ g \in registered' <=> g \in registered
          /\ interest'[g] = interest[g] /\ fd2chan'[g] = fd2chan[g]
      BY <1>2, <1>3, <2>2 DEF CtlAdd, IInv, TypeOK
    <3>2. fd2chan[g] # c \/ g \notin registered
      BY <1>1 DEF IInv, TableMatchesEpoll, AllFds
    <3> QED BY <1>2, <1>5, <3>1, <3>2 DEF IInv, TypeOK, TableMatchesEpoll
  <2> QED BY <2>1, <2>2
<1>11. \A d \in Conns : Alive(d)' => Alive(d) \/ d = c
  BY <1>3, <1>4, <1>5, <1>6 DEF Alive, IInv, TypeOK
<1>12. FdsOwned'
  <2>1. \A d \in Conns : fdOf'[d] = IF d = c THEN f ELSE fdOf[d]
    BY <1>2, <1>7 DEF IInv, TypeOK, Channels
  <2> QED BY <1>3, <1>11, <2>1 DEF IInv, Owners, FdsOwned
<1>13. WakeupOwns'
  BY <1>2, <1>3 DEF CtlAdd, IInv, TypeOK, Owners, WakeupOwns, AllFds
<1>14. HttpOwns'
  <2>1. ASSUME NEW g \in Fds, fd2http'[g] # None PROVE fdOf'[fd2http'[g]] = g
    <3>1. CASE g = f
      <4>1. fd2http'[f] = c
        BY <1>3, <1>6, <2>1, <3>1 DEF IInv, TypeOK
      <4> QED BY <1>2, <1>7, <3>1, <4>1 DEF IInv, TypeOK
    <3>2. CASE g # f
      <4>1. fd2http'[g] = fd2http[g] /\ fd2http[g] \in Conns
        BY <1>6, <2>1, <3>2 DEF IInv, TypeOK, AllFds
      <4>2. fd2http[g] # c
        BY <1>1 DEF Alive
      <4> QED BY <1>2, <2>1, <4>1, <4>2 DEF IInv, TypeOK, Owners, HttpOwns,
                                            Channels
    <3> QED BY <3>1, <3>2
  <2>2. ASSUME NEW g \in Fds, fd2chan'[g] # None
        PROVE  /\ fd2chan'[g] \in Conns
               /\ fd2chan'[g] \in held' \/ fd2http'[g] = fd2chan'[g]
    <3>1. CASE g = f
      BY <1>3, <1>5, <1>6, <1>8, <2>2, <3>1 DEF IInv, TypeOK
    <3>2. CASE g # f
      BY <1>5, <1>6, <1>8, <2>2, <3>2 DEF IInv, TypeOK, Owners, HttpOwns, AllFds
    <3> QED BY <3>1, <3>2
  <2> QED BY <2>1, <2>2 DEF HttpOwns
<1>15. Batches'
  <2>1. ASSUME NEW d, d \in batch \/ (d = cur /\ cur # None) PROVE Valid(d)'
    <3>1. d \in Channels /\ Valid(d)
      BY <2>1 DEF IInv, TypeOK, Batches, Channels
    <3>2. d # c /\ fdOf'[d] = fdOf[d]
      BY <1>1, <1>2, <3>1 DEF Valid, AllFds, IInv, TypeOK
    <3>3. CASE fdOf[d] = f
      <4>1. d \in dropped
        BY <1>3, <3>1, <3>3 DEF Valid, Channels
      <4> QED BY <1>3, <1>5, <3>2, <3>3, <4>1 DEF Valid
    <3>4. CASE fdOf[d] # f
      BY <1>5, <1>8, <3>1, <3>2, <3>4 DEF Valid
    <3> QED BY <3>3, <3>4
  <2> QED BY <1>5, <2>1 DEF loop, IInv, Batches
<1> QED BY <1>4, <1>9, <1>10, <1>12, <1>13, <1>14, <1>15 DEF IInv, Owners

LEMMA RemoveStep ==
  ASSUME IInv, NEW c \in Conns, RemoveFromPoller(c)
  PROVE  IInv'
<1> USE ConstFacts
<1>1. fdOf[c] \in Fds /\ fdOf[c] \in AllFds /\ fd2chan[fdOf[c]] \in {c, None}
  BY OwnDescriptor DEF RemoveFromPoller, AllFds
<1>2. /\ TableMatchesEpoll' /\ WakeupOwns'
      /\ fd2chan' \in [AllFds -> Channels \cup {None}]
      /\ fd2http' \in [AllFds -> Conns \cup {None}]
      /\ registered' \subseteq AllFds
      /\ interest' \in [AllFds -> SUBSET Events]
  BY DelKeepsTable DEF RemoveFromPoller, channel
<1>3. TypeOK'
  BY <1>2 DEF RemoveFromPoller, loop, channel, timers, IInv, TypeOK
<1>4. FdsOwned'
  <2>1. \A d \in Conns : Alive(d)' => Alive(d)
    BY <1>1 DEF RemoveFromPoller, Del, Alive, timers, IInv, TypeOK, AllFds
  <2> QED BY <2>1, NobodyNew DEF RemoveFromPoller, channel
<1>5. HttpOwns' /\ LinksPoint'
  <2>1. \A g \in Fds : fd2chan'[g] # None => fd2chan'[g] # c
    BY <1>1 DEF RemoveFromPoller, Del, IInv, TypeOK, TableMatchesEpoll, AllFds
  <2> QED BY <1>1, <2>1 DEF RemoveFromPoller, Del, channel, timers, IInv,
                            TypeOK, Owners, HttpOwns, LinksPoint, AllFds
<1>6. Batches'
  <2>1. ASSUME NEW d, Valid(d), d \in batch \/ d = cur PROVE Valid(d)'
    <3>1. CASE d = c
      BY <2>1, <3>1 DEF RemoveFromPoller, channel, Valid
    <3>2. CASE d # c
      BY <1>1, <2>1, <3>2 DEF RemoveFromPoller, Del, channel, Valid, IInv, TypeOK
    <3> QED BY <3>1, <3>2
  <2> QED BY <2>1 DEF RemoveFromPoller, loop, IInv, Batches
<1> QED BY <1>2, <1>3, <1>4, <1>5, <1>6 DEF IInv, Owners

LEMMA SeparateStep ==
  ASSUME IInv, NEW c \in Conns, SeparateTimer(c)
  PROVE  IInv'
<1> USE ConstFacts
<1>1. link[c] \in Nodes /\ nodeOf[link[c]] = c
  BY DEF SeparateTimer, IInv, TypeOK, Owners, LinksPoint
<1>2. TableMatchesEpoll'
  BY DEF SeparateTimer, channel, tables, kernel, IInv, TableMatchesEpoll
<1>3. TypeOK'
  BY <1>1 DEF SeparateTimer, ClearReq, loop, channel, tables, kernel, user,
              IInv, TypeOK
<1>4. FdsOwned'
  <2>1. \A d \in Conns : Alive(d)' => Alive(d)
    BY <1>1 DEF SeparateTimer, ClearReq, Alive, tables, user, IInv, TypeOK
  <2> QED BY <2>1, NobodyNew DEF SeparateTimer, channel
<1>5. LinksPoint'
  BY <1>1 DEF SeparateTimer, ClearReq, IInv, TypeOK, Owners, LinksPoint
<1>6. WakeupOwns' /\ HttpOwns' /\ Batches'
  BY DEF SeparateTimer, loop, channel, tables, kernel, user, IInv, Owners,
         WakeupOwns, HttpOwns, Batches, Valid
<1> QED BY <1>2, <1>3, <1>4, <1>5, <1>6 DEF IInv, Owners

\* A node that dies closes a connection that is alive, and by then no batch
\* is left to be disturbed.
LEMMA PopStep ==
  ASSUME IInv, NEW n \in Nodes, Pop(n)
  PROVE  IInv'
<1> USE ConstFacts
<1> DEFINE c == nodeOf[n]
<1>1. c \in Conns /\ Alive(c)
  BY DEF Pop, IInv, TypeOK, Alive
<1>2. fdOf[c] \in Fds /\ fdOf[c] \in AllFds /\ fd2chan[fdOf[c]] \in {c, None}
  BY <1>1, OwnDescriptor DEF AllFds
<1>3. /\ TableMatchesEpoll' /\ WakeupOwns'
      /\ fd2chan' \in [AllFds -> Channels \cup {None}]
      /\ fd2http' \in [AllFds -> Conns \cup {None}]
      /\ registered' \subseteq AllFds
      /\ interest' \in [AllFds -> SUBSET Events]
  BY <1>1, DelKeepsTable DEF Pop, channel
<1>4. TypeOK'
  BY <1>3 DEF Pop, ClearReq, loop, channel, IInv, TypeOK
<1>5. FdsOwned'
  <2>1. \A d \in Conns : Alive(d)' => Alive(d)
    BY <1>2 DEF Pop, ClearReq, Del, Alive, IInv, TypeOK, AllFds
  <2> QED BY <2>1, NobodyNew DEF Pop, channel
<1>6. HttpOwns'
  <2>1. \A g \in Fds : fd2chan'[g] # None => fd2chan'[g] # c
    BY <1>2 DEF Pop, Del, IInv, TypeOK, TableMatchesEpoll, AllFds
  <2> QED BY <1>2, <2>1 DEF Pop, Del, channel, IInv, TypeOK, Owners, HttpOwns,
                            AllFds
<1>7. LinksPoint'
  BY DEF Pop, ClearReq, IInv, TypeOK, Owners, LinksPoint
<1>8. Batches'
  BY DEF Pop, loop, IInv, Batches, Handlers
<1> QED BY <1>3, <1>4, <1>5, <1>6, <1>7, <1>8 DEF IInv, Owners

-----------------------------------------------------------------------------
(* The theorems.                                                           *)

LEMMA InvStep == IInv /\ [Next]_vars => IInv'
<1> SUFFICES ASSUME IInv, [Next]_vars PROVE IInv'
  OBVIOUS
<1>1. CASE Poll
  BY <1>1, PollStep
<1>2. CASE LoopThread
  BY <1>2, HandleWakeupStep, ReturnStep, PhaseStep, HandleEventsStep, PopStep
     DEF LoopThread
<1>3. CASE UserCalls
  BY <1>3, RemoveStep, SeparateStep, AddStep, UpdateStep DEF UserCalls
<1>4. CASE StartOver \/ \E n \in Nodes : Elapse(n)
  BY <1>4, PhaseStep
<1>5. CASE UNCHANGED vars
  <2>1. TableMatchesEpoll' /\ Owners'
    BY <1>5, QuietStep DEF vars, channel, timers, user
  <2>2. TypeOK'
    BY <1>5 DEF vars, loop, channel, tables, kernel, timers, user, IInv, TypeOK
  <2>3. Batches'
    BY <1>5 DEF vars, loop, channel, tables, user, IInv, Batches, Valid
  <2> QED BY <2>1, <2>2, <2>3 DEF IInv
<1> QED BY <1>1, <1>2, <1>3, <1>4, <1>5 DEF Next

LEMMA ReactorInvariant == Spec => []IInv
  BY InitInv, InvStep, PTL DEF Spec

\* The loop, its channels, both tables of Epoll and the timer nodes keep
\* their types, and only a node that still holds a connection is waited for
\* (Epoll.h:25-34, Channel.h:19-26).
THEOREM TypeCorrect == Spec => []TypeOK
<1>1. IInv => TypeOK
  BY DEF IInv
<1> QED BY <1>1, ReactorInvariant, PTL

\* fd2chan_ and the kernel's set agree however calls of epoll_ctl fail and
\* descriptors are used again (Epoll.cpp:29-77).
THEOREM TableAgrees == Spec => []TableMatchesEpoll
<1>1. IInv => TableMatchesEpoll
  BY DEF IInv
<1> QED BY <1>1, ReactorInvariant, PTL

\* A connection that epoll may report is alive: epoll_add keeps it by
\* fd2http_ until epoll_del, whatever becomes of its timer (Epoll.cpp:29-77).
THEOREM RegisteredStaysAlive == Spec => []RegisteredIsAlive
<1>1. IInv => RegisteredIsAlive
  BY RegisteredOwns DEF RegisteredIsAlive
<1> QED BY <1>1, ReactorInvariant, PTL

\* Only handlers of the batch itself take channels of the batch away: the
\* loop handles events, then functors, then timers (EventLoop.cpp:95-108).
THEOREM BatchValid == Spec => []BatchStaysValid
<1>1. IInv => BatchStaysValid
  BY DEF IInv, Batches, Valid, BatchStaysValid
<1> QED BY <1>1, ReactorInvariant, PTL

=============================================================================
