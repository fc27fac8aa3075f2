------------------------------- MODULE Server -------------------------------
(***************************************************************************)
(* TCP_Server.cpp, with HttpData::HandleRead and HandleWrite and writen of *)
(* Util.cpp: one thread that selects on a listening socket and on its      *)
(* connections, and serves one connection at a time, to the end.  The      *)
(* peers and the kernel's sockets are the environment: peers connect,      *)
(* send, read, finish and reset when they like.                            *)
(*                                                                         *)
(* An operator that stands directly before the one it varies (AnySlot      *)
(* before FreeSlot) is a slip the properties must notice, used by no       *)
(* action.                                                                 *)
(***************************************************************************)
EXTENDS Integers, Sequences, FiniteSets, FiniteSetsExt

CONSTANTS
  Conns,        \* connections, numbered as peers make them, each once (a bound)
  NONE,         \* no connection
  Listen,       \* listen_fd
  Fds,          \* the descriptors the process may still open
  TableSize,    \* FD_SETSIZE, the length of client[]
  Initialised,  \* how many entries of client[] the memset reaches
  Garbage,      \* what the other entries may hold: a number of an fd_set, or a
                \* negative one
  Requests,     \* requests a peer may send (a bound)
  Room,         \* bytes the send buffer and the peer's window take
  Response      \* length of a response

ASSUME ServerAssumption ==
  /\ Conns \subseteq Nat /\ NONE \notin Conns
  /\ Listen \in Nat /\ Fds \subseteq Nat /\ \A f \in Fds : f > Listen
  /\ IsFiniteSet(Fds)
  /\ TableSize \in Nat /\ Initialised \in 0..TableSize
  /\ Garbage \subseteq Int
  /\ Requests \in Nat /\ Room \in Nat \ {0} /\ Response \in Nat \ {0}

Slots == 0..TableSize - 1

VARIABLES
  pc,         \* control point of ServerStart and httpRecvandSend
  client,     \* client[]
  found,      \* history: what client[] held when the server started
  maxi,       \* maxi
  maxfd,      \* maxfd
  allSet,     \* all_set
  readSet,    \* read_set (empty behind a round)
  nready,     \* nready (zero behind a round): -1 if select failed
  i,          \* i, of the scan (zero behind a round)
  left,       \* writen's nleft (zero behind it)
  sock,       \* sock[f]: the connection descriptor f is open on, or NONE
  backlog,    \* connections established and not accepted
  peer,       \* peer[c]: "new", "open", "finished", "reset", or "gone" once
              \* the server has closed the connection
  inbox,      \* inbox[c]: requests that have arrived and were not received
  room,       \* room[c]: bytes that can still be written to c
  sent        \* history: requests the peer of c has sent

table  == <<client, found, maxi, maxfd, allSet>>
scan   == <<readSet, nready, i>>
kernel == <<sock, backlog, inbox, room>>
peers  == <<peer, sent>>
vars == <<pc, table, scan, left, kernel, peers>>

-----------------------------------------------------------------------------
(* The kernel.                                                             *)

Open(f) == f \in Fds /\ sock[f] # NONE

Free == {f \in Fds : sock[f] = NONE}

\* client_fd: what httpRecvandSend is given.
fd == client[i]

\* read would not block: data, end of file or an error.
Readable(f) ==
  IF f = Listen THEN backlog # <<>>
  ELSE Open(f) /\ (inbox[sock[f]] > 0 \/ peer[sock[f]] \in {"finished", "reset"})

\* close(f) throws away what is still in the socket's buffers; a closed
\* descriptor is EBADF.
Close(f) ==
  IF Open(f)
  THEN /\ sock' = [sock EXCEPT ![f] = NONE]
       /\ peer' = [peer EXCEPT ![sock[f]] = "gone"]
       /\ inbox' = [inbox EXCEPT ![sock[f]] = 0]
       /\ room' = [room EXCEPT ![sock[f]] = Room]
  ELSE UNCHANGED <<sock, peer, inbox, room>>

-----------------------------------------------------------------------------
(* The peers.  What one does on a connection the server has closed changes *)
(* nothing for the server, and is left out.                                *)

Connect(c) ==
  /\ Listen \in allSet
  /\ peer[c] = "new" /\ \A d \in Conns : d < c => peer[d] # "new"
  /\ peer' = [peer EXCEPT ![c] = "open"]
  /\ backlog' = Append(backlog, c)
  /\ UNCHANGED <<pc, table, scan, left, sock, inbox, room, sent>>

Send(c) ==
  /\ peer[c] = "open" /\ sent[c] < Requests
  /\ sent' = [sent EXCEPT ![c] = @ + 1]
  /\ inbox' = [inbox EXCEPT ![c] = @ + 1]
  /\ UNCHANGED <<pc, table, scan, left, sock, backlog, room, peer>>

Reads(c) ==
  /\ peer[c] \notin {"new", "gone"} /\ room[c] < Room
  /\ room' = [room EXCEPT ![c] = Room]
  /\ UNCHANGED <<pc, table, scan, left, sock, backlog, inbox, peers>>

\* The peer shuts its end down, or resets the connection, which may also
\* throw away what it had sent.
Finish(c) ==
  /\ peer[c] = "open"
  /\ peer' = [peer EXCEPT ![c] = "finished"]
  /\ UNCHANGED <<pc, table, scan, left, kernel, sent>>

Reset(c) ==
  /\ peer[c] \in {"open", "finished"}
  /\ peer' = [peer EXCEPT ![c] = "reset"]
  /\ inbox' \in {inbox, [inbox EXCEPT ![c] = 0]}
  /\ UNCHANGED <<pc, table, scan, left, sock, backlog, room, sent>>

-----------------------------------------------------------------------------
(* ServerStart()                                                           *)

\* Back to select: what the round kept in readSet, nready and i is dead.
EndRound == pc' = "select" /\ readSet' = {} /\ nready' = 0 /\ i' = 0

\* What select(maxfd + 1, ...) looks at, and what it reports.
BelowMaxfd == {f \in allSet : f < maxfd}
Watched == {f \in allSet : f <= maxfd}
AllConnections == {f \in Watched : f = Listen => Readable(f)}
Active == {f \in Watched : Readable(f)}

\* select blocks until something is readable and returns all that is.
Select ==
  /\ pc = "select" /\ Active # {}
  /\ readSet' = Active
  /\ nready' = Cardinality(Active)
  /\ i' = 0
  /\ pc' = IF Listen \in Active THEN "accept" ELSE "scan"
  /\ UNCHANGED <<table, left, kernel, peers>>

\* select returns -1 for want of memory (no descriptor of all_set is closed,
\* no signal has a handler).  Nobody looks; read_set is still all of all_set.
SelectFails ==
  /\ pc = "select"
  /\ readSet' = allSet /\ nready' = -1 /\ i' = 0
  /\ pc' = IF Listen \in allSet THEN "accept" ELSE "scan"
  /\ UNCHANGED <<table, left, kernel, peers>>

\* if (--nready <= 0) the round is over, else it goes on.
CountDownEarly(goOn) ==
  IF nready <= 2 THEN EndRound
                 ELSE nready' = nready - 1 /\ UNCHANGED readSet /\ goOn
CountDown(goOn) ==
  IF nready <= 1 THEN EndRound
                 ELSE nready' = nready - 1 /\ UNCHANGED readSet /\ goOn

\* The first entry of client[] that is negative.
AnySlot(k) == k \in Slots
FreeSlot(k) == /\ k \in Slots /\ client[k] < 0
               /\ \A j \in 0..k - 1 : client[j] >= 0

\* accept4 fails: the process has no descriptor left, or the system no file
\* or no memory.  Back to select.
AcceptFails ==
  /\ pc = "accept"
  /\ Free = {} \/ backlog # <<>>
  /\ EndRound
  /\ UNCHANGED <<table, left, kernel, peers>>

\* The new descriptor is the lowest free one.  Behind it the scan starts,
\* unless nothing else was ready.  The listening socket blocks: when select
\* has failed, accept4 may wait for a connection.
Accept ==
  /\ pc = "accept" /\ Free # {} /\ backlog # <<>>
  /\ LET f == Min(Free)
     IN  /\ sock' = [sock EXCEPT ![f] = Head(backlog)]
         /\ backlog' = Tail(backlog)
         /\ \E k \in Slots :
              /\ FreeSlot(k)
              /\ client' = [client EXCEPT ![k] = f]
              /\ maxi' = IF k > maxi THEN k ELSE maxi
         /\ allSet' = allSet \cup {f}
         /\ maxfd' = IF f > maxfd THEN f ELSE maxfd
  /\ CountDown(pc' = "scan" /\ UNCHANGED i)
  /\ UNCHANGED <<found, left, inbox, room, peers>>

\* "too many client!"
TooManyClients ==
  /\ pc = "accept" /\ Free # {} /\ backlog # <<>>
  /\ ~\E k \in Slots : FreeSlot(k)
  /\ sock' = [sock EXCEPT ![Min(Free)] = Head(backlog)]
  /\ backlog' = Tail(backlog)
  /\ pc' = "exited"
  /\ UNCHANGED <<table, scan, left, inbox, room, peers>>

\* for (i = 0; i <= maxi; i++): on to the next entry that was reported, or
\* to the end.
Reported == {k \in i..maxi : client[k] >= 0 /\ client[k] \in readSet}

Scan ==
  /\ pc = "scan"
  /\ IF Reported = {}
     THEN EndRound
     ELSE i' = Min(Reported) /\ pc' = "recv" /\ UNCHANGED <<readSet, nready>>
  /\ UNCHANGED <<table, left, kernel, peers>>

\* FD_CLR behind httpRecvandSend.
ClearFd == allSet' = allSet \ {fd}

-----------------------------------------------------------------------------
(* httpRecvandSend()                                                       *)

\* HandleRead and ParseRequest: recv takes all that has arrived, of which
\* the first request is parsed.  On a header that has not arrived in whole
\* ParseRequest throws ("killed") or never returns ("stuck").
Recv ==
  /\ pc = "recv" /\ Open(fd) /\ inbox[sock[fd]] > 0
  /\ inbox' = [inbox EXCEPT ![sock[fd]] = 0]
  /\ pc' \in {"respond", "killed", "stuck"}
  /\ UNCHANGED <<table, scan, left, sock, backlog, room, peers>>

\* HandleWrite up to writen: the file is there and can be mapped, or not.
Respond ==
  /\ pc = "respond"
  /\ \/ pc' = "write" /\ left' = Response
     \/ pc' = "error" /\ UNCHANGED left
  /\ UNCHANGED <<table, scan, kernel, peers>>

\* writen: as much as there is room for; while there is none, EAGAIN and
\* another try.
AllAtOnce == left
Written == Min({left, room[sock[fd]]})

Write ==
  /\ pc = "write" /\ Open(fd) /\ peer[sock[fd]] # "reset"
  /\ left' = left - Written
  /\ room' = [room EXCEPT ![sock[fd]] = @ - Written]
  /\ pc' = IF left' = 0 THEN "recv" ELSE "write"
  /\ UNCHANGED <<table, scan, sock, backlog, inbox, peers>>

\* HandleError: one send whose result is not looked at.
SendError ==
  /\ pc = "error" /\ Open(fd) /\ peer[sock[fd]] # "reset"
  /\ room' = [room EXCEPT ![sock[fd]] = @ - Min({Response, @})]
  /\ pc' = "recv"
  /\ UNCHANGED <<table, scan, left, sock, backlog, inbox, peers>>

\* A write to a connection its peer has reset fails, whereupon HandleWrite
\* closes the descriptor (HandleError does not), or raises SIGPIPE, which
\* nobody handles.
WriteReset ==
  /\ pc \in {"write", "error"} /\ Open(fd) /\ peer[sock[fd]] = "reset"
  /\ \/ pc' = "recv" /\ IF pc = "write" THEN Close(fd)
                         ELSE UNCHANGED <<sock, peer, inbox, room>>
     \/ pc' = "killed" /\ UNCHANGED <<sock, peer, inbox, room>>
  /\ left' = 0
  /\ UNCHANGED <<table, scan, backlog, sent>>

\* An entry that was never initialised may hold listen_fd, from which recv
\* fails: then it is closed, and those who wait in its backlog are reset.
Waiting == {backlog[k] : k \in 1..Len(backlog)}
CloseListening ==
  /\ backlog' = <<>>
  /\ peer' = [c \in Conns |-> IF c \in Waiting THEN "gone" ELSE peer[c]]
  /\ inbox' = [c \in Conns |-> IF c \in Waiting THEN 0 ELSE inbox[c]]
  /\ UNCHANGED <<sock, room>>

\* HandleRead returns 0 or -1: end of file, an error, EAGAIN, or EBADF if
\* the descriptor is closed already.  Closed it is, its entry reused.
CloseConnection ==
  /\ pc = "recv" /\ ~(Open(fd) /\ inbox[sock[fd]] > 0)
  /\ IF fd = Listen THEN CloseListening ELSE Close(fd) /\ UNCHANGED backlog
  /\ ClearFd
  /\ client' = [client EXCEPT ![i] = -1]
  /\ CountDown(pc' = "scan" /\ i' = i + 1)
  /\ UNCHANGED <<found, maxi, maxfd, left, sent>>

-----------------------------------------------------------------------------
\* ServerStart up to its loop: socket, bind and listen have succeeded.
Init ==
  /\ pc = "select"
  /\ found \in [Slots -> Garbage \cup {-1}]
  /\ \A k \in Slots : IF k < Initialised THEN found[k] = -1
                                         ELSE found[k] \in Garbage
  /\ client = found
  /\ maxi = -1 /\ maxfd = Listen /\ allSet = {Listen}
  /\ readSet = {} /\ nready = 0 /\ i = 0 /\ left = 0
  /\ sock = [f \in Fds |-> NONE]
  /\ backlog = <<>>
  /\ peer = [c \in Conns |-> "new"]
  /\ inbox = [c \in Conns |-> 0]
  /\ room = [c \in Conns |-> Room]
  /\ sent = [c \in Conns |-> 0]

ServerLoop == Select \/ AcceptFails \/ Accept \/ TooManyClients \/ Scan

HttpRecvAndSend == \/ Recv \/ Respond \/ Write \/ SendError \/ WriteReset
                   \/ CloseConnection

Peers == \E c \in Conns : \/ Connect(c) \/ Send(c) \/ Reads(c)
                          \/ Finish(c) \/ Reset(c)

Next == ServerLoop \/ SelectFails \/ HttpRecvAndSend \/ Peers

Spec == Init /\ [][Next]_vars

\* The server's only thread runs whenever it can; no call of select has to
\* fail.  The kernel does not want for memory for ever: of repeated calls of
\* select one succeeds some time, and of accept4, if there is a descriptor.
AcceptSucceeds == Accept \/ TooManyClients
FairSpec == /\ Spec /\ WF_vars(ServerLoop \/ HttpRecvAndSend)
            /\ SF_vars(Select) /\ SF_vars(AcceptSucceeds)

\* Peers that always read what the server has written to them.
ReadingSpec == FairSpec /\ \A c \in Conns : WF_vars(Reads(c))

-----------------------------------------------------------------------------
(* Properties                                                              *)

\* Every variable has a value of the kind the code gives it.
TypeOK ==
  /\ pc \in {"select", "accept", "scan", "recv", "respond", "write", "error",
             "exited", "killed", "stuck"}
  /\ client \in [Slots -> Int] /\ found \in [Slots -> Int]
  /\ maxi \in -1..TableSize - 1 /\ maxfd \in Nat
  /\ allSet \subseteq Fds \cup {Listen} /\ readSet \subseteq Fds \cup {Listen}
  /\ nready \in -1..Cardinality(Fds) + 1 /\ i \in 0..TableSize
  /\ left \in 0..Response
  /\ sock \in [Fds -> Conns \cup {NONE}] /\ backlog \in Seq(Conns)
  /\ peer \in [Conns -> {"new", "open", "finished", "reset", "gone"}]
  /\ inbox \in [Conns -> 0..Requests] /\ room \in [Conns -> 0..Room]
  /\ sent \in [Conns -> 0..Requests]

\* An entry that the memset missed, and that is no free one, lies at or below
\* maxi: the scan takes it for a connection, and may serve and count another
\* one's descriptor twice.
Stray == \E k \in 0..maxi : found[k] >= 0

\* client[], all_set, maxi and maxfd describe exactly the connections that
\* are open, each once, whenever none of them is being served: none is
\* leaked, lost from sight, or watched after its descriptor was closed.  It
\* is so until the scan reaches an entry that only looks like one in use.
InUse == {k \in 0..maxi : client[k] >= 0}
OpenFds == {f \in Fds : sock[f] # NONE}
TableMatchesSockets ==
  pc \in {"select", "accept", "scan"} /\ ~Stray =>
    /\ {client[k] : k \in InUse} = OpenFds
    /\ Cardinality(InUse) = Cardinality(OpenFds)
    /\ allSet = OpenFds \cup {Listen}
    /\ \A f \in allSet : f <= maxfd

\* What select reported of a connection is still so when the scan comes to
\* it, however long the connections before it took: its recv finds data or
\* the end, and never closes a connection that is merely quiet.  It needs
\* a select that did not fail.
ReportStaysTrue ==
  pc = "scan" /\ nready >= 0 =>
    \A f \in (readSet \cap allSet) \ {Listen} : Readable(f)

\* Counting nready down ends a round only when every connection select
\* reported has been served, unless accept failed, or select, or an entry
\* that only looks like one in use was counted.
RoundServesAll ==
  [][pc # "select" /\ pc' = "select" /\ nready >= 0 /\ ~Stray =>
       \/ (readSet \cap allSet') \subseteq {Listen}
       \/ AcceptFails]_vars

\* If the peers read their responses, every request is received or its
\* connection closed, unless the server has ended, ParseRequest is stuck, or
\* accept4 waits although nobody connects, as it may when select has failed,
\* or the process has no descriptor left for the connections that wait: then
\* accept fails again and again, and `continue` keeps the server from all
\* its connections.
OutOfFds == Free = {} /\ backlog # <<>>
Blocked == pc = "accept" /\ backlog = <<>>
RequestReceived ==
  \A c \in Conns :
    (inbox[c] > 0) ~>
       inbox[c] = 0 \/ pc \in {"exited", "killed", "stuck"} \/ OutOfFds
         \/ Blocked

\* The message with which the server exits says that there are too many
\* clients: all entries of client[] should then be connections.
ExitsOnlyWhenFull ==
  pc = "exited" => Cardinality(OpenFds) > TableSize

\* writen's comments: it writes until it is done or errno is EAGAIN, and
\* when the send buffer is full it comes back later.
GivesUpWhenFull ==
  (pc = "write" /\ room[sock[fd]] = 0) ~> (pc # "write")
=============================================================================
