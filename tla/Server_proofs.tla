---------------------------- MODULE Server_proofs ----------------------------
(***************************************************************************)
(* Proofs about Server, for any connections, descriptors and sizes of the  *)
(* table, of the buffers and of a response, and whatever client[] was      *)
(* before the server starts.  The second invariant holds until the scan    *)
(* reaches an entry that only looks like one in use.                       *)
(***************************************************************************)
EXTENDS Server, FiniteSetTheorems, TLAPS

-----------------------------------------------------------------------------
(* Arithmetic.                                                             *)

LEMMA MinOf ==
  ASSUME NEW S \in SUBSET Nat, S # {}
  PROVE  Min(S) \in S /\ \A y \in S : Min(S) <= y
<1>1. PICK x \in S : \A y \in S : ~(<<y, x>> \in OpToRel(<, Nat))
  BY NatLessThanWellFounded, WFMin
<1>2. OpToRel(<, Nat) = {p \in Nat \X Nat : p[1] < p[2]}
  BY DEF OpToRel
<1>3. ASSUME NEW y \in S PROVE x <= y
  <2>1. <<y, x>> \in Nat \X Nat /\ <<y, x>>[1] = y /\ <<y, x>>[2] = x
    OBVIOUS
  <2>2. ~(y < x)
    BY <1>1, <1>2, <2>1
  <2> QED BY <2>2
<1> QED BY <1>3 DEF Min

LEMMA ConstFacts ==
  /\ NONE \notin Conns
  /\ Listen \in Nat /\ Fds \subseteq Nat /\ Listen \notin Fds
  /\ \A f \in Fds : f > Listen
  /\ TableSize \in Nat /\ Slots \subseteq Nat
  /\ \A k \in Slots : k <= TableSize - 1
  /\ IsFiniteSet(Fds) /\ Garbage \subseteq Int
  /\ Requests \in Nat /\ Room \in Nat \ {0} /\ Response \in Nat \ {0}
  BY ServerAssumption DEF Slots

\* What is ready is counted by a number no greater than of all descriptors.
LEMMA SetsAreFinite ==
  ASSUME NEW S \in SUBSET (Fds \cup {Listen})
  PROVE  IsFiniteSet(S) /\ Cardinality(S) \in 0..Cardinality(Fds) + 1
         /\ Cardinality(Fds) \in Nat
<1>1. /\ IsFiniteSet(Fds \cup {Listen})
      /\ Cardinality(Fds \cup {Listen}) = Cardinality(Fds) + 1
      /\ Cardinality(Fds) \in Nat
  BY ConstFacts, FS_AddElement, FS_CardinalityType
<1>2. IsFiniteSet(S) /\ Cardinality(S) <= Cardinality(Fds) + 1
  BY <1>1, FS_Subset
<1> QED BY <1>1, <1>2, FS_CardinalityType

-----------------------------------------------------------------------------
(* The first invariant.                                                    *)

Serving == {"recv", "respond", "write", "error"}

\* Each connection is in one place: not made yet, in the backlog, or open
\* on one descriptor; and what has arrived was sent.
OnePlace ==
  /\ \A f, g \in Fds : sock[f] # NONE /\ sock[f] = sock[g] => f = g
  /\ \A j \in 1..Len(backlog) :
       peer[backlog[j]] # "new" /\ \A f \in Fds : sock[f] # backlog[j]
  /\ \A j, k \in 1..Len(backlog) : backlog[j] = backlog[k] => j = k
  /\ \A f \in Fds : sock[f] # NONE => peer[sock[f]] # "new"
  /\ \A c \in Conns : inbox[c] <= sent[c]

\* Until the scan comes to it, what select reported stays readable; the
\* connection that is being served need not.
Reports ==
  /\ pc = "accept" => readSet \subseteq allSet /\ i = 0
  /\ pc \in Serving => i \in Slots
  /\ nready >= 0 /\ pc \in {"accept", "scan"} \cup Serving =>
       \A f \in (readSet \cap allSet) \ {Listen} :
         Readable(f) \/ (pc \in Serving /\ f = fd)

IInv == TypeOK /\ OnePlace /\ Reports

-----------------------------------------------------------------------------
LEMMA InitInv == Init => IInv
<1> SUFFICES ASSUME Init PROVE IInv
  OBVIOUS
<1> USE ConstFacts
<1>1. TypeOK
  <2>1. client \in [Slots -> Int] /\ found \in [Slots -> Int]
    <3>1. found \in [Slots -> Garbage \cup {-1}] /\ client = found
      BY DEF Init
    <3>2. Garbage \cup {-1} \subseteq Int
      OBVIOUS
    <3> QED BY <3>1, <3>2
  <2>2. nready \in -1..Cardinality(Fds) + 1
    BY SetsAreFinite DEF Init
  <2> QED BY <2>1, <2>2 DEF Init, TypeOK
<1>2. OnePlace /\ Reports
  BY DEF Init, OnePlace, Reports, Serving
<1> QED BY <1>1, <1>2 DEF IInv

-----------------------------------------------------------------------------
(* The peers.                                                              *)

\* A peer takes nothing away from what is readable.
LEMMA PeersKeepReports ==
  ASSUME IInv,
         UNCHANGED <<pc, table, scan, sock>>,
         \A f \in Fds : Readable(f) => Readable(f)'
  PROVE  Reports'
<1>1. \A f \in (readSet \cap allSet) \ {Listen} : f \in Fds
  BY DEF IInv, TypeOK
<1> QED BY <1>1 DEF IInv, Reports, fd, table, scan

LEMMA ConnectStep ==
  ASSUME IInv, NEW c \in Conns, Connect(c)
  PROVE  IInv'
<1> USE ConstFacts
<1>1. TypeOK'
  BY DEF Connect, table, scan, IInv, TypeOK
<1>2. backlog' = Append(backlog, c) /\ backlog \in Seq(Conns)
  BY DEF Connect, IInv, TypeOK
<1>3. /\ Len(backlog') = Len(backlog) + 1 /\ backlog'[Len(backlog) + 1] = c
      /\ \A j \in 1..Len(backlog) : backlog'[j] = backlog[j]
  BY <1>2
<1>4. OnePlace'
  <2>1. \A j \in 1..Len(backlog) : backlog[j] # c
    BY DEF Connect, IInv, OnePlace
  <2>2. \A f \in Fds : sock[f] # c
    BY DEF Connect, IInv, OnePlace
  <2>3. \A d \in Conns : peer'[d] = IF d = c THEN "open" ELSE peer[d]
    BY DEF Connect, IInv, TypeOK
  <2>4. \A j \in 1..Len(backlog) : backlog[j] \in Conns
    BY <1>2
  <2>5. \A j \in 1..Len(backlog') :
          peer'[backlog'[j]] # "new" /\ \A f \in Fds : sock'[f] # backlog'[j]
    BY <1>2, <1>3, <2>2, <2>3, <2>4 DEF Connect, IInv, OnePlace
  <2>6. \A j, k \in 1..Len(backlog') : backlog'[j] = backlog'[k] => j = k
    BY <1>2, <1>3, <2>1 DEF IInv, OnePlace
  <2>7. \A f \in Fds : sock'[f] # NONE => peer'[sock'[f]] # "new"
    BY <2>2, <2>3 DEF Connect, IInv, TypeOK, OnePlace
  <2> QED BY <2>5, <2>6, <2>7 DEF Connect, IInv, OnePlace
<1>5. Reports'
  <2>1. \A f \in Fds : Readable(f) => Readable(f)'
    BY DEF Connect, Readable, Open, IInv, TypeOK, OnePlace
  <2> QED BY <2>1, PeersKeepReports DEF Connect
<1> QED BY <1>1, <1>4, <1>5 DEF IInv

LEMMA SendStep ==
  ASSUME IInv, NEW c \in Conns, Send(c)
  PROVE  IInv'
<1> USE ConstFacts
<1>1. /\ inbox' = [inbox EXCEPT ![c] = inbox[c] + 1]
      /\ sent' = [sent EXCEPT ![c] = sent[c] + 1]
      /\ UNCHANGED <<pc, table, scan, left, sock, backlog, room, peer>>
  BY DEF Send
<1>2. inbox[c] \in 0..Requests /\ sent[c] \in 0..Requests - 1 /\ inbox[c] <= sent[c]
  BY DEF Send, IInv, TypeOK, OnePlace
<1>3. inbox' \in [Conns -> 0..Requests] /\ sent' \in [Conns -> 0..Requests]
  BY <1>1, <1>2 DEF IInv, TypeOK
<1>4. TypeOK'
  BY <1>1, <1>3 DEF table, scan, IInv, TypeOK
<1>5. \A d \in Conns : inbox'[d] <= sent'[d]
  BY <1>1, <1>2 DEF IInv, TypeOK, OnePlace
<1>6. OnePlace'
  BY <1>1, <1>5 DEF IInv, OnePlace
<1>7. Reports'
  <2>1. ASSUME NEW f \in Fds, Readable(f) PROVE Readable(f)'
    <3>1. sock[f] \in Conns /\ inbox[sock[f]] \in Nat /\ inbox'[sock[f]] \in Nat
      BY <1>3, <2>1 DEF Readable, Open, IInv, TypeOK
    <3>2. inbox'[sock[f]] >= inbox[sock[f]]
      BY <1>1, <3>1 DEF IInv, TypeOK
    <3> QED BY <1>1, <2>1, <3>1, <3>2 DEF Readable, Open
  <2> QED BY <1>1, <2>1, PeersKeepReports
<1> QED BY <1>4, <1>6, <1>7 DEF IInv

LEMMA ReadsStep ==
  ASSUME IInv, NEW c \in Conns, Reads(c)
  PROVE  IInv'
<1> USE ConstFacts
<1>1. TypeOK'
  BY DEF Reads, peers, table, scan, IInv, TypeOK
<1>2. OnePlace'
  BY DEF Reads, peers, IInv, OnePlace
<1>3. \A f \in Fds : Readable(f) => Readable(f)'
  BY DEF Reads, peers, Readable, Open
<1>4. Reports'
  BY <1>3, PeersKeepReports DEF Reads
<1> QED BY <1>1, <1>2, <1>4 DEF IInv

LEMMA FinishStep ==
  ASSUME IInv, NEW c \in Conns, Finish(c) \/ Reset(c)
  PROVE  IInv'
<1> USE ConstFacts
<1>1. PICK p \in {"finished", "reset"} : peer' = [peer EXCEPT ![c] = p]
  BY DEF Finish, Reset
<1>2. /\ inbox' = inbox \/ (inbox' = [inbox EXCEPT ![c] = 0] /\ peer'[c] = "reset")
      /\ UNCHANGED <<pc, table, scan, left, sock, backlog, room, sent>>
  BY DEF Finish, Reset, kernel, IInv, TypeOK
<1>3. TypeOK'
  <2>1. inbox' \in [Conns -> 0..Requests]
    <3>1. inbox \in [Conns -> 0..Requests] /\ 0 \in 0..Requests
      BY DEF IInv, TypeOK
    <3>2. [inbox EXCEPT ![c] = 0] \in [Conns -> 0..Requests]
      BY <3>1
    <3> QED BY <1>2, <3>1, <3>2
  <2>2. peer' \in [Conns -> {"new", "open", "finished", "reset", "gone"}]
    BY <1>1 DEF IInv, TypeOK
  <2> QED BY <1>2, <2>1, <2>2 DEF table, scan, IInv, TypeOK
<1>4. OnePlace'
  <2>1. \A d \in Conns : peer[d] # "new" => peer'[d] # "new"
    BY <1>1 DEF IInv, TypeOK
  <2>2. ASSUME NEW d \in Conns PROVE inbox'[d] <= sent'[d]
    <3>1. inbox'[d] \in {inbox[d], 0} /\ sent'[d] = sent[d]
      BY <1>2 DEF IInv, TypeOK
    <3>2. inbox[d] <= sent[d] /\ sent[d] \in 0..Requests
      BY DEF IInv, TypeOK, OnePlace
    <3> QED BY <3>1, <3>2
  <2>3. \A j \in 1..Len(backlog) : backlog[j] \in Conns
    BY DEF IInv, TypeOK
  <2> QED BY <1>2, <2>1, <2>2, <2>3 DEF IInv, TypeOK, OnePlace
<1>5. ASSUME NEW f \in Fds, Readable(f) PROVE Readable(f)'
  <2>1. sock[f] \in Conns
    BY <1>5, ConstFacts DEF Readable, Open, IInv, TypeOK
  <2>2. CASE sock[f] = c
    BY <1>1, <1>2, <1>5, <2>1, <2>2 DEF Readable, Open, IInv, TypeOK
  <2>3. CASE sock[f] # c
    BY <1>1, <1>2, <1>5, <2>1, <2>3 DEF Readable, Open, IInv, TypeOK
  <2> QED BY <2>2, <2>3
<1>6. Reports'
  BY <1>2, <1>5, PeersKeepReports
<1> QED BY <1>3, <1>4, <1>6 DEF IInv

-----------------------------------------------------------------------------
(* The server.                                                             *)

\* close forgets one connection and disturbs no other descriptor.
LEMMA CloseOne ==
  ASSUME IInv, NEW d \in Int, Close(d), UNCHANGED <<backlog, sent>>
  PROVE  /\ sock' \in [Fds -> Conns \cup {NONE}]
         /\ peer' \in [Conns -> {"new", "open", "finished", "reset", "gone"}]
         /\ inbox' \in [Conns -> 0..Requests] /\ room' \in [Conns -> 0..Room]
         /\ OnePlace'
         /\ \A f \in Fds : sock'[f] = IF f = d THEN NONE ELSE sock[f]
         /\ \A f \in Fds : f # d /\ Readable(f) => Readable(f)'
<1> USE ConstFacts
<1>1. CASE Open(d)
  <2> DEFINE c == sock[d]
  <2>1. d \in Fds /\ c \in Conns
    BY <1>1 DEF Open, IInv, TypeOK
  <2>2. /\ sock' = [sock EXCEPT ![d] = NONE]
        /\ peer' = [peer EXCEPT ![c] = "gone"]
        /\ inbox' = [inbox EXCEPT ![c] = 0]
        /\ room' = [room EXCEPT ![c] = Room]
    BY <1>1 DEF Close
  <2>3. /\ sock \in [Fds -> Conns \cup {NONE}]
        /\ peer \in [Conns -> {"new", "open", "finished", "reset", "gone"}]
        /\ inbox \in [Conns -> 0..Requests] /\ room \in [Conns -> 0..Room]
        /\ sent \in [Conns -> 0..Requests] /\ backlog \in Seq(Conns)
        /\ 0 \in 0..Requests /\ Room \in 0..Room
    BY DEF IInv, TypeOK
  <2>4. /\ sock' \in [Fds -> Conns \cup {NONE}]
        /\ peer' \in [Conns -> {"new", "open", "finished", "reset", "gone"}]
        /\ inbox' \in [Conns -> 0..Requests]
    BY <2>1, <2>2, <2>3
  <2>5. room' \in [Conns -> 0..Room]
    BY <2>1, <2>2, <2>3
  <2>6. \A f \in Fds : sock'[f] = IF f = d THEN NONE ELSE sock[f]
    BY <2>2, <2>3
  <2>7. \A f \in Fds : f # d /\ sock[f] # NONE => sock[f] # c
    BY <2>1 DEF IInv, OnePlace
  <2>8. OnePlace'
    <3>1. \A e \in Conns : peer[e] # "new" => peer'[e] # "new"
      BY <2>2, <2>3
    <3>2. ASSUME NEW e \in Conns PROVE inbox'[e] <= sent'[e]
      <4>1. inbox'[e] \in {inbox[e], 0} /\ sent'[e] = sent[e]
        BY <2>2, <2>3
      <4>2. inbox[e] <= sent[e] /\ sent[e] \in 0..Requests
        BY <2>3 DEF IInv, OnePlace
      <4> QED BY <4>1, <4>2
    <3>3. \A j \in 1..Len(backlog) : backlog[j] \in Conns
      BY <2>3
    <3>4. \A j \in 1..Len(backlog) :
            peer'[backlog[j]] # "new" /\ \A f \in Fds : sock'[f] # backlog[j]
      BY <2>6, <3>1, <3>3 DEF IInv, OnePlace
    <3>5. \A f \in Fds : sock'[f] # NONE => peer'[sock'[f]] # "new"
      BY <2>3, <2>6, <3>1 DEF IInv, OnePlace
    <3>6. \A f, g \in Fds : sock'[f] # NONE /\ sock'[f] = sock'[g] => f = g
      BY <2>6 DEF IInv, OnePlace
    <3> QED BY <3>2, <3>4, <3>5, <3>6 DEF IInv, OnePlace
  <2>9. ASSUME NEW f \in Fds, f # d, Readable(f) PROVE Readable(f)'
    <3>1. /\ sock[f] \in Conns /\ sock[f] # c /\ sock'[f] = sock[f]
          /\ inbox[sock[f]] > 0 \/ peer[sock[f]] \in {"finished", "reset"}
      BY <2>3, <2>6, <2>7, <2>9 DEF Readable, Open
    <3>2. inbox'[sock[f]] = inbox[sock[f]] /\ peer'[sock[f]] = peer[sock[f]]
      BY <2>2, <2>3, <3>1
    <3> QED BY <3>1, <3>2 DEF Readable, Open
  <2> QED BY <2>4, <2>5, <2>6, <2>8, <2>9
<1>2. CASE ~Open(d)
  <2>1. UNCHANGED <<sock, peer, inbox, room>>
    BY <1>2 DEF Close
  <2> QED BY <1>2, <2>1 DEF Open, Readable, IInv, TypeOK, OnePlace
<1> QED BY <1>1, <1>2

LEMMA SelectStep == IInv /\ (Select \/ SelectFails \/ AcceptFails) => IInv'
<1> SUFFICES ASSUME IInv, Select \/ SelectFails \/ AcceptFails PROVE IInv'
  OBVIOUS
<1> USE ConstFacts
<1>1. UNCHANGED <<table, left, kernel, peers>>
  BY DEF Select, SelectFails, AcceptFails
<1>2. OnePlace'
  BY <1>1 DEF kernel, peers, IInv, OnePlace
<1>3. Active \in SUBSET (Fds \cup {Listen}) /\ Active \subseteq allSet
  BY DEF Active, Watched, IInv, TypeOK
<1>4. {0, -1} \subseteq -1..Cardinality(Fds) + 1
  BY SetsAreFinite, FS_EmptySet
<1>5. TypeOK'
  <2>1. Cardinality(Active) \in 0..Cardinality(Fds) + 1
    BY <1>3, SetsAreFinite
  <2>2. /\ nready' \in -1..Cardinality(Fds) + 1 /\ i' = 0
        /\ readSet' \subseteq Fds \cup {Listen}
        /\ pc' \in {"select", "accept", "scan"}
    <3>1. CASE Select
      BY <1>3, <2>1, <3>1 DEF Select
    <3>2. CASE SelectFails
      BY <1>4, <3>2 DEF SelectFails, IInv, TypeOK
    <3>3. CASE AcceptFails
      BY <1>4, <3>3 DEF AcceptFails, EndRound
    <3> QED BY <3>1, <3>2, <3>3
  <2> QED BY <1>1, <2>2 DEF table, kernel, peers, IInv, TypeOK
<1>6. Reports'
  <2>1. CASE Select
    BY <1>1, <1>3, <2>1 DEF Select, Active, Readable, Open, table, kernel,
                           peers, Reports, Serving
  <2>2. CASE AcceptFails
    BY <2>2 DEF AcceptFails, EndRound, Reports, Serving
  <2>3. CASE SelectFails
    BY <1>1, <2>3 DEF SelectFails, table, Reports, Serving
  <2> QED BY <2>1, <2>2, <2>3
<1> QED BY <1>2, <1>5, <1>6 DEF IInv

\* How a round goes on keeps the types of what it counts with.
LEMMA CountDownTypes ==
  ASSUME IInv, NEW goOn \in BOOLEAN, CountDown(goOn)
  PROVE  /\ readSet' \subseteq Fds \cup {Listen}
         /\ nready' \in -1..Cardinality(Fds) + 1
         /\ EndRound \/ (goOn /\ readSet' = readSet /\ nready > 1)
<1>1. nready \in -1..Cardinality(Fds) + 1 /\ Cardinality(Fds) \in Nat
  BY ConstFacts, FS_CardinalityType DEF IInv, TypeOK
<1> QED BY <1>1 DEF CountDown, EndRound, IInv, TypeOK

\* accept4 moves a connection from the backlog to the lowest descriptor.
LEMMA LowestFree ==
  ASSUME IInv, Free # {}
  PROVE  Min(Free) \in Fds /\ Min(Free) \in Nat /\ sock[Min(Free)] = NONE
<1>1. Free \subseteq Nat
  BY ConstFacts DEF Free
<1> QED BY <1>1, MinOf DEF Free

LEMMA TakeOne ==
  ASSUME IInv, NEW f \in Fds, sock[f] = NONE, backlog # <<>>,
         sock' = [sock EXCEPT ![f] = Head(backlog)], backlog' = Tail(backlog),
         UNCHANGED <<inbox, peers>>
  PROVE  /\ sock' \in [Fds -> Conns \cup {NONE}] /\ backlog' \in Seq(Conns)
         /\ OnePlace'
<1> USE ConstFacts
<1> DEFINE c == Head(backlog)
<1>1. backlog \in Seq(Conns)
  BY DEF IInv, TypeOK
<1>2. /\ c \in Conns /\ c = backlog[1] /\ Tail(backlog) \in Seq(Conns)
      /\ Len(backlog) \in Nat \ {0} /\ Len(Tail(backlog)) = Len(backlog) - 1
      /\ \A j \in 1..Len(Tail(backlog)) : Tail(backlog)[j] = backlog[j + 1]
  BY <1>1
<1>3. sock' \in [Fds -> Conns \cup {NONE}]
  BY <1>2 DEF IInv, TypeOK
<1>4. \A g \in Fds : sock'[g] = IF g = f THEN c ELSE sock[g]
  BY DEF IInv, TypeOK
<1>5. 1 \in 1..Len(backlog)
  BY <1>2
<1>6. peer[c] # "new" /\ \A g \in Fds : sock[g] # c
  <2>1. \A j \in 1..Len(backlog) :
           peer[backlog[j]] # "new" /\ \A g \in Fds : sock[g] # backlog[j]
    BY DEF IInv, OnePlace
  <2>2. /\ peer[backlog[1]] # "new"
        /\ \A g \in Fds : sock[g] # backlog[1]
    BY ONLY <2>1, <1>5
  <2> QED  BY ONLY <2>2, <1>2
<1>7. ASSUME NEW j \in 1..Len(backlog')
      PROVE  /\ backlog'[j] = backlog[j + 1] /\ j + 1 \in 1..Len(backlog)
             /\ backlog[j + 1] # c
  <2>1. backlog'[j] = backlog[j + 1] /\ j + 1 \in 1..Len(backlog) /\ j + 1 # 1
    BY <1>2
  <2> QED BY <1>2, <1>5, <2>1 DEF IInv, OnePlace
<1>8. \A j \in 1..Len(backlog') :
        peer'[backlog'[j]] # "new" /\ \A g \in Fds : sock'[g] # backlog'[j]
  BY <1>4, <1>7 DEF peers, IInv, OnePlace
<1>9. \A j, m \in 1..Len(backlog') : backlog'[j] = backlog'[m] => j = m
  <2> SUFFICES ASSUME NEW j \in 1..Len(backlog'), NEW m \in 1..Len(backlog'),
                      backlog'[j] = backlog'[m]
               PROVE  j = m
    OBVIOUS
  <2>1. j + 1 = m + 1
    BY <1>7 DEF IInv, OnePlace
  <2> QED BY <2>1
<1>10. \A g, h \in Fds : sock'[g] # NONE /\ sock'[g] = sock'[h] => g = h
  BY <1>4, <1>6 DEF IInv, OnePlace
<1>11. \A g \in Fds : sock'[g] # NONE => peer'[sock'[g]] # "new"
  BY <1>4, <1>6 DEF peers, IInv, OnePlace
<1>12. OnePlace'
  BY <1>8, <1>9, <1>10, <1>11 DEF peers, IInv, OnePlace
<1> QED BY <1>2, <1>3, <1>12

\* What a connection that is accepted does to the table and the round.
LEMMA AcceptFacts ==
  ASSUME IInv, Accept
  PROVE  \E f \in Fds, k \in Slots :
           /\ f \in Nat /\ sock[f] = NONE /\ FreeSlot(k)
           /\ sock' = [sock EXCEPT ![f] = Head(backlog)]
           /\ backlog' = Tail(backlog)
           /\ client' = [client EXCEPT ![k] = f]
           /\ maxi' = IF k > maxi THEN k ELSE maxi
           /\ allSet' = allSet \cup {f}
           /\ maxfd' = IF f > maxfd THEN f ELSE maxfd
           /\ i' = 0 /\ found' = found
           /\ pc' = "select" \/ (pc' = "scan" /\ readSet' = readSet /\ nready > 1)
<1>1. i = 0
  BY DEF Accept, IInv, Reports
<1>2. i' = 0 /\ (pc' = "select" \/ (pc' = "scan" /\ readSet' = readSet /\ nready > 1))
  <2>1. nready \in Int
    BY DEF IInv, TypeOK
  <2> QED BY <1>1, <2>1 DEF Accept, CountDown, EndRound
<1>3. Min(Free) \in Fds /\ Min(Free) \in Nat /\ sock[Min(Free)] = NONE
  BY LowestFree DEF Accept
<1> QED BY <1>2, <1>3 DEF Accept

\* The descriptor accept4 returns is new to select, and to the table.
LEMMA AcceptStep == IInv /\ Accept => IInv'
<1> SUFFICES ASSUME IInv, Accept PROVE IInv'
  OBVIOUS
<1> USE ConstFacts
<1>1. PICK f \in Fds, k \in Slots :
        /\ f \in Nat /\ sock[f] = NONE
        /\ sock' = [sock EXCEPT ![f] = Head(backlog)]
        /\ backlog' = Tail(backlog)
        /\ client' = [client EXCEPT ![k] = f]
        /\ maxi' = IF k > maxi THEN k ELSE maxi
        /\ allSet' = allSet \cup {f}
        /\ maxfd' = IF f > maxfd THEN f ELSE maxfd
        /\ i' = 0 /\ found' = found
        /\ pc' = "select" \/ (pc' = "scan" /\ readSet' = readSet /\ nready > 1)
  BY AcceptFacts
<1>2. UNCHANGED <<left, inbox, room, peer, sent>>
  BY DEF Accept, peers
<1>3. /\ sock' \in [Fds -> Conns \cup {NONE}] /\ backlog' \in Seq(Conns)
      /\ OnePlace'
  <2>1. backlog # <<>>
    BY DEF Accept
  <2> QED BY <1>1, <1>2, <2>1, TakeOne DEF peers
<1>4. /\ readSet' \subseteq Fds \cup {Listen}
      /\ nready' \in -1..Cardinality(Fds) + 1
  BY CountDownTypes DEF Accept
<1>5. TypeOK'
  <2>1. client' \in [Slots -> Int]
    BY <1>1 DEF IInv, TypeOK
  <2>2. maxi' \in -1..TableSize - 1 /\ maxfd' \in Nat
    <3>1. maxi' \in {k, maxi} /\ maxfd' \in {f, maxfd} /\ k \in 0..TableSize - 1
      BY <1>1 DEF Slots
    <3>2. maxi \in -1..TableSize - 1 /\ maxfd \in Nat
      BY DEF IInv, TypeOK
    <3> QED BY <1>1, <3>1, <3>2
  <2>3. allSet' \subseteq Fds \cup {Listen}
    BY <1>1 DEF IInv, TypeOK
  <2>4. i' \in 0..TableSize
    BY <1>1
  <2> QED BY <1>1, <1>2, <1>3, <1>4, <2>1, <2>2, <2>3, <2>4 DEF IInv, TypeOK
<1>6. Reports'
  <2>1. CASE pc' = "select"
    BY <2>1 DEF Reports, Serving
  <2>2. CASE pc' = "scan"
    <3>1. readSet' = readSet /\ readSet \subseteq allSet /\ nready > 1
      BY <1>1, <2>2 DEF Accept, IInv, Reports
    <3>2. ASSUME NEW g \in (readSet' \cap allSet') \ {Listen}
          PROVE  Readable(g)'
      <4>1. Readable(g) /\ g # Listen
        BY <3>1, <3>2 DEF Accept, IInv, TypeOK, Reports, Serving
      <4>2. Open(g) /\ g # f
        BY <1>1, <4>1 DEF Readable, Open
      <4>3. sock'[g] = sock[g]
        BY <1>1, <4>2 DEF Open, IInv, TypeOK
      <4> QED BY <1>2, <4>1, <4>2, <4>3 DEF Readable, Open
    <3> QED BY <2>2, <3>2 DEF Reports, Serving
  <2> QED BY <1>1, <2>1, <2>2
<1> QED BY <1>3, <1>5, <1>6 DEF IInv

\* The server exits with one connection more than it has entries for.
LEMMA TooManyStep == IInv /\ TooManyClients => IInv'
<1> SUFFICES ASSUME IInv, TooManyClients PROVE IInv'
  OBVIOUS
<1>1. Min(Free) \in Fds /\ sock[Min(Free)] = NONE
  BY LowestFree DEF TooManyClients
<1>2. /\ sock' \in [Fds -> Conns \cup {NONE}] /\ backlog' \in Seq(Conns)
      /\ OnePlace'
  <2>1. backlog # <<>>
    BY DEF TooManyClients
  <2> QED BY <1>1, <2>1, TakeOne DEF TooManyClients
<1>3. TypeOK'
  BY <1>2 DEF TooManyClients, table, scan, peers, IInv, TypeOK
<1>4. Reports'
  BY DEF TooManyClients, Reports, Serving
<1> QED BY <1>2, <1>3, <1>4 DEF IInv

LEMMA ScanStep == IInv /\ Scan => IInv'
<1> SUFFICES ASSUME IInv, Scan PROVE IInv'
  OBVIOUS
<1> USE ConstFacts
<1>1. UNCHANGED <<table, left, kernel, peers>>
  BY DEF Scan
<1>2. OnePlace'
  BY <1>1 DEF kernel, peers, IInv, OnePlace
<1>3. CASE Reported = {}
  <2>1. EndRound
    BY <1>3 DEF Scan
  <2>2. 0 \in -1..Cardinality(Fds) + 1
    BY SetsAreFinite, FS_EmptySet
  <2>3. TypeOK'
    BY <1>1, <2>1, <2>2 DEF EndRound, table, kernel, peers, IInv, TypeOK
  <2>4. Reports'
    BY <2>1 DEF EndRound, Reports, Serving
  <2> QED BY <1>2, <2>3, <2>4 DEF IInv
<1>4. CASE Reported # {}
  <2>1. i' = Min(Reported) /\ pc' = "recv" /\ UNCHANGED <<readSet, nready>>
    BY <1>4 DEF Scan
  <2>2. i \in 0..TableSize /\ maxi \in -1..TableSize - 1
    BY DEF IInv, TypeOK
  <2>3. Reported \subseteq Nat /\ Reported \subseteq 0..TableSize - 1
    BY <2>2 DEF Reported
  <2>4. i' \in 0..TableSize - 1
    BY <1>4, <2>1, <2>3, MinOf
  <2>5. i' \in Slots /\ i' \in 0..TableSize
    BY <2>4 DEF Slots
  <2>6. TypeOK'
    BY <1>1, <2>1, <2>5 DEF table, kernel, peers, IInv, TypeOK
  <2>7. Reports'
    <3>1. nready >= 0 => \A f \in (readSet \cap allSet) \ {Listen} : Readable(f)
      BY DEF Scan, IInv, Reports, Serving
    <3>2. nready' >= 0 => \A f \in (readSet' \cap allSet') \ {Listen} : Readable(f)'
      BY <1>1, <2>1, <3>1 DEF Readable, Open, table, kernel, peers
    <3> QED BY <2>1, <2>5, <3>2 DEF Reports, Serving
  <2> QED BY <1>2, <2>6, <2>7 DEF IInv
<1> QED BY <1>3, <1>4

-----------------------------------------------------------------------------
(* A connection is served.                                                 *)

\* Serving one connection leaves the others as select reported them.
LEMMA ServingKeepsReports ==
  ASSUME IInv, pc \in Serving, pc' \in Serving \cup {"killed", "stuck"},
         UNCHANGED <<table, scan, backlog>>,
         \A f \in Fds : f # fd /\ Readable(f) => Readable(f)'
  PROVE  Reports'
<1>1. fd' = fd
  BY DEF fd, table, scan
<1>2. \A f \in (readSet \cap allSet) \ {Listen} : f \in Fds
  BY DEF IInv, TypeOK
<1> QED BY <1>1, <1>2 DEF IInv, Reports, Serving, table, scan

LEMMA RecvStep == IInv /\ Recv => IInv'
<1> SUFFICES ASSUME IInv, Recv PROVE IInv'
  OBVIOUS
<1> USE ConstFacts
<1> DEFINE c == sock[fd]
<1>1. fd \in Fds /\ c \in Conns
  BY DEF Recv, Open, IInv, TypeOK
<1>2. /\ inbox' = [inbox EXCEPT ![c] = 0]
      /\ pc' \in {"respond", "killed", "stuck"}
      /\ UNCHANGED <<table, scan, left, sock, backlog, room, peers>>
  BY DEF Recv
<1>3. inbox \in [Conns -> 0..Requests] /\ 0 \in 0..Requests
  BY DEF IInv, TypeOK
<1>4. TypeOK'
  <2>1. inbox' \in [Conns -> 0..Requests]
    BY <1>1, <1>2, <1>3
  <2> QED BY <1>2, <2>1 DEF table, scan, peers, IInv, TypeOK
<1>5. OnePlace'
  <2>1. ASSUME NEW e \in Conns PROVE inbox'[e] <= sent'[e]
    <3>1. inbox'[e] \in {inbox[e], 0} /\ sent'[e] = sent[e]
      BY <1>2, <1>3 DEF peers
    <3>2. inbox[e] <= sent[e] /\ sent[e] \in 0..Requests
      BY DEF IInv, TypeOK, OnePlace
    <3> QED BY <3>1, <3>2
  <2> QED BY <1>2, <2>1 DEF peers, IInv, OnePlace
<1>6. Reports'
  <2>1. ASSUME NEW f \in Fds, f # fd, Readable(f) PROVE Readable(f)'
    <3>1. sock[f] # NONE /\ sock[f] # c /\ sock[f] \in Conns
      BY <1>1, <2>1 DEF Readable, Open, IInv, TypeOK, OnePlace
    <3>2. inbox'[sock[f]] = inbox[sock[f]]
      BY <1>2, <1>3, <3>1
    <3> QED BY <1>2, <2>1, <3>2 DEF Readable, Open, peers
  <2> QED BY <1>2, <2>1, ServingKeepsReports DEF Recv, Serving
<1> QED BY <1>4, <1>5, <1>6 DEF IInv

\* What is written, or to be written, changes what fits in the buffer only.
LEMMA WriteStep == IInv /\ (Respond \/ Write \/ SendError) => IInv'
<1> SUFFICES ASSUME IInv, Respond \/ Write \/ SendError PROVE IInv'
  OBVIOUS
<1> USE ConstFacts
<1>1. /\ pc \in Serving /\ pc' \in {"write", "error", "recv"}
      /\ UNCHANGED <<table, scan, sock, backlog, inbox, peers>>
  BY DEF Respond, Write, SendError, kernel, Serving
<1>2. left' \in 0..Response /\ room' \in [Conns -> 0..Room]
  <2>1. left \in 0..Response /\ room \in [Conns -> 0..Room]
    BY DEF IInv, TypeOK
  <2>2. CASE Respond
    BY <2>1, <2>2 DEF Respond, kernel
  <2>3. CASE Write
    <3> DEFINE c == sock[fd]
    <3>1. c \in Conns
      BY <2>3 DEF Write, Open, IInv, TypeOK
    <3>2. Written \in 0..left /\ Written \in 0..room[c]
      <4>1. {left, room[c]} \subseteq Nat /\ {left, room[c]} # {}
        BY <2>1, <3>1
      <4>2. Min({left, room[c]}) \in {left, room[c]}
        BY <4>1, MinOf
      <4>3. Min({left, room[c]}) <= left /\ Min({left, room[c]}) <= room[c]
        BY <4>1, MinOf
      <4> QED BY <2>1, <3>1, <4>1, <4>2, <4>3 DEF Written
    <3>3. left - Written \in 0..Response /\ room[c] - Written \in 0..Room
      BY <2>1, <3>1, <3>2
    <3> QED BY <2>1, <2>3, <3>1, <3>3 DEF Write
  <2>4. CASE SendError
    <3> DEFINE c == sock[fd]
    <3>1. c \in Conns
      BY <2>4 DEF SendError, Open, IInv, TypeOK
    <3>2. Min({Response, room[c]}) \in 0..room[c]
      <4>1. {Response, room[c]} \subseteq Nat /\ {Response, room[c]} # {}
        BY <2>1, <3>1
      <4>2. Min({Response, room[c]}) \in {Response, room[c]}
        BY <4>1, MinOf
      <4>3. Min({Response, room[c]}) <= room[c]
        BY <4>1, MinOf
      <4> QED BY <2>1, <3>1, <4>1, <4>2, <4>3
    <3>3. room[c] - Min({Response, room[c]}) \in 0..Room
      BY <2>1, <3>1, <3>2
    <3> QED BY <2>1, <2>4, <3>1, <3>3 DEF SendError
  <2> QED BY <2>2, <2>3, <2>4
<1>3. TypeOK'
  BY <1>1, <1>2 DEF table, scan, peers, IInv, TypeOK
<1>4. OnePlace'
  BY <1>1 DEF peers, IInv, OnePlace
<1>5. Reports'
  <2>1. \A f \in Fds : f # fd /\ Readable(f) => Readable(f)'
    BY <1>1 DEF peers, Readable, Open
  <2> QED BY <1>1, <2>1, ServingKeepsReports DEF Serving
<1> QED BY <1>3, <1>4, <1>5 DEF IInv

LEMMA WriteResetStep == IInv /\ WriteReset => IInv'
<1> SUFFICES ASSUME IInv, WriteReset PROVE IInv'
  OBVIOUS
<1> USE ConstFacts
<1>1. /\ pc \in Serving /\ pc' \in {"recv", "killed"} /\ left' = 0
      /\ UNCHANGED <<table, scan, backlog, sent>>
  BY DEF WriteReset, Serving
<1>2. fd \in Int
  BY DEF WriteReset, Open
<1>3. /\ sock' \in [Fds -> Conns \cup {NONE}]
      /\ peer' \in [Conns -> {"new", "open", "finished", "reset", "gone"}]
      /\ inbox' \in [Conns -> 0..Requests] /\ room' \in [Conns -> 0..Room]
      /\ OnePlace'
      /\ \A f \in Fds : f # fd /\ Readable(f) => Readable(f)'
  <2>1. CASE Close(fd)
    BY <1>1, <1>2, <2>1, CloseOne
  <2>2. CASE UNCHANGED <<sock, peer, inbox, room>>
    BY <1>1, <2>2 DEF IInv, TypeOK, OnePlace, Readable, Open
  <2> QED BY <2>1, <2>2 DEF WriteReset
<1>4. TypeOK'
  BY <1>1, <1>3 DEF table, scan, IInv, TypeOK
<1>5. Reports'
  BY <1>1, <1>3, ServingKeepsReports DEF Serving
<1> QED BY <1>3, <1>4, <1>5 DEF IInv

\* Whichever descriptor is closed, the listening one included, no connection
\* on another one is disturbed.
LEMMA OneIsClosed ==
  ASSUME IInv, CloseConnection
  PROVE  /\ sock' \in [Fds -> Conns \cup {NONE}] /\ backlog' \in Seq(Conns)
         /\ peer' \in [Conns -> {"new", "open", "finished", "reset", "gone"}]
         /\ inbox' \in [Conns -> 0..Requests] /\ room' \in [Conns -> 0..Room]
         /\ OnePlace'
         /\ \A f \in Fds : sock'[f] = IF f = fd THEN NONE ELSE sock[f]
         /\ \A f \in Fds : f # fd /\ Readable(f) => Readable(f)'
<1> USE ConstFacts
<1>1. fd \in Int /\ sent' = sent /\ backlog \in Seq(Conns)
  BY DEF CloseConnection, IInv, Reports, Serving, Slots, fd, TypeOK
<1>2. CASE fd # Listen
  <2>1. Close(fd) /\ UNCHANGED <<backlog, sent>>
    BY <1>2 DEF CloseConnection
  <2> QED BY <1>1, <2>1, CloseOne
<1>3. CASE fd = Listen
  <2>1. CloseListening
    BY <1>3 DEF CloseConnection
  <2>2. /\ peer' \in [Conns -> {"new", "open", "finished", "reset", "gone"}]
        /\ inbox' \in [Conns -> 0..Requests]
    BY <2>1 DEF CloseListening, IInv, TypeOK
  <2>3. \A f \in Fds : sock[f] \notin Waiting
    BY DEF Waiting, IInv, OnePlace
  <2>4. ASSUME NEW c \in Conns
        PROVE  inbox'[c] <= sent'[c] /\ (peer[c] # "new" => peer'[c] # "new")
    <3>1. inbox[c] <= sent[c] /\ sent[c] \in Nat /\ sent'[c] = sent[c]
      BY <1>1 DEF IInv, TypeOK, OnePlace
    <3> QED BY <2>1, <3>1 DEF CloseListening
  <2>5. OnePlace'
    BY <2>1, <2>4 DEF CloseListening, IInv, TypeOK, OnePlace
  <2>6. ASSUME NEW f \in Fds, Readable(f) PROVE Readable(f)'
    <3>1. sock[f] \in Conns /\ sock[f] \notin Waiting
      BY <2>3, <2>6 DEF Readable, Open, IInv, TypeOK
    <3> QED BY <2>1, <2>6, <3>1 DEF CloseListening, Readable, Open
  <2> QED BY <1>3, <2>1, <2>2, <2>5, <2>6 DEF CloseListening, IInv, TypeOK
<1> QED BY <1>2, <1>3

LEMMA CloseConnectionStep == IInv /\ CloseConnection => IInv'
<1> SUFFICES ASSUME IInv, CloseConnection PROVE IInv'
  OBVIOUS
<1> USE ConstFacts
<1>1. /\ allSet' = allSet \ {fd}
      /\ client' = [client EXCEPT ![i] = -1]
      /\ UNCHANGED <<found, maxi, maxfd, left, sent>>
  BY DEF CloseConnection, ClearFd
<1>2. i \in Slots /\ i \in 0..TableSize - 1 /\ fd \in Int
  BY DEF CloseConnection, IInv, Reports, Serving, Slots, fd, TypeOK
<1>3. /\ readSet' \subseteq Fds \cup {Listen}
      /\ nready' \in -1..Cardinality(Fds) + 1
      /\ EndRound \/ (pc' = "scan" /\ i' = i + 1 /\ readSet' = readSet /\ nready > 1)
  BY CountDownTypes DEF CloseConnection
<1>4. /\ sock' \in [Fds -> Conns \cup {NONE}] /\ backlog' \in Seq(Conns)
      /\ peer' \in [Conns -> {"new", "open", "finished", "reset", "gone"}]
      /\ inbox' \in [Conns -> 0..Requests] /\ room' \in [Conns -> 0..Room]
      /\ OnePlace'
      /\ \A f \in Fds : f # fd /\ Readable(f) => Readable(f)'
  BY OneIsClosed
<1>5. TypeOK'
  <2>1. client' \in [Slots -> Int]
    BY <1>1, <1>2 DEF IInv, TypeOK
  <2>2. i' \in 0..TableSize
    BY <1>2, <1>3 DEF EndRound
  <2>3. pc' \in {"select", "scan"}
    BY <1>3 DEF EndRound
  <2> QED BY <1>1, <1>3, <1>4, <2>1, <2>2, <2>3 DEF IInv, TypeOK
<1>6. Reports'
  <2>1. CASE EndRound
    BY <2>1 DEF EndRound, Reports, Serving
  <2>2. CASE pc' = "scan" /\ readSet' = readSet /\ nready > 1
    <3>1. ASSUME NEW f \in (readSet' \cap allSet') \ {Listen}
          PROVE  Readable(f)'
      <4>1. f \in Fds /\ f # fd /\ f \in (readSet \cap allSet) \ {Listen}
        BY <1>1, <2>2, <3>1 DEF IInv, TypeOK
      <4>2. Readable(f)
        BY <2>2, <4>1 DEF CloseConnection, IInv, TypeOK, Reports, Serving
      <4> QED BY <1>4, <4>1, <4>2
    <3> QED BY <2>2, <3>1 DEF Reports, Serving
  <2> QED BY <1>3, <2>1, <2>2
<1> QED BY <1>4, <1>5, <1>6 DEF IInv

-----------------------------------------------------------------------------
(* Theorems that hold whatever client[] was.                               *)

LEMMA InvStep == IInv /\ [Next]_vars => IInv'
<1> SUFFICES ASSUME IInv, [Next]_vars PROVE IInv'
  OBVIOUS
<1>1. CASE ServerLoop \/ SelectFails
  BY <1>1, SelectStep, AcceptStep, TooManyStep, ScanStep DEF ServerLoop
<1>2. CASE HttpRecvAndSend
  BY <1>2, RecvStep, WriteStep, WriteResetStep, CloseConnectionStep
     DEF HttpRecvAndSend
<1>3. CASE Peers
  BY <1>3, ConnectStep, SendStep, ReadsStep, FinishStep DEF Peers
<1>4. CASE UNCHANGED vars
  BY <1>4 DEF vars, table, scan, kernel, peers, IInv, TypeOK, OnePlace,
              Reports, Readable, Open, fd
<1> QED BY <1>1, <1>2, <1>3, <1>4 DEF Next

LEMMA ServerInvariant == Spec => []IInv
  BY InitInv, InvStep, PTL DEF Spec

\* Table, scan, buffers and descriptors keep their types, for a table of
\* any length and whatever it held (TCP_Server.cpp:40-104).
THEOREM TypeCorrect == Spec => []TypeOK
<1>1. IInv => TypeOK
  BY DEF IInv
<1> QED BY <1>1, ServerInvariant, PTL

\* However long one connection is served, what select reported of the next
\* is still so (TCP_Server.cpp:55-104): recv never finds a quiet connection.
THEOREM ReportIsTrue == Spec => []ReportStaysTrue
<1>1. IInv => ReportStaysTrue
  BY DEF IInv, Reports, Serving, ReportStaysTrue
<1> QED BY <1>1, ServerInvariant, PTL

-----------------------------------------------------------------------------
(* The second invariant: client[] and the sockets agree, until the scan    *)
(* can reach an entry that looks taken and never was.                      *)

\* The connection that is being served may be closed already, and keeps its
\* entry and its bit in all_set until httpRecvandSend returns.
Served == IF pc \in Serving THEN {fd} ELSE {}
TableAgrees ==
  /\ \A k \in Slots :
       k <= maxi /\ client[k] >= 0 => client[k] \in OpenFds \cup Served
  /\ \A f \in OpenFds : \E k \in Slots : k <= maxi /\ client[k] = f
  /\ \A j, k \in Slots :
       j <= maxi /\ k <= maxi /\ client[j] >= 0 /\ client[j] = client[k] => j = k
  /\ \A k \in Slots : k > maxi => client[k] = found[k]
  /\ allSet = OpenFds \cup Served \cup {Listen}
  /\ \A f \in allSet : f <= maxfd
  /\ pc \in Serving => fd \in Fds /\ i <= maxi

\* nready counts what is still to be served, which lies ahead of the scan.
\* Where select has failed it counts nothing, and the round ends at accept.
Pending == (readSet \cap allSet) \ {Listen}
CountAgrees ==
  /\ pc = "accept" =>
       Listen \in readSet /\ (nready >= 0 => nready = Cardinality(readSet))
  /\ pc \in {"scan"} \cup Serving =>
       /\ nready = Cardinality(Pending)
       /\ \A f \in Pending :
            \E k \in Slots : i <= k /\ k <= maxi /\ client[k] = f
  /\ pc \in Serving => fd \in readSet

Ended == {"exited", "killed", "stuck"}
TInv == IInv /\ (pc \notin Ended /\ ~Stray => TableAgrees /\ CountAgrees)

LEMMA TableInit == Init => TInv
<1> SUFFICES ASSUME Init PROVE TInv
  OBVIOUS
<1> USE ConstFacts
<1>1. IInv
  BY InitInv
<1>2. \A k \in Slots : ~(k <= maxi) /\ client[k] = found[k]
  BY DEF Init, Slots
<1>3. OpenFds = {} /\ Served = {}
  BY DEF Init, OpenFds, Served, Serving
<1>4. TableAgrees
  BY <1>2, <1>3 DEF Init, TableAgrees, Serving
<1>5. CountAgrees
  BY DEF Init, CountAgrees, Serving
<1> QED BY <1>1, <1>4, <1>5 DEF TInv

\* Steps of peers, and of the server between recv and close, leave the
\* table and the count alone.
LEMMA TableStutter ==
  ASSUME TInv, IInv', pc' = pc \/ (pc \in Serving /\ pc' \in Serving),
         pc \notin Ended, ~Stray, UNCHANGED <<table, scan>>,
         \/ OpenFds' = OpenFds
         \/ pc \in Serving /\ OpenFds' = OpenFds \ {fd}
  PROVE  TInv'
<1>1. TableAgrees /\ CountAgrees
  BY DEF TInv
<1>2. fd' = fd /\ Served' = Served /\ Pending' = Pending
  BY DEF fd, Served, Pending, table, scan, Serving
<1>3. TableAgrees'
  <2>1. OpenFds' \cup Served' = OpenFds \cup Served /\ OpenFds' \subseteq OpenFds
    BY <1>2 DEF Served
  <2> QED BY <1>1, <1>2, <2>1 DEF TableAgrees, table, scan, Serving
<1>4. CountAgrees'
  BY <1>1, <1>2 DEF CountAgrees, table, scan, Serving
<1> QED BY <1>3, <1>4 DEF TInv

LEMMA SelectTable == TInv /\ ~Stray /\ Select => TInv'
<1> SUFFICES ASSUME TInv, ~Stray, Select PROVE TInv'
  OBVIOUS
<1> USE ConstFacts
<1>1. IInv'
  BY SelectStep DEF TInv
<1>2. TableAgrees
  BY DEF Select, TInv, Ended
<1>3. /\ UNCHANGED <<table, kernel>> /\ readSet' = Active
      /\ nready' = Cardinality(Active) /\ i' = 0
      /\ pc' = IF Listen \in Active THEN "accept" ELSE "scan"
      /\ pc = "select"
  BY DEF Select
<1>4. OpenFds' = OpenFds /\ Served' = {} /\ Served = {}
  BY <1>3 DEF OpenFds, Served, Serving, kernel
<1>5. TableAgrees'
  BY <1>2, <1>3, <1>4 DEF TableAgrees, table, Serving
<1>6. Active \subseteq OpenFds \cup {Listen}
  BY <1>2, <1>4 DEF Active, Watched, TableAgrees
<1>7. CountAgrees'
  <2>1. CASE Listen \in Active
    BY <1>3, <2>1 DEF CountAgrees, Serving
  <2>2. CASE Listen \notin Active
    <3>1. Pending' = Active
      BY <1>3, <2>2 DEF Pending, Active, Watched, table
    <3>2. \A f \in Active :
            \E k \in Slots : i' <= k /\ k <= maxi' /\ client'[k] = f
      BY <1>2, <1>3, <1>6, <2>2 DEF TableAgrees, table
    <3> QED BY <1>3, <2>2, <3>1, <3>2 DEF CountAgrees, Serving
  <2> QED BY <2>1, <2>2
<1> QED BY <1>1, <1>5, <1>7 DEF TInv

\* When select fails the round goes to accept, for listen_fd is in all_set.
LEMMA SelectFailsTable == TInv /\ ~Stray /\ SelectFails => TInv'
<1> SUFFICES ASSUME TInv, ~Stray, SelectFails PROVE TInv'
  OBVIOUS
<1> USE ConstFacts
<1>1. IInv'
  BY SelectStep DEF TInv
<1>2. TableAgrees
  BY DEF SelectFails, TInv, Ended
<1>3. /\ UNCHANGED <<table, kernel>> /\ readSet' = allSet /\ nready' = -1
      /\ pc = "select" /\ pc' = "accept" /\ Listen \in allSet
  BY <1>2 DEF SelectFails, TableAgrees
<1>4. OpenFds' = OpenFds /\ Served' = {} /\ Served = {}
  BY <1>3 DEF OpenFds, Served, Serving, kernel
<1>5. TableAgrees'
  BY <1>2, <1>3, <1>4 DEF TableAgrees, table, Serving
<1>6. CountAgrees'
  BY <1>3 DEF CountAgrees, Serving
<1> QED BY <1>1, <1>5, <1>6 DEF TInv

\* The first free entry is at or next to maxi, or a stray one lies between.
LEMMA AcceptTable == TInv /\ ~Stray /\ ~Stray' /\ Accept => TInv'
<1> SUFFICES ASSUME TInv, ~Stray, ~Stray', Accept PROVE TInv'
  OBVIOUS
<1> USE ConstFacts
<1>1. IInv /\ IInv'
  BY AcceptStep DEF TInv
<1>2. TableAgrees /\ CountAgrees /\ pc = "accept" /\ found' = found
  BY DEF Accept, TInv, Ended
<1>3. PICK f \in Fds, k \in Slots :
        /\ f \in Nat /\ sock[f] = NONE /\ FreeSlot(k)
        /\ sock' = [sock EXCEPT ![f] = Head(backlog)]
        /\ client' = [client EXCEPT ![k] = f]
        /\ maxi' = IF k > maxi THEN k ELSE maxi
        /\ allSet' = allSet \cup {f}
        /\ maxfd' = IF f > maxfd THEN f ELSE maxfd
        /\ i' = 0
        /\ pc' = "select" \/ (pc' = "scan" /\ readSet' = readSet)
  BY <1>1, AcceptFacts
<1>4. Head(backlog) \in Conns
  BY <1>1 DEF Accept, IInv, TypeOK, Reports
<1>5. OpenFds' = OpenFds \cup {f} /\ Served = {} /\ Served' = {}
  BY <1>1, <1>2, <1>3, <1>4 DEF OpenFds, Served, Serving, IInv, TypeOK
<1>6. \A j \in Slots : client'[j] = IF j = k THEN f ELSE client[j]
  BY <1>1, <1>3 DEF IInv, TypeOK
<1>7. client[k] < 0 /\ \A j \in Slots : client[j] \in Int
  BY <1>1, <1>3 DEF FreeSlot, IInv, TypeOK
<1>8. /\ maxi \in Int /\ maxi >= -1 /\ maxfd \in Nat /\ f \notin OpenFds
      /\ maxi' \in Int /\ maxi <= maxi' /\ k <= maxi' /\ k \in Nat
      /\ \A j \in Slots : j \in Nat
  BY <1>1, <1>3 DEF IInv, TypeOK, OpenFds, Slots
<1>11. ASSUME NEW j \in Slots, j <= maxi', j # k PROVE j <= maxi
  <2>1. SUFFICES ASSUME ~(j <= maxi) PROVE FALSE
    OBVIOUS
  <2>2. maxi' = k /\ j < k /\ j > maxi
    BY <1>3, <1>8, <1>11, <2>1
  <2>3. client[j] >= 0
    BY <1>3, <1>8, <2>2 DEF FreeSlot
  <2>4. found'[j] >= 0
    BY <1>2, <2>2, <2>3 DEF TableAgrees
  <2>5. j \in 0..maxi'
    BY <1>8, <1>11
  <2> QED BY <2>4, <2>5 DEF Stray
<1>9. TableAgrees'
  <2>1. ASSUME NEW j \in Slots, j <= maxi', client'[j] >= 0
        PROVE  client'[j] \in OpenFds' \cup Served'
    <3>1. CASE j = k
      BY <1>5, <1>6, <3>1
    <3>2. CASE j # k
      <4>1. client[j] \in OpenFds
        BY <1>2, <1>5, <1>6, <1>11, <2>1, <3>2 DEF TableAgrees
      <4> QED BY <1>5, <1>6, <3>2, <4>1
    <3> QED BY <3>1, <3>2
  <2>2. ASSUME NEW g \in OpenFds'
        PROVE  \E j \in Slots : j <= maxi' /\ client'[j] = g
    <3>1. CASE g = f
      BY <1>6, <1>8, <3>1
    <3>2. CASE g # f
      <4>1. PICK j \in Slots : j <= maxi /\ client[j] = g
        BY <1>2, <1>5, <2>2, <3>2 DEF TableAgrees
      <4>2. j # k
        BY <1>5, <1>7, <2>2, <3>2, <4>1 DEF OpenFds
      <4>3. j <= maxi'
        BY <1>8, <4>1
      <4> QED BY <1>6, <4>1, <4>2, <4>3
    <3> QED BY <3>1, <3>2
  <2>3. ASSUME NEW j \in Slots, NEW m \in Slots, j <= maxi', m <= maxi',
               client'[j] >= 0, client'[j] = client'[m]
        PROVE  j = m
    <3>1. \A n \in Slots \ {k} : n <= maxi' /\ client[n] >= 0 => client[n] # f
      BY <1>2, <1>5, <1>8, <1>11 DEF TableAgrees
    <3>2. CASE j = k \/ m = k
      BY <1>6, <2>3, <3>1, <3>2
    <3>3. CASE j # k /\ m # k
      <4>1. j <= maxi /\ m <= maxi
        BY <1>11, <2>3, <3>3
      <4> QED BY <1>2, <1>6, <2>3, <3>3, <4>1 DEF TableAgrees
    <3> QED BY <3>2, <3>3
  <2>6. ASSUME NEW j \in Slots, j > maxi' PROVE client'[j] = found'[j]
    <3>1. j > maxi /\ j # k
      BY <1>8, <2>6
    <3> QED BY <1>2, <1>6, <3>1 DEF TableAgrees
  <2>4. allSet' = OpenFds' \cup Served' \cup {Listen}
    BY <1>2, <1>3, <1>5 DEF TableAgrees
  <2>5. \A g \in allSet' : g <= maxfd'
    <3>1. \A g \in allSet : g \in Nat /\ g <= maxfd
      BY <1>1, <1>2 DEF TableAgrees, IInv, TypeOK
    <3> QED BY <1>3, <1>8, <3>1
  <2> QED BY <1>3, <2>1, <2>2, <2>3, <2>4, <2>5, <2>6 DEF TableAgrees, Serving
<1>10. CountAgrees'
  <2>1. CASE pc' = "select"
    BY <2>1 DEF CountAgrees, Serving
  <2>2. CASE pc' = "scan" /\ readSet' = readSet
    <3>1. readSet \in SUBSET (Fds \cup {Listen}) /\ readSet \subseteq allSet
      BY <1>1, <1>2 DEF IInv, TypeOK, Reports
    <3>2. Pending' = readSet \ {Listen}
      BY <1>3, <2>2, <3>1 DEF Pending
    <3>4. nready' = nready - 1 /\ ~(nready <= 1)
      BY <2>2 DEF Accept, CountDown, EndRound
    <3>3. nready = Cardinality(readSet) /\ Listen \in readSet
      BY <1>1, <1>2, <3>4 DEF CountAgrees, IInv, TypeOK
    <3>5. nready' = Cardinality(Pending')
      BY <3>1, <3>2, <3>3, <3>4, SetsAreFinite, FS_RemoveElement
    <3>6. ASSUME NEW g \in Pending'
          PROVE  \E j \in Slots : i' <= j /\ j <= maxi' /\ client'[j] = g
      <4>1. g \in OpenFds'
        BY <1>2, <1>5, <3>1, <3>2, <3>6 DEF TableAgrees
      <4> QED BY <1>3, <1>9, <4>1 DEF TableAgrees
    <3> QED BY <2>2, <3>5, <3>6 DEF CountAgrees, Serving
  <2> QED BY <1>3, <2>1, <2>2
<1> QED BY <1>1, <1>9, <1>10 DEF TInv

LEMMA ScanTable == TInv /\ ~Stray /\ Scan => TInv'
<1> SUFFICES ASSUME TInv, ~Stray, Scan PROVE TInv'
  OBVIOUS
<1> USE ConstFacts
<1>1. IInv /\ IInv'
  BY ScanStep DEF TInv
<1>2. TableAgrees /\ CountAgrees /\ pc = "scan" /\ UNCHANGED <<table, kernel>>
  BY DEF Scan, TInv, Ended
<1>3. OpenFds' = OpenFds /\ Served = {}
  BY <1>2 DEF OpenFds, Served, Serving, kernel
<1>4. CASE Reported = {}
  <2>1. pc' = "select"
    BY <1>4 DEF Scan, EndRound
  <2>2. TableAgrees'
    BY <1>2, <1>3, <2>1 DEF TableAgrees, Served, Serving, table
  <2> QED BY <1>1, <2>1, <2>2 DEF TInv, CountAgrees, Serving
<1>5. CASE Reported # {}
  <2>1. i' = Min(Reported) /\ pc' = "recv" /\ UNCHANGED <<readSet, nready>>
    BY <1>5 DEF Scan
  <2>2. /\ i \in 0..TableSize /\ maxi \in -1..TableSize - 1
        /\ \A k \in Slots : k \in Nat
    BY <1>1 DEF IInv, TypeOK, Slots
  <2>3. Reported \subseteq Nat /\ Reported \subseteq Slots
    BY <2>2 DEF Reported, Slots
  <2>4. i' \in Reported /\ \A k \in Reported : i' <= k
    BY <1>5, <2>1, <2>3, MinOf
  <2>5. i' \in Slots /\ client[i'] >= 0 /\ client[i'] \in readSet /\ i' <= maxi
    BY <2>2, <2>3, <2>4 DEF Reported
  <2>6. fd' = client[i'] /\ client[i'] \in OpenFds
    BY <1>2, <1>3, <2>5 DEF TableAgrees, fd, table
  <2>7. Served' = {fd'} /\ fd' \in Fds /\ fd' \in OpenFds
    BY <2>1, <2>6 DEF Served, Serving, OpenFds
  <2>8. TableAgrees'
    BY <1>2, <1>3, <2>5, <2>7 DEF TableAgrees, table
  <2>9. Pending' = Pending
    BY <1>2, <2>1 DEF Pending, table
  <2>10. ASSUME NEW f \in Pending
         PROVE  \E k \in Slots : i' <= k /\ k <= maxi' /\ client'[k] = f
    <3>1. PICK k \in Slots : i <= k /\ k <= maxi /\ client[k] = f
      BY <1>2, <2>10 DEF CountAgrees
    <3>2. f \in Nat /\ f \in readSet
      BY <1>1, <2>10 DEF Pending, IInv, TypeOK
    <3>4. k \in Reported
      BY <2>2, <3>1, <3>2 DEF Reported
    <3> QED BY <1>2, <2>4, <3>1, <3>4 DEF table
  <2>11. CountAgrees'
    BY <1>2, <2>1, <2>5, <2>6, <2>9, <2>10 DEF CountAgrees, Serving, fd
  <2> QED BY <1>1, <2>8, <2>11 DEF TInv
<1> QED BY <1>4, <1>5

\* The connection that is closed leaves the table, all_set and the count.
LEMMA CloseTable == TInv /\ ~Stray /\ CloseConnection => TInv'
<1> SUFFICES ASSUME TInv, ~Stray, CloseConnection PROVE TInv'
  OBVIOUS
<1> USE ConstFacts
<1>1. IInv /\ IInv'
  BY CloseConnectionStep DEF TInv
<1>2. TableAgrees /\ CountAgrees /\ pc = "recv"
  BY DEF CloseConnection, TInv, Ended
<1>4. /\ fd \in Fds /\ fd \in readSet /\ fd \in Nat /\ i \in Slots /\ i \in Nat
      /\ i <= maxi /\ fd # Listen
  BY <1>1, <1>2 DEF TableAgrees, CountAgrees, Serving, IInv, Reports
<1>3. /\ Close(fd) /\ allSet' = allSet \ {fd}
      /\ client' = [client EXCEPT ![i] = -1]
      /\ UNCHANGED <<found, maxi, maxfd, backlog, sent>>
  BY <1>4 DEF CloseConnection, ClearFd
<1>5. \A f \in Fds : sock'[f] = IF f = fd THEN NONE ELSE sock[f]
  BY <1>1, <1>3, <1>4, CloseOne
<1>6. Served = {fd} /\ OpenFds' = OpenFds \ {fd}
  BY <1>2, <1>5 DEF OpenFds, Served, Serving
<1>7. pc' \in {"select", "scan"} /\ Served' = {}
  BY DEF CloseConnection, CountDown, EndRound, Served, Serving
<1>8. \A j \in Slots : client'[j] = IF j = i THEN -1 ELSE client[j]
  BY <1>1, <1>3, <1>4 DEF IInv, TypeOK
<1>9. \A j \in Slots : j <= maxi /\ client[j] = fd => j = i
  BY <1>2, <1>4 DEF TableAgrees, fd
<1>10. TableAgrees'
  <2>1. ASSUME NEW j \in Slots, j <= maxi', client'[j] >= 0
        PROVE  client'[j] \in OpenFds'
    <3>1. j # i /\ client'[j] = client[j]
      BY <1>8, <2>1
    <3> QED BY <1>2, <1>3, <1>6, <1>9, <2>1, <3>1 DEF TableAgrees
  <2>2. ASSUME NEW f \in OpenFds'
        PROVE  \E j \in Slots : j <= maxi' /\ client'[j] = f
    <3>1. f \in OpenFds /\ f # fd
      BY <1>6, <2>2
    <3>2. PICK j \in Slots : j <= maxi /\ client[j] = f
      BY <1>2, <3>1 DEF TableAgrees
    <3> QED BY <1>3, <1>8, <3>1, <3>2 DEF fd
  <2>5. ASSUME NEW j \in Slots, j > maxi' PROVE client'[j] = found'[j]
    <3>1. j # i /\ j \in Int /\ maxi \in Int
      BY <1>1, <1>3, <1>4, <2>5 DEF Slots, IInv, TypeOK
    <3> QED BY <1>2, <1>3, <1>8, <2>5, <3>1 DEF TableAgrees
  <2>3. ASSUME NEW j \in Slots, NEW k \in Slots, j <= maxi', k <= maxi',
               client'[j] >= 0, client'[j] = client'[k]
        PROVE  j = k
    <3>1. j # i /\ k # i
      BY <1>8, <2>3
    <3> QED BY <1>2, <1>3, <1>8, <2>3, <3>1 DEF TableAgrees
  <2>4. allSet' = OpenFds' \cup {Listen}
    BY <1>2, <1>3, <1>4, <1>6 DEF TableAgrees
  <2> QED BY <1>2, <1>3, <1>7, <2>1, <2>2, <2>3, <2>4, <2>5
          DEF TableAgrees, Serving
<1>11. CountAgrees'
  <2>1. CASE pc' = "select"
    BY <2>1 DEF CountAgrees, Serving
  <2>2. CASE pc' = "scan"
    <3>1. nready' = nready - 1 /\ readSet' = readSet /\ i' = i + 1
      BY <2>2 DEF CloseConnection, CountDown, EndRound
    <3>2. Pending' = Pending \ {fd} /\ fd \in Pending
      BY <1>2, <1>3, <1>4, <1>6, <3>1 DEF Pending, TableAgrees
    <3>3. Pending \in SUBSET (Fds \cup {Listen}) /\ nready = Cardinality(Pending)
      BY <1>1, <1>2 DEF Pending, IInv, TypeOK, CountAgrees, Serving
    <3>4. nready' = Cardinality(Pending')
      BY <3>1, <3>2, <3>3, SetsAreFinite, FS_RemoveElement
    <3>5. ASSUME NEW f \in Pending'
          PROVE  \E k \in Slots : i' <= k /\ k <= maxi' /\ client'[k] = f
      <4>1. PICK k \in Slots : i <= k /\ k <= maxi /\ client[k] = f
        BY <1>2, <3>2, <3>5 DEF CountAgrees, Serving
      <4>2. k # i /\ k \in Nat
        BY <3>2, <3>5, <4>1 DEF fd
      <4> QED BY <1>3, <1>4, <1>8, <3>1, <4>1, <4>2
    <3> QED BY <2>2, <3>4, <3>5 DEF CountAgrees, Serving
  <2> QED BY <1>7, <2>1, <2>2
<1> QED BY <1>1, <1>10, <1>11 DEF TInv

\* A stray entry stays one: maxi only grows.
LEMMA StrayStays == IInv /\ [Next]_vars /\ Stray => Stray'
<1> SUFFICES ASSUME IInv, [Next]_vars, Stray PROVE Stray'
  OBVIOUS
<1>1. maxi \in Int
  BY DEF IInv, TypeOK
<1>2. found' = found /\ maxi' \in Int /\ maxi <= maxi'
  <2>1. CASE Accept
    <3>1. PICK k \in Slots : maxi' = IF k > maxi THEN k ELSE maxi
      BY <2>1 DEF Accept
    <3>2. k \in Int /\ found' = found
      BY ConstFacts, <2>1 DEF Slots, Accept
    <3> QED BY <1>1, <3>1, <3>2
  <2>2. CASE ~Accept
    BY <1>1, <2>2
       DEF Next, ServerLoop, HttpRecvAndSend, Peers, Select, SelectFails,
           AcceptFails, TooManyClients, Scan, Recv, Respond, Write, SendError,
           WriteReset, CloseConnection, Connect, Send, Reads, Finish, Reset,
           vars, table
  <2> QED BY <2>1, <2>2
<1> QED BY <1>1, <1>2 DEF Stray

LEMMA TableStep == TInv /\ [Next]_vars => TInv'
<1> SUFFICES ASSUME TInv, [Next]_vars PROVE TInv'
  OBVIOUS
<1> USE ConstFacts
<1>1. IInv /\ IInv'
  BY InvStep DEF TInv
<1>2. CASE pc' \in Ended \/ Stray'
  BY <1>1, <1>2 DEF TInv
<1> SUFFICES ASSUME ~Stray' PROVE TInv'
  BY <1>2
<1>0. ~Stray
  BY <1>1, StrayStays
<1>3. CASE Select \/ SelectFails \/ Accept \/ Scan \/ CloseConnection
  BY <1>0, <1>3, SelectTable, SelectFailsTable, AcceptTable, ScanTable, CloseTable
<1>4. CASE AcceptFails
  <2>1. UNCHANGED <<table, kernel>> /\ pc = "accept" /\ pc' = "select"
    BY <1>4 DEF AcceptFails, EndRound
  <2>2. OpenFds' = OpenFds /\ Served = {} /\ Served' = {}
    BY <2>1 DEF OpenFds, Served, Serving, kernel
  <2>3. TableAgrees' /\ CountAgrees'
    BY <1>0, <2>1, <2>2 DEF TInv, TableAgrees, CountAgrees, Serving, Ended, table
  <2> QED BY <1>1, <2>3 DEF TInv
<1>5. CASE TooManyClients
  BY <1>1, <1>5 DEF TooManyClients, TInv, Ended
<1>6. CASE Recv \/ Respond \/ Write \/ SendError
  <2>1. UNCHANGED <<table, scan, sock>> /\ pc \in Serving
    BY <1>6 DEF Recv, Respond, Write, SendError, kernel, Serving
  <2>2. pc' \in Serving \/ pc' \in {"killed", "stuck"}
    BY <1>6 DEF Recv, Respond, Write, SendError, Serving
  <2>3. OpenFds' = OpenFds
    BY <2>1 DEF OpenFds
  <2> QED BY <1>0, <1>1, <1>2, <2>1, <2>2, <2>3, TableStutter DEF Serving, Ended
<1>7. CASE WriteReset
  <2>1. UNCHANGED <<table, scan, backlog, sent>> /\ pc \in Serving /\ fd \in Int
    BY <1>7 DEF WriteReset, Serving, Open
  <2>2. pc' \in Serving \/ pc' = "killed"
    BY <1>7 DEF WriteReset, Serving
  <2>3. OpenFds' = OpenFds \/ OpenFds' = OpenFds \ {fd}
    <3>1. CASE Close(fd)
      <4>1. \A f \in Fds : sock'[f] = IF f = fd THEN NONE ELSE sock[f]
        BY <1>1, <2>1, <3>1, CloseOne
      <4> QED BY <4>1 DEF OpenFds
    <3>2. CASE sock' = sock
      BY <3>2 DEF OpenFds
    <3> QED BY <1>7, <3>1, <3>2 DEF WriteReset
  <2> QED BY <1>0, <1>1, <1>2, <2>1, <2>2, <2>3, TableStutter DEF Serving, Ended
<1>8. CASE Peers \/ UNCHANGED vars
  <2>1. UNCHANGED <<pc, table, scan, sock>>
    BY <1>8 DEF Peers, Connect, Send, Reads, Finish, Reset, vars, kernel
  <2>2. OpenFds' = OpenFds
    BY <2>1 DEF OpenFds
  <2> QED BY <1>0, <1>1, <1>2, <2>1, <2>2, TableStutter
<1> QED BY <1>3, <1>4, <1>5, <1>6, <1>7, <1>8
        DEF Next, ServerLoop, HttpRecvAndSend

LEMMA TableInvariant == Spec => []TInv
  BY TableInit, TableStep, PTL DEF Spec

\* Entries in use and descriptors that are open are in a bijection.
LEMMA OneEntryEach ==
  ASSUME TInv, pc \in {"select", "accept", "scan"}, ~Stray
  PROVE  /\ {client[k] : k \in InUse} = OpenFds
         /\ Cardinality(InUse) = Cardinality(OpenFds)
<1> USE ConstFacts
<1>1. TableAgrees /\ Served = {} /\ IInv
  BY DEF TInv, Served, Serving, Ended
<1>2. maxi \in -1..TableSize - 1 /\ client \in [Slots -> Int]
  BY <1>1 DEF IInv, TypeOK
<1>3. InUse \subseteq Slots
  BY <1>2 DEF InUse, Slots
<1>4. \A k \in InUse : k <= maxi /\ client[k] \in OpenFds
  BY <1>1, <1>2, <1>3 DEF TableAgrees, InUse
<1>5. ASSUME NEW f \in OpenFds PROVE \E k \in InUse : client[k] = f
  <2>1. PICK k \in Slots : k <= maxi /\ client[k] = f
    BY <1>1 DEF TableAgrees
  <2>2. f \in Nat /\ k \in Nat
    BY DEF OpenFds
  <2> QED BY <1>2, <2>1, <2>2 DEF InUse
<1>6. \A j, k \in InUse : client[j] = client[k] => j = k
  BY <1>1, <1>3, <1>4 DEF TableAgrees, InUse
<1>7. IsFiniteSet(InUse)
  <2>1. IsFiniteSet(0..maxi) /\ InUse \in SUBSET (0..maxi)
    BY <1>2, FS_Interval DEF InUse
  <2> QED BY <2>1, FS_Subset
<1>8. Cardinality(InUse) = Cardinality(OpenFds)
  <2> DEFINE g == [k \in InUse |-> client[k]]
  <2>1. g \in Surjection(InUse, OpenFds)
    BY <1>4, <1>5 DEF Surjection
  <2>2. g \in Injection(InUse, OpenFds)
    BY <1>4, <1>6 DEF Injection, IsInjective
  <2> QED BY <1>7, <2>1, <2>2, FS_Surjection
<1> QED BY <1>4, <1>5, <1>8

\* client[], all_set, maxi and maxfd describe the open connections, each
\* once (TCP_Server.cpp:57-104), whatever the memset left in client[], until
\* the scan can reach an entry that looks like a descriptor and never was one.
THEOREM TableIsRight == Spec => []TableMatchesSockets
<1>1. TInv => TableMatchesSockets
  <2> SUFFICES ASSUME TInv, pc \in {"select", "accept", "scan"}, ~Stray
               PROVE  /\ {client[k] : k \in InUse} = OpenFds
                      /\ Cardinality(InUse) = Cardinality(OpenFds)
                      /\ allSet = OpenFds \cup {Listen}
                      /\ \A f \in allSet : f <= maxfd
    BY DEF TableMatchesSockets
  <2>1. TableAgrees /\ Served = {}
    BY DEF TInv, Served, Serving, Ended
  <2> QED BY <2>1, OneEntryEach DEF TableAgrees
<1> QED BY <1>1, TableInvariant, PTL

\* A round ends only when all that select reported was served, or accept
\* failed (TCP_Server.cpp:83-99), or select, or a stray entry was in reach.
THEOREM RoundIsComplete == Spec => RoundServesAll
<1> USE ConstFacts
<1> DEFINE Complete == pc # "select" /\ pc' = "select" /\ nready >= 0 /\ ~Stray =>
                         \/ (readSet \cap allSet') \subseteq {Listen}
                         \/ AcceptFails
<1>1. TInv /\ [Next]_vars => [Complete]_vars
  <2> SUFFICES ASSUME TInv, Next, pc # "select", pc' = "select", ~AcceptFails,
                      nready >= 0, ~Stray
               PROVE  (readSet \cap allSet') \subseteq {Listen}
    OBVIOUS
  <2>1. IInv
    BY DEF TInv
  <2>2. CASE Accept
    <3>1. nready <= 1 /\ nready = Cardinality(readSet) /\ Listen \in readSet
      BY <2>2 DEF Accept, CountDown, TInv, CountAgrees, Ended
    <3>2. readSet \in SUBSET (Fds \cup {Listen})
      BY <2>1 DEF IInv, TypeOK
    <3>3. IsFiniteSet(readSet \ {Listen}) /\ Cardinality(readSet \ {Listen}) <= 0
      BY <3>1, <3>2, SetsAreFinite, FS_RemoveElement
    <3>4. Cardinality(readSet \ {Listen}) = 0
      BY <3>3, FS_CardinalityType
    <3>5. readSet \ {Listen} = {}
      BY <3>3, <3>4, FS_EmptySet
    <3> QED BY <3>5
  <2>3. CASE Scan
    <3>1. Reported = {} /\ allSet' = allSet
      BY <2>3 DEF Scan, table
    <3>2. ASSUME NEW f \in Pending PROVE FALSE
      <4>1. TableAgrees /\ CountAgrees /\ pc = "scan"
        BY <2>3 DEF Scan, TInv, Ended
      <4>2. PICK k \in Slots : i <= k /\ k <= maxi /\ client[k] = f
        BY <4>1, <3>2 DEF CountAgrees
      <4>3. f \in Nat /\ f \in readSet
        BY <2>1, <3>2 DEF Pending, IInv, TypeOK
      <4>4. i \in Nat /\ maxi \in Int /\ k \in Nat
        BY <2>1 DEF IInv, TypeOK
      <4> QED BY <3>1, <4>2, <4>3, <4>4 DEF Reported
    <3> QED BY <3>1, <3>2 DEF Pending
  <2>4. CASE CloseConnection
    <3>1. TableAgrees /\ CountAgrees /\ pc = "recv"
      BY <2>4 DEF CloseConnection, TInv, Ended
    <3>2. nready <= 1 /\ nready = Cardinality(Pending) /\ allSet' = allSet \ {fd}
      BY <2>4, <3>1 DEF CloseConnection, CountDown, CountAgrees, Serving, ClearFd
    <3>3. fd \in Pending
      BY <3>1 DEF TableAgrees, CountAgrees, Served, Serving, Pending
    <3>4. Pending \in SUBSET (Fds \cup {Listen})
      BY <2>1 DEF Pending, IInv, TypeOK
    <3>5. IsFiniteSet(Pending \ {fd}) /\ Cardinality(Pending \ {fd}) <= 0
      BY <3>2, <3>3, <3>4, SetsAreFinite, FS_RemoveElement
    <3>6. Cardinality(Pending \ {fd}) = 0
      BY <3>5, FS_CardinalityType
    <3>7. Pending \ {fd} = {}
      BY <3>5, <3>6, FS_EmptySet
    <3> QED BY <3>2, <3>7 DEF Pending
  <2>5. Accept \/ Scan \/ CloseConnection
    BY DEF Next, ServerLoop, HttpRecvAndSend, Peers, Select, SelectFails,
           TooManyClients, Recv, Respond, Write, SendError, WriteReset, Connect, Send, Reads,
           Finish, Reset
  <2> QED BY <2>2, <2>3, <2>4, <2>5
<1> QED BY <1>1, TableInvariant, PTL DEF Spec, RoundServesAll

=============================================================================
