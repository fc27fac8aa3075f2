--------------------------- MODULE Program_proofs ---------------------------
(***************************************************************************)
(* Proofs about Program, for any pages, files, requests and settings.      *)
(***************************************************************************)
EXTENDS Program, SequenceLemmas, TLAPS

-----------------------------------------------------------------------------
(* What HandleWrite knows of its file from stat to the copy: the size that *)
(* stat gave is the file's unless the file has changed since, or is no     *)
(* file.                                                                   *)

Serving == {"open", "mmap", "copy"}
FileKnown ==
  main \in Serving =>
    /\ srcStat \in Nat /\ changed \in BOOLEAN
    /\ file \in Sizes \cup {Absent, Directory}
    /\ ~changed /\ file # Directory => file = srcStat
MappedIsFile ==
  /\ main = "mmap" => file \in Sizes \cup {Directory}
  /\ main = "copy" => file \in Sizes

IInv == /\ answers \in Seq(Answer) /\ AnswerIsFile
        /\ FileKnown /\ MappedIsFile

-----------------------------------------------------------------------------
LEMMA ConstFacts ==
  Sizes \subseteq Nat /\ Page \in Nat /\ Directory \notin Nat
  BY ProgramAssumption

LEMMA LesserOf ==
  ASSUME NEW a \in Nat, NEW b \in Nat
  PROVE  /\ Min({a, b}) \in Nat
         /\ a = b => Min({a, b}) = b
<1>1. PICK x \in {a, b} : \A y \in {a, b} : x <= y
  <2>1. CASE a <= b
    BY <2>1
  <2>2. CASE ~(a <= b)
    BY <2>2
  <2> QED BY <2>1, <2>2
<1>2. Min({a, b}) \in {a, b}
  BY <1>1 DEF Min
<1> QED BY <1>2

\* One more answer, with as many bytes as announced, and a stable file's own.
LEMMA OneMoreAnswer ==
  ASSUME IInv, NEW r \in Answer,
         r.length = r.body \/ r.error, r.stable => r.fromFile = r.body,
         answers' = Append(answers, r) \/ answers' = answers
  PROVE  answers' \in Seq(Answer) /\ AnswerIsFile'
<1>1. CASE answers' = answers
  BY <1>1 DEF IInv, AnswerIsFile
<1>2. CASE answers' = Append(answers, r)
  <2>1. answers' \in Seq(Answer) /\ Len(answers') = Len(answers) + 1
    BY <1>2 DEF IInv
  <2>2. ASSUME NEW k \in 1..Len(answers')
        PROVE  /\ answers'[k].length = answers'[k].body \/ answers'[k].error
               /\ answers'[k].stable => answers'[k].fromFile = answers'[k].body
    <3>1. CASE k = Len(answers) + 1
      <4>1. answers'[k] = r
        BY <1>2, <3>1 DEF IInv
      <4> QED BY <4>1
    <3>2. CASE k # Len(answers) + 1
      <4>1. k \in 1..Len(answers) /\ answers'[k] = answers[k]
        BY <1>2, <2>1, <3>2 DEF IInv
      <4> QED BY <4>1 DEF IInv, AnswerIsFile
    <3> QED BY <3>1, <3>2
  <2> QED BY <2>1, <2>2 DEF AnswerIsFile
<1> QED BY <1>1, <1>2

\* What does not touch the answers, nor the file outside the steps that do.
LEMMA NothingSent ==
  ASSUME IInv, UNCHANGED <<disk, answers>>, main' \notin Serving \/ main' = main
  PROVE  IInv'
BY DEF IInv, AnswerIsFile, FileKnown, MappedIsFile, Serving, disk

LEMMA SendFileStep == IInv /\ SendFile => IInv'
<1> SUFFICES ASSUME IInv, SendFile PROVE IInv'
  OBVIOUS
<1> DEFINE own == Min({file, srcStat})
           r == [length |-> srcStat, body |-> srcStat, fromFile |-> own,
                 stable |-> ~changed, error |-> FALSE]
<1>1. /\ srcStat \in Nat /\ file \in Nat /\ changed \in BOOLEAN
      /\ ~changed => file = srcStat
  BY ConstFacts DEF SendFile, IInv, FileKnown, MappedIsFile, Serving
<1>2. own \in Nat /\ (file = srcStat => own = srcStat)
  BY <1>1, LesserOf
<1>3. r \in Answer
  BY <1>1, <1>2 DEF Answer
<1>4. main' \notin Serving
  BY DEF SendFile, Sent, Killed, Serving
<1>5. r.stable => r.fromFile = r.body
  BY <1>1, <1>2
<1>6. answers' = Append(answers, r) \/ answers' = answers
  BY DEF SendFile, Sent, Copied
<1>7. answers' \in Seq(Answer) /\ AnswerIsFile'
  <2> HIDE DEF own
  <2>1. r.length = r.body
    OBVIOUS
  <2> HIDE DEF r
  <2> QED BY <1>3, <1>5, <1>6, <2>1, OneMoreAnswer
<1> QED BY <1>4, <1>7 DEF IInv, FileKnown, MappedIsFile, Serving

LEMMA HandleErrorStep == IInv /\ HandleError => IInv'
<1> SUFFICES ASSUME IInv, HandleError PROVE IInv'
  OBVIOUS
<1>2. PICK n \in 1..2 : answers' = Append(answers, ErrorPage(n)) \/ answers' = answers
  BY DEF HandleError, Sent
<1>1. ErrorPage(n) \in Answer /\ ErrorPage(n).error /\ ~ErrorPage(n).stable
  BY DEF ErrorPage, Answer
<1>3. main' \notin Serving
  BY DEF HandleError, Sent, Killed, Serving
<1>4. answers' \in Seq(Answer) /\ AnswerIsFile'
  BY <1>1, <1>2, OneMoreAnswer
<1> QED BY <1>3, <1>4 DEF IInv, FileKnown, MappedIsFile, Serving

-----------------------------------------------------------------------------
LEMMA InitInv == Init => IInv
<1> SUFFICES ASSUME Init PROVE IInv
  OBVIOUS
<1>1. answers = <<>> /\ main = "fopen"
  BY DEF Init
<1> QED BY <1>1 DEF IInv, AnswerIsFile, FileKnown, MappedIsFile, Serving

LEMMA ServerStep == IInv /\ ServerThread => IInv'
<1> SUFFICES ASSUME IInv, ServerThread PROVE IInv'
  OBVIOUS
<1>1. CASE Main
  BY <1>1, NothingSent
  DEF Main, Fopen, ReadFails, LoadLine, LoadDone, GetSettings, ServerStart,
      AcceptConnection, SelectConnection, vars, Serving
<1>2. CASE HandleRead \/ CloseConnection \/ InfoPrint
  BY <1>2, NothingSent DEF HandleRead, CloseConnection, InfoPrint, Serving
<1>3. CASE ParseRequest
  BY <1>3, NothingSent
  DEF ParseRequest, ParseRequestLine, ParseHeader, HeaderOutOfRange,
      HeadersDone, Killed, Serving
<1>4. CASE Stat
  BY <1>4, ConstFacts
  DEF Stat, SizeOf, IInv, AnswerIsFile, FileKnown, MappedIsFile, Serving, disk
<1>5. CASE OpenFile
  BY <1>5
  DEF OpenFile, IInv, AnswerIsFile, FileKnown, MappedIsFile, Serving, disk
<1>6. CASE Mmap
  BY <1>6
  DEF Mmap, IInv, AnswerIsFile, FileKnown, MappedIsFile, Serving, disk
<1>7. CASE SendFile
  BY <1>7, SendFileStep
<1>8. CASE BusError
  BY <1>8
  DEF BusError, Killed, IInv, AnswerIsFile, FileKnown, MappedIsFile, Serving
<1>9. CASE HandleError
  BY <1>9, HandleErrorStep
<1> QED
  BY <1>1, <1>2, <1>3, <1>4, <1>5, <1>6, <1>7, <1>8, <1>9
  DEF ServerThread, HandleWrite

LEMMA OthersStep == IInv /\ (Client \/ Arrive \/ FileChanges) => IInv'
<1> SUFFICES ASSUME IInv, Client \/ Arrive \/ FileChanges PROVE IInv'
  OBVIOUS
<1>1. CASE Client
  BY <1>1, NothingSent
  DEF Client, Connect, SendRequest, Receive, RecvTimeout, RecvEnd, RecvReset
<1>2. CASE Arrive
  BY <1>2, NothingSent DEF Arrive
<1>3. CASE FileChanges
  BY <1>3
  DEF FileChanges, IInv, AnswerIsFile, FileKnown, MappedIsFile, Serving
<1> QED BY <1>1, <1>2, <1>3

LEMMA AnswersInvariant == Spec => []IInv
<1>1. IInv /\ [Next]_vars => IInv'
  <2> SUFFICES ASSUME IInv, [Next]_vars PROVE IInv'
    OBVIOUS
  <2>1. CASE Next
    BY <2>1, ServerStep, OthersStep DEF Next
  <2>2. CASE UNCHANGED vars
    BY <2>2, NothingSent DEF vars
  <2> QED BY <2>1, <2>2
<1> QED BY InitInv, <1>1, PTL DEF Spec

\* Whatever happens to the file between stat, open, mmap and the copy, each
\* response is as long as it says, and a file that did not change is sent as
\* it is, from the first byte to the last.
THEOREM AnswersAreFiles == Spec => []AnswerIsFile
<1>1. IInv => AnswerIsFile
  BY DEF IInv
<1> QED BY AnswersInvariant, <1>1, PTL

-----------------------------------------------------------------------------
(* Indices into a text.                                                    *)

LEMMA LeastOf ==
  ASSUME NEW S \in SUBSET Nat, S # {}
  PROVE  Min(S) \in S /\ \A y \in S : Min(S) <= y
BY Least DEF Min

\* Sums and differences stay in size_t, and never exceed what they would be
\* without the wrapping.
LEMMA NposIsSize == npos \in Nat
  BY SizeTAssumption DEF npos
LEMMA PlusWraps ==
  ASSUME NEW p \in Nat, NEW n \in Nat
  PROVE  Plus(p, n) \in Nat /\ Plus(p, n) <= p + n
<1> QED BY SizeTAssumption DEF Plus
LEMMA MinusWraps == ASSUME NEW p \in Int, NEW q \in Int PROVE Minus(p, q) \in Nat
<1> QED BY SizeTAssumption DEF Minus
LEMMA NposWraps == Plus(npos, 1) = 0 /\ Plus(npos, 2) \in 0..1
<1>1. npos + 1 = SizeT /\ npos + 2 = SizeT + 1
  BY SizeTAssumption DEF npos
<1>2. SizeT % SizeT = 0 /\ (SizeT + 1) % SizeT \in 0..1
  BY SizeTAssumption
<1> QED BY <1>1, <1>2 DEF Plus

LEMMA FindIn ==
  ASSUME NEW s \in Seq(Symbols), NEW from \in Nat, NEW ch
  PROVE  Find(s, ch, from) = npos \/ Find(s, ch, from) \in 0..Len(s) - 1
<1> DEFINE hits == {p \in from..Len(s) - 1 : At(s, p) = ch}
<1>1. hits \in SUBSET Nat /\ hits \subseteq 0..Len(s) - 1
  OBVIOUS
<1>2. Find(s, ch, from) = IF hits = {} THEN npos ELSE Min(hits)
  BY DEF Find
<1> HIDE DEF hits
<1> QED BY <1>1, <1>2, LeastOf

\* The position behind a header is at most one behind the end, also when
\* nothing is found and the sums wrap around.
LEMMA BehindIn ==
  ASSUME NEW s \in Seq(Symbols), NEW p \in Nat,
         NEW from, from = ValueFrom(s, Colon(s, p)),
         NEW to, to = ValueTo(s, from)
  PROVE  Behind(p, to) \in 0..Len(s) + 1
<1> DEFINE n == Len(s)
           i == Colon(s, p)
           k == Plus(i, 1)
           next == {q \in k..n : At(s, q) # "SP"}
<1>1. n \in Nat /\ (i = npos \/ i \in 0..n - 1)
  BY FindIn DEF Colon
<1>2. At(s, n) = "NUL" /\ "NUL" # "SP"
  BY <1>1 DEF At
<1>3. from = Minus(Min(next), 1)
  BY DEF ValueFrom
<1>4. to = npos \/ from \notin Nat \/ to \in 0..n - 1
  BY FindIn DEF ValueTo
<1> HIDE DEF n, i
<1>5. k \in 0..n
  <2>1. CASE i = npos
    BY <1>1, <2>1, NposWraps
  <2>2. CASE i \in 0..n - 1
    <3>1. i \in Nat /\ i + 1 <= n
      BY <1>1, <2>2
    <3>2. Plus(i, 1) \in Nat /\ Plus(i, 1) <= i + 1
      BY <3>1, PlusWraps
    <3> QED BY <1>1, <3>1, <3>2
  <2> QED BY <1>1, <2>1, <2>2
<1> HIDE DEF k
<1>6. next \in SUBSET Nat /\ n \in next
  <2>1. n \in k..n /\ k..n \subseteq Nat
    BY <1>1, <1>5
  <2> QED BY <1>2, <2>1
<1> HIDE DEF next
<1>7. from \in Nat
  <2>1. Min(next) \in Nat
    BY <1>6, LeastOf
  <2> QED BY <1>3, <2>1, MinusWraps
<1>8. CASE to = npos
  BY <1>1, <1>8, NposWraps DEF Behind, n
<1>9. CASE to \in 0..n - 1
  <2>1. to \in Nat /\ to + 2 <= n + 1
    BY <1>1, <1>9
  <2>2. Plus(to, 2) \in Nat /\ Plus(to, 2) <= to + 2
    BY <2>1, PlusWraps
  <2>3. Plus(to, 2) \in 0..n + 1
    BY <1>1, <2>1, <2>2
  <2> QED BY <2>3 DEF Behind, n
<1> QED BY <1>4, <1>7, <1>8, <1>9

LEMMA BehindLineText ==
  ASSUME NEW s \in Seq(Symbols) PROVE BehindLine(s) \in Seq(Symbols)
<1> DEFINE p == Plus(Find(s, "CR", 0), 2)
<1>1. p \in Nat
  <2>1. Find(s, "CR", 0) \in Nat
    <3>1. 0 \in Nat /\ Len(s) \in Nat
      OBVIOUS
    <3>2. Find(s, "CR", 0) = npos \/ Find(s, "CR", 0) \in 0..Len(s) - 1
      BY FindIn
    <3> QED BY <3>1, <3>2, NposIsSize
  <2> QED BY <2>1, PlusWraps
<1>2. \A n \in Nat : Substr(s, p, n) \in Seq(Symbols)
  <2>1. ASSUME NEW n \in Nat PROVE Substr(s, p, n) \in Seq(Symbols)
    <3>1. {p + n, Len(s)} \in SUBSET Nat
      BY <1>1
    <3>2. Min({p + n, Len(s)}) \in {p + n, Len(s)} /\ Min({p + n, Len(s)}) <= Len(s)
      BY <3>1, LeastOf
    <3> DEFINE last == Min({p + n, Len(s)})
    <3>3. p + 1 \in Nat \ {0} /\ last \in Nat /\ last <= Len(s)
      BY <1>1, <3>1, <3>2
    <3> HIDE DEF last, p
    <3>4. SubSeq(s, p + 1, last) \in Seq(Symbols)
      BY <3>3
    <3> QED BY <3>4 DEF last, Substr
  <2> QED BY <2>1
<1> QED BY <1>2 DEF BehindLine

-----------------------------------------------------------------------------
(* Every variable keeps its kind.                                          *)

ItemsOf(s) == {s[k] : k \in 1..Len(s)}
Texts ==
  /\ inbox \in Seq(Symbols) /\ onWay \in Seq(Symbols)
  /\ recvBuffer \in Seq(Symbols)
  /\ items \in Seq(ItemsOf(items))
  /\ main \notin {"headers", "info", "killed"} => pos = 0

KInv == TypeOK /\ Texts

LEMMA KindsInit == Init => KInv
<1> SUFFICES ASSUME Init PROVE KInv
  OBVIOUS
<1>1. TypeOK
  <2>1. /\ items = <<>> /\ recvBuffer = <<>> /\ answers = <<>>
        /\ pos = 0 /\ taken = 0 /\ whole = FALSE /\ changed = FALSE
        /\ file = Absent /\ srcStat = 0
    BY DEF Init
  <2>2. /\ \A k \in 1..Len(items) : DOMAIN items[k] = {"itemName", "itemContent"}
        /\ pos \in 0..Len(recvBuffer) + 1
        /\ answers \in Seq(Answer) /\ taken \in 0..Len(answers)
    BY <2>1
  <2>3. DOMAIN parsed = {"method", "filename", "version"}
    BY DEF Init, NothingParsed
  <2> QED BY <2>1, <2>2, <2>3 DEF Init, TypeOK
<1>2. Texts
  BY DEF Init, Texts, ItemsOf
<1> QED BY <1>1, <1>2 DEF KInv

\* Loading: an item more, or none.
LEMMA ItemsGrow ==
  ASSUME items \in Seq(ItemsOf(items)), NEW e, items' = Append(items, e)
  PROVE  /\ items' \in Seq(ItemsOf(items'))
         /\ Len(items') = Len(items) + 1
         /\ \A k \in 1..Len(items') :
              items'[k] = e \/ (k \in 1..Len(items) /\ items'[k] = items[k])
<1> DEFINE S == ItemsOf(items) \cup {e}
<1>1. items \in Seq(S) /\ e \in S
  BY DEF ItemsOf
<1> HIDE DEF S
<1>2. items' \in Seq(S) /\ Len(items') = Len(items) + 1
  BY <1>1
<1>3. ASSUME NEW k \in 1..Len(items')
      PROVE items'[k] = e \/ (k \in 1..Len(items) /\ items'[k] = items[k])
  <2>1. Len(items) \in Nat /\ k \in 1..Len(items) + 1
    BY <1>1, <1>2
  <2>2. CASE k = Len(items) + 1
    <3>1. items'[k] = e
      BY <1>1, <2>2
    <3> QED BY <3>1
  <2>3. CASE k \in 1..Len(items)
    <3>1. items'[k] = items[k]
      BY <1>1, <2>3
    <3> QED BY <2>3, <3>1
  <2> QED BY <2>1, <2>2, <2>3
<1>4. items' \in Seq(ItemsOf(items'))
  BY <1>2 DEF ItemsOf
<1> QED BY <1>2, <1>3, <1>4

LEMMA LoadLineStep == KInv /\ LoadLine => KInv'
<1> SUFFICES ASSUME KInv, LoadLine PROVE KInv'
  OBVIOUS
<1>1. PICK line : line = Fgets(rest)
  OBVIOUS
<1>2. \/ items' = items /\ main' \in {"load", "undefined"}
      \/ \E text : items' = Append(items, Store(text)) /\ main' = "load"
  BY DEF LoadLine
<1>3. /\ items' \in Seq(ItemsOf(items'))
      /\ \A k \in 1..Len(items') : DOMAIN items'[k] = {"itemName", "itemContent"}
  <2>1. CASE items' = items
    BY <2>1 DEF KInv, TypeOK, Texts
  <2>2. CASE \E text : items' = Append(items, Store(text))
    <3>1. PICK text : items' = Append(items, Store(text))
      BY <2>2
    <3>2. DOMAIN Store(text) = {"itemName", "itemContent"}
      BY DEF Store
    <3> QED BY <3>1, <3>2, ItemsGrow DEF KInv, TypeOK, Texts
  <2> QED BY <1>2, <2>1, <2>2
<1>4. TypeOK'
  BY <1>2, <1>3
  DEF KInv, TypeOK, LoadLine, socket, parser, disk, peer
<1>5. Texts'
  BY <1>2, <1>3 DEF KInv, Texts, LoadLine, socket, parser
<1> QED BY <1>4, <1>5 DEF KInv

LEMMA MainStep == KInv /\ Main => KInv'
<1> SUFFICES ASSUME KInv, Main PROVE KInv'
  OBVIOUS
<1>1. CASE LoadLine
  BY <1>1, LoadLineStep
<1>2. CASE ReadFails
  BY <1>2
  DEF ReadFails, vars, KInv, TypeOK, Texts, config, socket, parser, disk, peer
<1>3. CASE Fopen \/ LoadDone \/ GetSettings \/ ServerStart \/ SelectConnection
  BY <1>3
  DEF Fopen, LoadDone, GetSettings, ServerStart, SelectConnection,
      KInv, TypeOK, Texts, config, socket, parser, disk, peer
<1>4. CASE AcceptConnection
  BY <1>4
  DEF AcceptConnection, KInv, TypeOK, Texts, config, parser, disk, peer
<1> QED BY <1>1, <1>2, <1>3, <1>4 DEF Main

-----------------------------------------------------------------------------
(* Parsing.                                                                *)

LEMMA SubSeqIn ==
  ASSUME NEW T, NEW s \in Seq(T), NEW i \in Nat \ {0}, NEW j \in 0..Len(s)
  PROVE  SubSeq(s, i, j) \in Seq(T)
OBVIOUS

\* What recv takes of a text, and what it leaves.
LEMMA PrefixOf ==
  ASSUME NEW T, NEW s \in Seq(T), NEW n \in Nat
  PROVE  /\ SubSeq(s, 1, Min({n, Len(s)})) \in Seq(T)
         /\ SubSeq(s, Min({n, Len(s)}) + 1, Len(s)) \in Seq(T)
<1>1. Len(s) \in Nat /\ \A i \in 1..Len(s) : s[i] \in T
  OBVIOUS
<1>2. Min({n, Len(s)}) \in Nat /\ Min({n, Len(s)}) <= Len(s)
  <2>1. Min({n, Len(s)}) \in {n, Len(s)} /\ \A y \in {n, Len(s)} : Min({n, Len(s)}) <= y
    <3>1. PICK x \in {n, Len(s)} : \A y \in {n, Len(s)} : x <= y
      BY <1>1
    <3> QED BY <3>1 DEF Min
  <2> QED BY <1>1, <2>1
<1>3. PICK m \in Nat : m = Min({n, Len(s)}) /\ m <= Len(s)
  BY <1>2
<1>4. SubSeq(s, 1, m) \in Seq(T)
  BY <1>1, <1>3
<1>5. SubSeq(s, m + 1, Len(s)) \in Seq(T)
  <2>1. m + 1 \in Nat \ {0} /\ Len(s) \in 0..Len(s)
    BY <1>1, <1>3
  <2> QED BY <2>1, SubSeqIn
<1> QED BY <1>3, <1>4, <1>5

LEMMA ReadStep == KInv /\ (HandleRead \/ CloseConnection) => KInv'
<1> SUFFICES ASSUME KInv, HandleRead \/ CloseConnection PROVE KInv'
  OBVIOUS
<1>1. CASE HandleRead
  <2>1. pos' = 0 /\ recvBuffer' \in Seq(Symbols) /\ inbox' \in Seq(Symbols)
    <3>1. inbox \in Seq(Symbols) /\ RecvSize \in Nat
      BY ProgramAssumption DEF KInv, Texts
    <3> QED BY <1>1, <3>1, PrefixOf DEF HandleRead, KInv, Texts
  <2>2. pos' \in 0..Len(recvBuffer') + 1
    BY <2>1
  <2>3. whole' \in BOOLEAN
    BY <1>1 DEF HandleRead
  <2>4. TypeOK'
    BY <1>1, <2>2, <2>3 DEF HandleRead, KInv, TypeOK, config, disk, peer
  <2>5. Texts'
    BY <1>1, <2>1 DEF HandleRead, KInv, Texts, config
  <2> QED BY <2>4, <2>5 DEF KInv
<1>2. CASE CloseConnection
  BY <1>2
  DEF CloseConnection, KInv, TypeOK, Texts, config, parser, disk, peer
<1> QED BY <1>1, <1>2

LEMMA RequestLineStep == KInv /\ ParseRequestLine => KInv'
<1> SUFFICES ASSUME KInv, ParseRequestLine PROVE KInv'
  OBVIOUS
<1>1. DOMAIN parsed' = {"method", "filename", "version"}
  BY DEF ParseRequestLine
<1>2. recvBuffer' \in Seq(Symbols) /\ pos' = 0
  BY BehindLineText DEF ParseRequestLine, KInv, Texts
<1>3. pos' \in 0..Len(recvBuffer') + 1
  BY <1>2
<1>4. TypeOK'
  BY <1>1, <1>3 DEF ParseRequestLine, KInv, TypeOK, config, socket, disk, peer
<1>5. Texts'
  BY <1>2 DEF ParseRequestLine, KInv, Texts, config, socket
<1> QED BY <1>4, <1>5 DEF KInv

LEMMA HeaderStep == KInv /\ ParseHeader => KInv'
<1> SUFFICES ASSUME KInv, ParseHeader PROVE KInv'
  OBVIOUS
<1>1. recvBuffer \in Seq(Symbols) /\ pos \in Nat
  <2>1. recvBuffer \in Seq(Symbols) /\ pos \in 0..Len(recvBuffer) + 1
    BY DEF KInv, Texts, TypeOK
  <2> QED BY <2>1
<1>2. PICK from, to : /\ from = ValueFrom(recvBuffer, Colon(recvBuffer, pos))
                      /\ to = ValueTo(recvBuffer, from)
                      /\ pos' = Behind(pos, to)
  BY DEF ParseHeader
<1>3. pos' \in 0..Len(recvBuffer) + 1
  BY <1>1, <1>2, BehindIn
<1>4. TypeOK'
  BY <1>3 DEF ParseHeader, KInv, TypeOK, config, socket, disk, peer
<1>5. Texts'
  BY DEF ParseHeader, KInv, Texts, config, socket
<1> QED BY <1>4, <1>5 DEF KInv

LEMMA EndOfHeadersStep ==
  KInv /\ (HeaderOutOfRange \/ HeadersDone \/ InfoPrint) => KInv'
<1> SUFFICES ASSUME KInv, HeaderOutOfRange \/ HeadersDone \/ InfoPrint
             PROVE KInv'
  OBVIOUS
<1>1. CASE HeaderOutOfRange
  BY <1>1
  DEF HeaderOutOfRange, Killed, KInv, TypeOK, Texts, config, parser, disk, peer
<1>2. CASE HeadersDone
  BY <1>2
  DEF HeadersDone, KInv, TypeOK, Texts, config, socket, parser, disk, peer
<1>3. CASE InfoPrint
  <2>1. recvBuffer' = <<>> /\ pos' \in 0..Len(recvBuffer') + 1
    BY <1>3 DEF InfoPrint
  <2>2. DOMAIN parsed' = {"method", "filename", "version"} /\ whole' \in BOOLEAN
    BY <1>3 DEF InfoPrint, NothingParsed
  <2>3. TypeOK'
    BY <1>3, <2>1, <2>2 DEF InfoPrint, KInv, TypeOK, config, socket, disk, peer
  <2>4. Texts'
    <3>1. recvBuffer' \in Seq(Symbols) /\ pos' = 0
      BY <1>3 DEF InfoPrint
    <3> QED BY <1>3, <3>1 DEF InfoPrint, KInv, Texts, config, socket
  <2> QED BY <2>3, <2>4 DEF KInv
<1> QED BY <1>1, <1>2, <1>3

-----------------------------------------------------------------------------
(* Answering.                                                              *)

LEMMA FileStep == KInv /\ (Stat \/ OpenFile \/ Mmap) => KInv'
<1> SUFFICES ASSUME KInv, Stat \/ OpenFile \/ Mmap PROVE KInv'
  OBVIOUS
<1>1. CASE Stat
  BY <1>1
  DEF Stat, SizeOf, KInv, TypeOK, Texts, config, socket, parser, disk, peer
<1>2. CASE OpenFile \/ Mmap
  BY <1>2
  DEF OpenFile, Mmap, KInv, TypeOK, Texts, config, socket, parser, disk, peer
<1> QED BY <1>1, <1>2

LEMMA AnswerStep ==
  KInv /\ IInv' /\ (SendFile \/ BusError \/ HandleError) => KInv'
<1> SUFFICES ASSUME KInv, IInv', SendFile \/ BusError \/ HandleError
             PROVE KInv'
  OBVIOUS
<1>1. answers' = answers \/ \E r : answers' = Append(answers, r)
  BY DEF SendFile, BusError, HandleError, Sent
<1>2. answers' \in Seq(Answer) /\ taken' \in 0..Len(answers')
  <2>1. answers \in Seq(Answer) /\ answers' \in Seq(Answer)
    BY DEF KInv, TypeOK, IInv
  <2>2. Len(answers') >= Len(answers)
    BY <1>1, <2>1
  <2>3. taken' = taken /\ taken \in 0..Len(answers)
    BY DEF KInv, TypeOK, SendFile, BusError, HandleError, peer
  <2> QED BY <2>1, <2>2, <2>3
<1>3. /\ main' \in {"recv", "killed"}
      /\ conn' \in {conn, "closed", "reset"}
      /\ UNCHANGED <<config, onWay, inbox, parser, peer>>
      /\ file' = Absent /\ srcStat' = 0 /\ changed' = FALSE
      /\ main \in {"copy", "error"}
  BY DEF SendFile, BusError, HandleError, Sent, Killed, EndWrite
<1>4. TypeOK'
  BY <1>2, <1>3 DEF KInv, TypeOK, config, parser, peer
<1>5. Texts'
  BY <1>3 DEF KInv, Texts, config, parser
<1> QED BY <1>4, <1>5 DEF KInv

-----------------------------------------------------------------------------
(* The client, the network and the file system.                            *)

LEMMA ClientStep == KInv /\ Client => KInv'
<1> SUFFICES ASSUME KInv, Client PROVE KInv'
  OBVIOUS
<1>1. CASE Connect
  BY <1>1 DEF Connect, KInv, TypeOK, Texts, config, parser, disk
<1>2. CASE SendRequest
  <2>1. onWay' \in Seq(Symbols)
    BY <1>2, TextAssumption DEF SendRequest, KInv, TypeOK
  <2> QED BY <1>2, <2>1 DEF SendRequest, KInv, TypeOK, Texts, config, parser, disk
<1>3. CASE Receive
  <2>1. taken' \in 0..Len(answers')
    BY <1>3 DEF Receive, KInv, TypeOK
  <2> QED BY <1>3, <2>1
      DEF Receive, KInv, TypeOK, Texts, config, socket, parser, disk
<1>4. CASE RecvTimeout \/ RecvEnd \/ RecvReset
  BY <1>4
  DEF RecvTimeout, RecvEnd, RecvReset, KInv, TypeOK, Texts, config, socket,
      parser, disk
<1> QED BY <1>1, <1>2, <1>3, <1>4 DEF Client

LEMMA WorldStep == KInv /\ (Arrive \/ FileChanges) => KInv'
<1> SUFFICES ASSUME KInv, Arrive \/ FileChanges PROVE KInv'
  OBVIOUS
<1>1. CASE Arrive
  <2>1. inbox \in Seq(Symbols) /\ onWay \in Seq(Symbols)
    BY DEF KInv, Texts
  <2>2. PICK n \in 1..Len(onWay) :
          /\ onWay' = SubSeq(onWay, n + 1, Len(onWay))
          /\ \/ inbox' = inbox \o SubSeq(onWay, 1, n) /\ UNCHANGED conn
             \/ conn' = "reset" /\ UNCHANGED inbox
    <3>1. Len(onWay) \in 1..Len(onWay)
      BY <1>1, <2>1 DEF Arrive
    <3>2. CASE onWay = Text(request)
      BY <1>1, <3>2 DEF Arrive
    <3>3. CASE onWay # Text(request)
      BY <1>1, <3>1, <3>3 DEF Arrive
    <3> QED BY <3>2, <3>3
  <2>3. onWay' \in Seq(Symbols) /\ SubSeq(onWay, 1, n) \in Seq(Symbols)
    BY <2>1, <2>2
  <2>4. inbox' \in Seq(Symbols)
    <3>1. CASE inbox' = inbox \o SubSeq(onWay, 1, n)
      BY <2>1, <2>3, <3>1
    <3>2. CASE UNCHANGED inbox
      BY <2>1, <3>2
    <3> QED BY <2>2, <3>1, <3>2
  <2> QED BY <1>1, <2>2, <2>3, <2>4
      DEF Arrive, KInv, TypeOK, Texts, config, parser, disk, peer
<1>2. CASE FileChanges
  BY <1>2
  DEF FileChanges, KInv, TypeOK, Texts, config, socket, parser, peer
<1> QED BY <1>1, <1>2

LEMMA KindsStep == KInv /\ IInv /\ IInv' /\ [Next]_vars => KInv'
<1> SUFFICES ASSUME KInv, IInv, IInv', [Next]_vars PROVE KInv'
  OBVIOUS
<1>1. CASE ServerThread
  BY <1>1, MainStep, ReadStep, RequestLineStep, HeaderStep, EndOfHeadersStep,
     FileStep, AnswerStep
  DEF ServerThread, ParseRequest, HandleWrite
<1>2. CASE Client \/ Arrive \/ FileChanges
  BY <1>2, ClientStep, WorldStep
<1>3. CASE UNCHANGED vars
  BY <1>3
  DEF vars, KInv, TypeOK, Texts, config, socket, parser, disk, peer
<1> QED BY <1>1, <1>2, <1>3 DEF Next

\* Every variable keeps its kind, for every set of requests and files: in
\* particular the parser never looks further than one behind the end of what
\* it parses, wherever the request was cut.
THEOREM TypeCorrect == Spec => []TypeOK
<1>1. KInv => TypeOK
  BY DEF KInv
<1> QED BY KindsInit, KindsStep, AnswersInvariant, <1>1, PTL DEF Spec

-----------------------------------------------------------------------------
(* Texts within texts: t stands in s behind the position p.                *)

Stands(t, s, p) ==
  /\ p + Len(t) <= Len(s)
  /\ \A i \in 1..Len(t) : s[p + i] = t[i]

LEMMA ConcatSize ==
  ASSUME NEW T, NEW s \in Seq(T), NEW t \in Seq(T)
  PROVE  /\ s \o t \in Seq(T) /\ Len(s \o t) = Len(s) + Len(t)
         /\ Len(s) \in Nat /\ Len(t) \in Nat
OBVIOUS

\* Both parts of a text stand in it.
LEMMA StandsInConcat ==
  ASSUME NEW T, NEW a \in Seq(T), NEW t \in Seq(T)
  PROVE  Stands(t, a \o t, Len(a)) /\ Stands(a, a \o t, 0)
BY DEF Stands

\* Where two texts stand in a row, each of them does, and the other way round.
LEMMA ConcatStands ==
  ASSUME NEW T, NEW t \in Seq(T), NEW u \in Seq(T), NEW s, Len(s) \in Nat,
         NEW p \in Nat, Stands(t \o u, s, p)
  PROVE  Stands(t, s, p) /\ Stands(u, s, p + Len(t))
<1>1. Len(t) \in Nat /\ Len(u) \in Nat /\ Len(t \o u) = Len(t) + Len(u)
  OBVIOUS
<1>2. p + Len(t) <= Len(s) /\ p + Len(t) + Len(u) <= Len(s)
  BY <1>1 DEF Stands
<1>3. ASSUME NEW i \in 1..Len(t) PROVE s[p + i] = t[i]
  <2>1. i \in 1..Len(t \o u) /\ (t \o u)[i] = t[i]
    BY <1>1
  <2> QED BY <2>1 DEF Stands
<1>4. ASSUME NEW i \in 1..Len(u) PROVE s[p + Len(t) + i] = u[i]
  <2>1. PICK j \in Nat : j = Len(t) + i
    BY <1>1
  <2>2. j \in 1..Len(t \o u) /\ (t \o u)[j] = u[i]
    BY <1>1, <2>1
  <2>3. s[p + j] = u[i]
    BY <2>2 DEF Stands
  <2>4. p + j = p + Len(t) + i
    BY <1>1, <2>1
  <2> QED BY <2>3, <2>4
<1> QED BY <1>1, <1>2, <1>3, <1>4 DEF Stands

LEMMA StandTogether ==
  ASSUME NEW T, NEW t \in Seq(T), NEW u \in Seq(T), NEW s, Len(s) \in Nat,
         NEW p \in Nat, Stands(t, s, p), Stands(u, s, p + Len(t))
  PROVE  Stands(t \o u, s, p)
<1>1. PICK n \in Nat, m \in Nat, w \in Seq(T) :
        n = Len(t) /\ m = Len(u) /\ w = t \o u
  BY ConcatSize
<1>2. /\ Len(w) = n + m
      /\ \A i \in 1..n : w[i] = t[i]
      /\ \A i \in 1..m : w[n + i] = u[i]
  BY <1>1
<1>3. /\ p + n + m <= Len(s)
      /\ \A i \in 1..n : s[p + i] = t[i]
      /\ \A i \in 1..m : s[p + n + i] = u[i]
  BY <1>1 DEF Stands
<1>4. ASSUME NEW i \in 1..n + m PROVE s[p + i] = w[i]
  <2>1. CASE i <= n
    BY <1>2, <1>3, <2>1
  <2>2. CASE i > n
    <3>1. PICK j \in 1..m : i = n + j /\ p + i = p + n + j
      <4>1. i - n \in 1..m /\ i = n + (i - n) /\ p + i = p + n + (i - n)
        BY <2>2
      <4> QED BY <4>1
    <3>2. s[p + n + j] = u[j] /\ w[n + j] = u[j]
      BY <1>2, <1>3
    <3> QED BY <3>1, <3>2
  <2> QED BY <2>1, <2>2
<1>5. Stands(w, s, p)
  BY <1>2, <1>3, <1>4 DEF Stands
<1> QED BY <1>1, <1>5

\* What stands somewhere is what is cut out there.
LEMMA StandsIsSubSeq ==
  ASSUME NEW T, NEW t \in Seq(T), NEW s \in Seq(T), NEW p \in Nat, Stands(t, s, p)
  PROVE  SubSeq(s, p + 1, p + Len(t)) = t
<1>1. PICK u : u = SubSeq(s, p + 1, p + Len(t))
  OBVIOUS
<1>2. u \in Seq(T) /\ Len(u) = Len(t)
  BY <1>1 DEF Stands
<1>3. ASSUME NEW i \in 1..Len(t) PROVE u[i] = t[i]
  <2>1. u[i] = s[p + i]
    BY <1>1 DEF Stands
  <2> QED BY <2>1 DEF Stands
<1>4. u = t
  BY <1>2, <1>3, SeqEqual
<1> QED BY <1>1, <1>4

\* What is found is the first place, and at npos there is none.
LEMMA FindAt ==
  ASSUME NEW s, Len(s) \in Nat, NEW ch, NEW from \in Nat, NEW p \in Nat,
         from <= p, p < Len(s), s[p + 1] = ch,
         \A q \in from..(p - 1) : s[q + 1] # ch
  PROVE  Find(s, ch, from) = p
<1> DEFINE hits == {q \in from..Len(s) - 1 : At(s, q) = ch}
<1>1. hits \in SUBSET Nat /\ p \in hits
  BY DEF At
<1>2. \A q \in hits : ~(q < p)
  BY DEF At
<1>3. Find(s, ch, from) = IF hits = {} THEN npos ELSE Min(hits)
  BY DEF Find
<1> HIDE DEF hits
<1>4. PICK m : m = Min(hits)
  OBVIOUS
<1>5. m \in hits /\ m <= p
  BY <1>1, <1>4, LeastOf
<1>6. m = p
  BY <1>1, <1>2, <1>5
<1> QED BY <1>1, <1>3, <1>4, <1>6

LEMMA FindNone ==
  ASSUME NEW s, Len(s) \in Nat, NEW ch, NEW from \in Nat,
         \A q \in from..Len(s) - 1 : s[q + 1] # ch
  PROVE  Find(s, ch, from) = npos
BY DEF Find, At

\* Sums and differences that do not wrap.
LEMMA PlusExact ==
  ASSUME NEW p \in Nat, NEW n \in Nat, p + n < SizeT PROVE Plus(p, n) = p + n
BY SizeTAssumption DEF Plus
LEMMA MinusExact ==
  ASSUME NEW p \in Nat, NEW q \in Nat, q <= p, p < SizeT PROVE Minus(p, q) = p - q
BY SizeTAssumption DEF Minus

\* substr, where the count does not reach beyond the end.
LEMMA SubstrWithin ==
  ASSUME NEW s, Len(s) \in Nat, NEW p \in Nat, NEW n \in Nat, p + n <= Len(s)
  PROVE  Substr(s, p, n) = SubSeq(s, p + 1, p + n)
<1>1. {p + n, Len(s)} \in SUBSET Nat
  OBVIOUS
<1>2. PICK m : m = Min({p + n, Len(s)})
  OBVIOUS
<1>3. m \in {p + n, Len(s)} /\ m <= p + n
  BY <1>1, <1>2, LeastOf
<1>4. m = p + n
  BY <1>3
<1> QED BY <1>2, <1>4 DEF Substr

LEMMA SubstrIs ==
  ASSUME NEW T, NEW t \in Seq(T), NEW s \in Seq(T), NEW p \in Nat,
         Stands(t, s, p), NEW n, n = Len(t)
  PROVE  Substr(s, p, n) = t
<1>1. n \in Nat /\ Len(s) \in Nat /\ p + n <= Len(s)
  BY DEF Stands
<1>2. SubSeq(s, p + 1, p + n) = t
  BY StandsIsSubSeq
<1> QED BY <1>1, <1>2, SubstrWithin

\* The symbols; the provers do not know that a string they are given is one.
Letters == STRING \cup {":", "SP", "/", "?", "CR", "LF", "HTTP", "1", ".", "index.html"}

LEMMA SymbolsIn ==
  ASSUME NEW S, NEW s \in Seq(S) PROVE \A i \in 1..Len(s) : s[i] \in S
OBVIOUS

LEMMA SeqWithin ==
  ASSUME NEW S, NEW T, S \subseteq T, NEW s \in Seq(S) PROVE s \in Seq(T)
OBVIOUS

\* The parts of a header, and what is in none of them.
LEMMA PartsAreTexts ==
  ASSUME NEW h \in HeaderParts
  PROVE  /\ h.key \in Seq(Letters) /\ h.blanks \in Seq(Letters) /\ h.value \in Seq(Letters)
         /\ \A i \in 1..Len(h.key) : h.key[i] # ":" /\ h.key[i] # "CR"
         /\ \A i \in 1..Len(h.blanks) : h.blanks[i] = "SP"
         /\ \A i \in 1..Len(h.value) : h.value[i] # "CR"
<1>1. /\ h.key \in Seq(STRING \ {":", "CR"}) /\ h.blanks \in Seq({"SP"})
      /\ h.value \in Seq(STRING \ {"CR"})
  BY DEF HeaderParts
<1>2. /\ STRING \ {":", "CR"} \subseteq Letters /\ {"SP"} \subseteq Letters
      /\ STRING \ {"CR"} \subseteq Letters
  BY DEF Letters
<1>3. /\ h.key \in Seq(Letters) /\ h.blanks \in Seq(Letters)
      /\ h.value \in Seq(Letters)
  BY <1>1, <1>2, SeqWithin
<1>4. /\ \A i \in 1..Len(h.key) : h.key[i] \in STRING \ {":", "CR"}
      /\ \A i \in 1..Len(h.blanks) : h.blanks[i] \in {"SP"}
      /\ \A i \in 1..Len(h.value) : h.value[i] \in STRING \ {"CR"}
  BY <1>1, SymbolsIn
<1> QED BY <1>3, <1>4

\* Four texts in a row.
LEMMA FourStand ==
  ASSUME NEW T, NEW a \in Seq(T), NEW b \in Seq(T), NEW c \in Seq(T), NEW d \in Seq(T),
         NEW s, Len(s) \in Nat, NEW p \in Nat,
         Stands(((a \o b) \o c) \o d, s, p)
  PROVE  /\ Stands(a, s, p) /\ Stands(b, s, p + Len(a))
         /\ Stands(c, s, p + Len(a) + Len(b))
         /\ Stands(d, s, p + Len(a) + Len(b) + Len(c))
         /\ Len(((a \o b) \o c) \o d) = Len(a) + Len(b) + Len(c) + Len(d)
         /\ ((a \o b) \o c) \o d \in Seq(T)
<1>1. PICK ab \in Seq(T) : ab = a \o b
  BY ConcatSize
<1>2. PICK abc \in Seq(T) : abc = ab \o c
  BY ConcatSize
<1>3. Len(ab) = Len(a) + Len(b) /\ Len(a) \in Nat /\ Len(b) \in Nat
  BY <1>1
<1>4. Len(abc) = Len(ab) + Len(c) /\ Len(c) \in Nat
  BY <1>2
<1>5. /\ Stands(abc, s, p) /\ Stands(d, s, p + Len(abc))
      /\ Len(abc \o d) = Len(abc) + Len(d) /\ abc \o d \in Seq(T)
  <2>1. Stands(abc \o d, s, p)
    BY <1>1, <1>2
  <2> QED BY <2>1, ConcatStands, ConcatSize
<1>6. Stands(ab, s, p) /\ Stands(c, s, p + Len(ab))
  <2>1. Stands(ab \o c, s, p)
    BY <1>2, <1>5
  <2> QED BY <2>1, ConcatStands
<1>7. Stands(a, s, p) /\ Stands(b, s, p + Len(a))
  <2>1. Stands(a \o b, s, p)
    BY <1>1, <1>6
  <2> QED BY <2>1, ConcatStands
<1>8. /\ p + Len(ab) = p + Len(a) + Len(b)
      /\ p + Len(abc) = p + Len(a) + Len(b) + Len(c)
      /\ Len(abc) + Len(d) = Len(a) + Len(b) + Len(c) + Len(d)
  <2>1. Len(d) \in Nat
    OBVIOUS
  <2> QED BY <1>3, <1>4, <2>1
<1>9. ((a \o b) \o c) \o d = abc \o d
  BY <1>1, <1>2
<1> QED BY <1>5, <1>6, <1>7, <1>8, <1>9

\* Where the parts of a header at p stand: its colon, the last blank (or else
\* the colon), and its end of line.
ColonAt(h, p) == p + Len(h.key)
BlankAt(h, p) == ColonAt(h, p) + Len(h.blanks)
EndAt(h, p) == BlankAt(h, p) + 1 + Len(h.value)

\* The parts stand there.
LEMMA HeaderPlaces ==
  ASSUME NEW h \in HeaderParts, NEW s \in Seq(Letters), NEW p \in Nat,
         Stands(HeaderText(h), s, p)
  PROVE  /\ ColonAt(h, p) \in Nat /\ BlankAt(h, p) \in Nat /\ EndAt(h, p) \in Nat
         /\ Stands(h.key, s, p) /\ Stands(<<":">>, s, ColonAt(h, p))
         /\ Stands(h.blanks, s, ColonAt(h, p) + 1)
         /\ Stands(h.value, s, BlankAt(h, p) + 1)
         /\ Stands(<<"CR", "LF">>, s, EndAt(h, p))
         /\ p + Len(HeaderText(h)) = EndAt(h, p) + 2
         /\ HeaderText(h) \in Seq(Letters)
<1>1. PICK k \in Seq(Letters), b \in Seq(Letters), v \in Seq(Letters), e \in Seq(Letters),
           o \in Seq(Letters) :
        /\ k = h.key /\ b = h.blanks /\ v = h.value /\ e = <<"CR", "LF">> /\ o = <<":">>
        /\ Len(e) = 2 /\ Len(o) = 1
  <2>1. <<"CR", "LF">> \in Seq(Letters) /\ <<":">> \in Seq(Letters)
    <3>1. "CR" \in Letters /\ "LF" \in Letters /\ ":" \in Letters
      BY DEF Letters
    <3> QED BY <3>1
  <2>2. Len(<<"CR", "LF">>) = 2 /\ Len(<<":">>) = 1
    OBVIOUS
  <2>3. /\ h.key \in Seq(Letters) /\ h.blanks \in Seq(Letters)
        /\ h.value \in Seq(Letters)
    BY PartsAreTexts
  <2> QED BY <2>1, <2>2, <2>3
<1>2. HeaderText(h) = (((k \o o) \o b) \o v) \o e
  BY <1>1 DEF HeaderText
<1>3. PICK u \in Seq(Letters) : u = ((k \o o) \o b) \o v
  BY ConcatSize
<1>4. Len(s) \in Nat
  OBVIOUS
<1>5. Stands(u, s, p) /\ Stands(e, s, p + Len(u)) /\ Len(u \o e) = Len(u) + 2
      /\ u \o e \in Seq(Letters)
  <2>1. Stands(u \o e, s, p)
    BY <1>2, <1>3
  <2>2. Len(u \o e) = Len(u) + 2 /\ u \o e \in Seq(Letters)
    BY <1>1, ConcatSize
  <2> QED BY <1>4, <2>1, <2>2, ConcatStands
<1>6. /\ Stands(k, s, p) /\ Stands(o, s, p + Len(k))
      /\ Stands(b, s, p + Len(k) + Len(o))
      /\ Stands(v, s, p + Len(k) + Len(o) + Len(b))
      /\ Len(u) = Len(k) + Len(o) + Len(b) + Len(v)
  BY <1>3, <1>4, <1>5, FourStand
<1>7. Len(k) \in Nat /\ Len(b) \in Nat /\ Len(v) \in Nat
  OBVIOUS
<1>8. PICK c \in Nat, f \in Nat, t \in Nat :
        c = p + Len(k) /\ f = c + Len(b) /\ t = f + 1 + Len(v)
  <2>1. PICK c \in Nat : c = p + Len(k)
    BY <1>7
  <2>2. PICK f \in Nat : f = c + Len(b)
    BY <1>7
  <2>3. f + 1 + Len(v) \in Nat
    BY <1>7
  <2> QED BY <2>1, <2>2, <2>3
<1>9. c = ColonAt(h, p) /\ f = BlankAt(h, p) /\ t = EndAt(h, p)
  BY <1>1, <1>8 DEF ColonAt, BlankAt, EndAt
<1>10. /\ c + 1 = p + Len(k) + Len(o)
       /\ f + 1 = p + Len(k) + Len(o) + Len(b) /\ t = p + Len(u)
       /\ p + (Len(u) + 2) = t + 2
  <2>1. Len(u) = Len(k) + Len(o) + Len(b) + Len(v) /\ Len(o) = 1
    BY <1>1, <1>6
  <2>2. PICK lk \in Nat, lb \in Nat, lv \in Nat :
          lk = Len(k) /\ lb = Len(b) /\ lv = Len(v)
    BY <1>7
  <2>3. /\ c + 1 = p + lk + 1 /\ f + 1 = p + lk + 1 + lb
        /\ t = p + (lk + 1 + lb + lv) /\ p + ((lk + 1 + lb + lv) + 2) = t + 2
    <3>1. /\ lk \in Nat /\ lb \in Nat /\ lv \in Nat /\ p \in Nat
          /\ c = p + lk /\ f = c + lb /\ t = f + 1 + lv
      BY <1>8, <2>2
    <3> QED BY ONLY <3>1
  <2> QED BY <2>1, <2>2, <2>3
<1>11. /\ Stands(k, s, p) /\ Stands(o, s, c) /\ Stands(b, s, c + 1)
       /\ Stands(v, s, f + 1) /\ Stands(e, s, t)
       /\ p + Len(u \o e) = t + 2
  BY <1>5, <1>6, <1>8, <1>10
<1> QED BY <1>1, <1>2, <1>3, <1>5, <1>9, <1>11

\* A header in the text s from position p: its colon at c, the last blank (or
\* else the colon) at f, and its end of line at t.
Laid(s, p, c, f, t) ==
  /\ p <= c /\ c <= f /\ f < t /\ t + 2 <= Len(s)
  /\ \A q \in p..c - 1 : s[q + 1] # ":" /\ s[q + 1] # "CR"
  /\ s[c + 1] = ":"
  /\ \A q \in c + 1..f : s[q + 1] = "SP"
  /\ f + 1 < t => s[f + 2] # "SP"
  /\ \A q \in f + 1..t - 1 : s[q + 1] # "CR"
  /\ s[t + 1] = "CR"

\* These are the places the parser finds.
LEMMA HeaderScanned ==
  ASSUME NEW s, Len(s) \in Nat, Len(s) < SizeT, NEW p \in Nat,
         NEW c \in Nat, NEW f \in Nat, NEW t \in Nat, Laid(s, p, c, f, t)
  PROVE  /\ ~HeadersEnd(s, p)
         /\ Colon(s, p) = c /\ ValueFrom(s, c) = f /\ ValueTo(s, f) = t
<1>1. Colon(s, p) = c
  BY FindAt DEF Colon, Laid
<1>2. ~HeadersEnd(s, p)
  BY DEF HeadersEnd, At, Laid
<1>3. ValueFrom(s, c) = f
  <2> DEFINE next == {q \in c + 1..Len(s) : At(s, q) # "SP"}
  <2>1. Plus(c, 1) = c + 1
    BY PlusExact, SizeTAssumption DEF Laid
  <2>2. f + 1 \in next /\ next \in SUBSET Nat
    BY DEF Laid, At
  <2>3. \A q \in next : ~(q < f + 1)
    BY DEF Laid, At
  <2>4. PICK m : m = Min(next)
    OBVIOUS
  <2>5. m = f + 1
    <3>1. m \in next /\ m <= f + 1
      BY <2>2, <2>4, LeastOf
    <3> QED BY <2>2, <2>3, <3>1
  <2>6. ValueFrom(s, c) = Minus(m, 1)
    BY <2>1, <2>4 DEF ValueFrom
  <2>7. f + 1 < SizeT
    BY SizeTAssumption DEF Laid
  <2> QED BY <2>5, <2>6, <2>7, MinusExact, SizeTAssumption
<1>4. ValueTo(s, f) = t
  <2>1. s[f + 1] # "CR"
    BY DEF Laid
  <2>2. \A q \in f..t - 1 : s[q + 1] # "CR"
    BY <2>1 DEF Laid
  <2> QED BY <2>2, FindAt DEF ValueTo, Laid
<1> QED BY <1>1, <1>2, <1>3, <1>4

\* What is taken from these places.
LEMMA KeyTaken ==
  ASSUME NEW T, NEW s \in Seq(T), Len(s) < SizeT, NEW k \in Seq(T),
         NEW p \in Nat, Stands(k, s, p), NEW c, c = p + Len(k)
  PROVE  Key(s, p, c) = k
<1>1. PICK n \in Nat, m \in Nat : n = Len(k) /\ m = Len(s)
  OBVIOUS
<1>2. c \in Nat /\ p <= c /\ c < SizeT /\ c - p = n
  BY <1>1, SizeTAssumption DEF Stands
<1>3. Minus(c, p) = n
  BY <1>2, MinusExact
<1> QED BY <1>1, <1>3, SubstrIs DEF Key

LEMMA ValueTaken ==
  ASSUME NEW T, NEW s \in Seq(T), Len(s) < SizeT, NEW v \in Seq(T),
         NEW f \in Nat, Stands(v, s, f + 1)
  PROVE  Tail(Value(s, f, f + 1 + Len(v))) = v
<1>1. PICK n \in Nat, g \in Nat, m \in Nat, t \in Nat :
        n = Len(v) + 1 /\ g = f + 1 /\ m = Len(s) /\ t = g + Len(v)
  <2>1. Len(v) \in Nat /\ Len(s) \in Nat
    OBVIOUS
  <2>2. PICK l \in Nat, g \in Nat : l = Len(v) /\ g = f + 1
    BY <2>1
  <2>3. l + 1 \in Nat /\ g + l \in Nat
    OBVIOUS
  <2> QED BY <2>1, <2>2, <2>3
<1>2. Stands(v, s, g) /\ t = f + 1 + Len(v)
  BY <1>1
<1>3. /\ f <= t /\ t < SizeT /\ t - f = n
      /\ f + n <= m /\ f + n = g + Len(v)
  BY <1>1, <1>2, SizeTAssumption DEF Stands
<1>4. Minus(t, f) = n
  BY <1>3, MinusExact
<1>5. Value(s, f, t) = SubSeq(s, g, f + n)
  <2>1. Value(s, f, t) = Substr(s, f, n)
    BY <1>4 DEF Value
  <2>2. Len(s) \in Nat /\ f + n <= Len(s)
    BY <1>1, <1>3
  <2>3. Substr(s, f, n) = SubSeq(s, f + 1, f + n)
    BY <2>2, SubstrWithin
  <2> QED BY <1>1, <2>1, <2>3
<1>6. g \in 1..Len(s) /\ f + n \in g..Len(s)
  BY <1>1, <1>3
<1>7. Tail(SubSeq(s, g, f + n)) = SubSeq(s, g + 1, f + n)
  BY <1>6, HeadTailOfSubSeq
<1>8. SubSeq(s, g + 1, g + Len(v)) = v
  BY <1>2, StandsIsSubSeq
<1> QED BY <1>2, <1>3, <1>5, <1>7, <1>8

\* A header's text is laid out as the parser wants it, and the parser takes
\* it apart where its parts meet.
LEMMA HeaderLaid ==
  ASSUME NEW h \in HeaderParts, NEW s \in Seq(Letters), NEW p \in Nat,
         Stands(HeaderText(h), s, p)
  PROVE  Laid(s, p, ColonAt(h, p), BlankAt(h, p), EndAt(h, p))
<1>1. PICK k \in Seq(Letters), b \in Seq(Letters), v \in Seq(Letters) :
        k = h.key /\ b = h.blanks /\ v = h.value
  BY PartsAreTexts
<1>2. PICK lk \in Nat, lb \in Nat, lv \in Nat :
        lk = Len(k) /\ lb = Len(b) /\ lv = Len(v)
  OBVIOUS
<1>3. PICK c \in Nat, f \in Nat, t \in Nat :
        /\ c = ColonAt(h, p) /\ f = BlankAt(h, p) /\ t = EndAt(h, p)
        /\ p \in Nat /\ lk \in Nat /\ lb \in Nat /\ lv \in Nat
        /\ c = p + lk /\ f = c + lb /\ t = f + 1 + lv
  <2>1. ColonAt(h, p) \in Nat /\ BlankAt(h, p) \in Nat /\ EndAt(h, p) \in Nat
    BY HeaderPlaces
  <2>2. /\ ColonAt(h, p) = p + lk /\ BlankAt(h, p) = ColonAt(h, p) + lb
        /\ EndAt(h, p) = BlankAt(h, p) + 1 + lv
    BY <1>1, <1>2 DEF ColonAt, BlankAt, EndAt
  <2> QED BY <2>1, <2>2
<1>4. /\ Stands(k, s, p) /\ Stands(<<":">>, s, c)
      /\ Stands(b, s, c + 1) /\ Stands(v, s, f + 1)
      /\ Stands(<<"CR", "LF">>, s, t)
  BY <1>1, <1>3, HeaderPlaces
<1>5. /\ \A i \in 1..lk : k[i] # ":" /\ k[i] # "CR"
      /\ \A i \in 1..lb : b[i] = "SP"
      /\ \A i \in 1..lv : v[i] # "CR"
  BY <1>1, <1>2, PartsAreTexts
<1>6. lv > 0 => v[1] # "SP"
  <2>1. v # <<>> => Head(v) # "SP"
    BY <1>1 DEF HeaderParts
  <2> QED BY <1>2, <2>1
<1>7. Len(<<":">>) = 1 /\ Len(<<"CR", "LF">>) = 2 /\ 1 \in 1..1 /\ 1 \in 1..2
      /\ <<":">>[1] = ":" /\ <<"CR", "LF">>[1] = "CR"
  OBVIOUS
<1>8. s[c + 1] = ":" /\ s[t + 1] = "CR" /\ t + 2 <= Len(s)
  BY <1>4, <1>7 DEF Stands
<1>9. /\ \A i \in 1..lk : s[p + i] = k[i]
      /\ \A i \in 1..lb : s[c + 1 + i] = b[i]
      /\ \A i \in 1..lv : s[f + 1 + i] = v[i]
  BY <1>2, <1>4 DEF Stands
<1>10. ASSUME NEW q \in p..c - 1 PROVE s[q + 1] # ":" /\ s[q + 1] # "CR"
  <2>1. PICK i \in 1..lk : q + 1 = p + i
    <3>1. q \in p..c - 1
      OBVIOUS
    <3>2. q + 1 - p \in 1..lk /\ q + 1 = p + (q + 1 - p)
      BY ONLY <1>3, <3>1
    <3> QED BY <3>2
  <2>2. s[p + i] = k[i] /\ k[i] # ":" /\ k[i] # "CR"
    BY <1>5, <1>9
  <2> QED BY <2>1, <2>2
<1>11. ASSUME NEW q \in c + 1..f PROVE s[q + 1] = "SP"
  <2>1. PICK i \in 1..lb : q + 1 = c + 1 + i
    <3>1. q \in c + 1..f
      OBVIOUS
    <3>2. q - c \in 1..lb /\ q + 1 = c + 1 + (q - c)
      BY ONLY <1>3, <3>1
    <3> QED BY <3>2
  <2> QED BY <1>5, <1>9, <2>1
<1>12. ASSUME NEW q \in f + 1..t - 1 PROVE s[q + 1] # "CR"
  <2>1. PICK i \in 1..lv : q + 1 = f + 1 + i
    <3>1. q \in f + 1..t - 1
      OBVIOUS
    <3>2. q - f \in 1..lv /\ q + 1 = f + 1 + (q - f)
      BY ONLY <1>3, <3>1
    <3> QED BY <3>2
  <2>2. s[f + 1 + i] = v[i] /\ v[i] # "CR"
    BY <1>5, <1>9
  <2> QED BY <2>1, <2>2
<1>13. f + 1 < t => s[f + 2] # "SP"
  <2>1. SUFFICES ASSUME f + 1 < t PROVE s[f + 2] # "SP"
    OBVIOUS
  <2>2. 1 \in 1..lv /\ lv > 0 /\ f + 1 + 1 = f + 2
    BY ONLY <1>3, <2>1
  <2>3. s[f + 1 + 1] = v[1]
    BY <1>9, <2>2
  <2> QED BY <1>6, <2>2, <2>3
<1>14. p <= c /\ c <= f /\ f < t
  BY ONLY <1>3
<1>15. Laid(s, p, c, f, t)
  BY <1>8, <1>10, <1>11, <1>12, <1>13, <1>14 DEF Laid
<1> QED BY <1>3, <1>15

\* So the parser takes a header's key and value, and moves behind it.
LEMMA HeaderParsed ==
  ASSUME NEW h \in HeaderParts, NEW s \in Seq(Letters), Len(s) < SizeT,
         NEW p \in Nat, Stands(HeaderText(h), s, p)
  PROVE  \E c \in Nat, f \in Nat, t \in Nat :
           /\ ~HeadersEnd(s, p)
           /\ Colon(s, p) = c /\ ValueFrom(s, c) = f /\ ValueTo(s, f) = t
           /\ f <= Len(s)
           /\ Key(s, p, c) = h.key
           /\ Tail(Value(s, f, t)) = h.value
           /\ Behind(p, t) = p + Len(HeaderText(h))
<1>1. PICK k \in Seq(Letters), v \in Seq(Letters) : k = h.key /\ v = h.value
  BY PartsAreTexts
<1>2. PICK c \in Nat, f \in Nat, t \in Nat :
        c = ColonAt(h, p) /\ f = BlankAt(h, p) /\ t = EndAt(h, p)
  BY HeaderPlaces
<1>3. c = p + Len(k) /\ t = f + 1 + Len(v)
  BY <1>1, <1>2 DEF ColonAt, BlankAt, EndAt
<1>4. Laid(s, p, c, f, t)
  BY <1>2, HeaderLaid
<1>5. Stands(k, s, p) /\ Stands(v, s, f + 1) /\ p + Len(HeaderText(h)) = t + 2
  BY <1>1, <1>2, HeaderPlaces
<1>6. /\ ~HeadersEnd(s, p)
      /\ Colon(s, p) = c /\ ValueFrom(s, c) = f /\ ValueTo(s, f) = t
  <2>1. Len(s) \in Nat
    OBVIOUS
  <2> QED BY <1>4, <2>1, HeaderScanned
<1>7. Key(s, p, c) = k
  BY <1>3, <1>5, KeyTaken
<1>8. Tail(Value(s, f, t)) = v
  BY <1>3, <1>5, ValueTaken
<1>9. f <= Len(s) /\ t + 2 <= Len(s) /\ Len(s) \in Nat
  BY <1>4 DEF Laid
<1>10. Behind(p, t) = t + 2
  <2>1. t + 2 < SizeT
    BY <1>9, SizeTAssumption
  <2> QED BY <2>1, PlusExact DEF Behind
<1> QED BY <1>1, <1>5, <1>6, <1>7, <1>8, <1>9, <1>10

\* The texts the parser looks for.
LEMMA Punctuation ==
  /\ <<":">> \in Seq(Letters) /\ <<"CR", "LF">> \in Seq(Letters)
  /\ <<"SP", "HTTP", "/">> \in Seq(Letters) /\ Version \in Seq(Letters)
<1>1. {":", "CR", "LF", "SP", "HTTP", "/", "1", "."} \subseteq Letters
  BY DEF Letters
<1> QED BY <1>1 DEF Version

LEMMA HeaderTextType ==
  ASSUME NEW h \in HeaderParts PROVE HeaderText(h) \in Seq(Letters)
<1>1. PICK k \in Seq(Letters), b \in Seq(Letters), v \in Seq(Letters) :
        k = h.key /\ b = h.blanks /\ v = h.value
  BY PartsAreTexts
<1>2. PICK e \in Seq(Letters), o \in Seq(Letters) : e = <<"CR", "LF">> /\ o = <<":">>
  BY Punctuation
<1>3. (((k \o o) \o b) \o v) \o e \in Seq(Letters)
  OBVIOUS
<1> QED BY <1>1, <1>2, <1>3 DEF HeaderText

-----------------------------------------------------------------------------
(* The request line.                                                       *)

\* A request line whose file, with its query, has q symbols.
LineLaid(s, q) ==
  /\ Len(s) = q + 9
  /\ \A i \in 1..q + 9 : s[i] # "CR"
  /\ s[1] # "SP" /\ s[2] = "SP" /\ s[3] = "/"
  /\ \A i \in 4..q + 3 : s[i] # "SP"
  /\ s[q + 4] = "SP" /\ s[q + 5] = "HTTP" /\ s[q + 6] = "/"

\* These are the places the parser finds.
LEMMA LineScanned ==
  ASSUME NEW s, NEW q \in Nat, LineLaid(s, q), q + 9 < SizeT
  PROVE  /\ Method(s) = 1 /\ FileFront(s, 1) = 2 /\ FileTail(s, 2) = q + 3
         /\ Find(s, "/", q + 3) = q + 5
<1>1. Len(s) \in Nat
  BY DEF LineLaid
<1>2. Method(s) = 1
  BY <1>1, FindAt DEF Method, LineLaid
<1>3. FileFront(s, 1) = 2
  BY <1>1, FindAt DEF FileFront, LineLaid
<1>4. FileTail(s, 2) = q + 3
  <2>1. \A i \in 2..q + 3 - 1 : s[i + 1] # "SP"
    BY DEF LineLaid
  <2>2. q + 3 \in Nat /\ 2 <= q + 3 /\ q + 3 < Len(s) /\ s[q + 3 + 1] = "SP"
    BY DEF LineLaid
  <2> QED BY <1>1, <2>1, <2>2, FindAt DEF FileTail
<1>5. Find(s, "/", q + 3) = q + 5
  <2>1. \A i \in q + 3..q + 5 - 1 : s[i + 1] # "/"
    BY DEF LineLaid
  <2>2. /\ q + 3 \in Nat /\ q + 5 \in Nat /\ q + 3 <= q + 5 /\ q + 5 < Len(s)
        /\ s[q + 5 + 1] = "/"
    BY DEF LineLaid
  <2> QED BY <1>1, <2>1, <2>2, FindAt
<1> QED BY <1>2, <1>3, <1>4, <1>5

\* The file without its query, and index.html for a directory.
LEMMA QueryCut ==
  ASSUME NEW name \in Seq(Letters), NEW query \in Seq(Letters), name # <<>>,
         \A i \in 1..Len(name) : name[i] # "?",
         query # <<>> => query[1] = "?",
         NEW f, f = name \o query, Len(f) < SizeT
  PROVE  CutQuery(f) = name
<1>1. f \in Seq(Letters) /\ Len(f) = Len(name) + Len(query)
  BY ConcatSize
<1>2. Len(name) \in Nat \ {0} /\ Len(query) \in Nat /\ Len(f) \in Nat
  BY ConcatSize
<1>3. Stands(name, f, 0)
  BY StandsInConcat
<1>4. CASE query = <<>>
  <2>1. f = name
    BY <1>4
  <2>2. Find(f, "?", 0) = npos
    <3>1. \A q \in 0..Len(f) - 1 : f[q + 1] # "?"
      BY <1>2, <2>1
    <3> QED BY <1>2, <3>1, FindNone
  <2>3. npos \in Nat /\ npos > 0 /\ Len(f) <= npos
    BY <1>2, SizeTAssumption DEF npos
  <2>4. Substr(f, 0, npos) = SubSeq(f, 1, Len(f))
    <3>1. PICK m : m = Min({npos, Len(f)})
      OBVIOUS
    <3>2. m \in {npos, Len(f)} /\ m <= npos /\ m <= Len(f)
      <4>1. {npos, Len(f)} \in SUBSET Nat
        BY <1>2, <2>3
      <4> QED BY <3>1, <4>1, LeastOf
    <3>3. m = Len(f)
      <4>1. PICK l \in Nat, e \in Nat : l = Len(f) /\ e = npos /\ l <= e
        BY <1>2, <2>3
      <4>2. m \in {e, l} /\ m <= e /\ m <= l
        BY <3>2, <4>1
      <4>3. m = l
        BY ONLY <4>1, <4>2
      <4> QED BY <4>1, <4>3
    <3>4. 0 + npos = npos /\ 0 + 1 = 1
      BY <2>3
    <3> QED BY <3>1, <3>3, <3>4 DEF Substr
  <2>5. SubSeq(f, 1, Len(f)) = f
    BY <1>1
  <2> QED BY <2>1, <2>2, <2>3, <2>4, <2>5 DEF CutQuery
<1>5. CASE query # <<>>
  <2>1. Find(f, "?", 0) = Len(name)
    <3>1. \A q \in 0..Len(name) - 1 : f[q + 1] # "?"
      BY <1>2, <1>3 DEF Stands
    <3>2. Stands(query, f, Len(name))
      BY StandsInConcat
    <3>3. Len(name) < Len(f) /\ f[Len(name) + 1] = "?"
      BY <1>1, <1>2, <1>5, <3>2 DEF Stands
    <3>4. PICK n \in Nat : n = Len(name)
      BY <1>2
    <3>5. 0 \in Nat /\ 0 <= n /\ n < Len(f) /\ f[n + 1] = "?"
      BY <3>3, <3>4
    <3>6. \A q \in 0..(n - 1) : f[q + 1] # "?"
      BY <3>1, <3>4
    <3>7. Find(f, "?", 0) = n
      BY <1>2, <3>5, <3>6, FindAt
    <3> QED BY <3>4, <3>7
  <2>2. Substr(f, 0, Len(name)) = name
    BY <1>1, <1>3, SubstrIs
  <2>3. Len(name) > 0
    BY <1>2
  <2> QED BY <2>1, <2>2, <2>3 DEF CutQuery
<1> QED BY <1>4, <1>5

-----------------------------------------------------------------------------
(* A request.                                                              *)

\* What is behind the request line before header k + 1.
Before(r, k) == FlattenSeq(SubSeq(HeaderTexts(r), 1, k))

\* The parts of a request, and what is in none of them.
LEMMA RequestParts ==
  ASSUME NEW r, WellFormed(r)
  PROVE  /\ r.method \in Letters /\ r.method # "SP" /\ r.method # "CR"
         /\ r.name \in Seq(Letters) /\ r.query \in Seq(Letters)
         /\ r.body \in Seq(Letters)
         /\ \A i \in 1..Len(r.name) : r.name[i] \notin {"SP", "CR", "?"}
         /\ \A i \in 1..Len(r.query) : r.query[i] \notin {"SP", "CR"}
         /\ r.query # <<>> => r.query[1] = "?"
         /\ r.headers \in Seq(HeaderParts)
         /\ Len(Text(r)) < SizeT
<1>1. /\ r.method \in STRING \ {"SP", "CR"}
      /\ r.name \in Seq(STRING \ {"SP", "CR", "?"})
      /\ r.query \in Seq(STRING \ {"SP", "CR"})
      /\ r.query # <<>> => Head(r.query) = "?"
      /\ r.headers \in Seq(HeaderParts) /\ r.body \in Seq(STRING)
      /\ Len(Text(r)) < SizeT
  BY DEF WellFormed
<1>2. STRING \subseteq Letters
  BY DEF Letters
<1>3. /\ STRING \ {"SP", "CR"} \subseteq Letters
      /\ STRING \ {"SP", "CR", "?"} \subseteq Letters
  BY <1>2
<1>4. /\ r.name \in Seq(Letters) /\ r.query \in Seq(Letters)
      /\ r.body \in Seq(Letters)
  BY <1>1, <1>2, <1>3, SeqWithin
<1>5. /\ \A i \in 1..Len(r.name) : r.name[i] \in STRING \ {"SP", "CR", "?"}
      /\ \A i \in 1..Len(r.query) : r.query[i] \in STRING \ {"SP", "CR"}
  BY <1>1, SymbolsIn
<1>6. r.query # <<>> => r.query[1] = "?"
  <2>1. PICK u \in Seq(Letters) : u = r.query
    BY <1>4
  <2>2. Head(u) = u[1]
    OBVIOUS
  <2> QED BY <1>1, <2>1, <2>2
<1> QED BY <1>1, <1>2, <1>4, <1>5, <1>6

LEMMA HeaderTextsType ==
  ASSUME NEW r, r.headers \in Seq(HeaderParts)
  PROVE  /\ HeaderTexts(r) \in Seq(Seq(Letters))
         /\ Len(HeaderTexts(r)) = Len(r.headers) /\ Len(r.headers) \in Nat
         /\ FlattenSeq(HeaderTexts(r)) \in Seq(Letters)
<1>1. PICK hs \in Seq(HeaderParts) : hs = r.headers
  OBVIOUS
<1>2. \A k \in 1..Len(hs) : HeaderText(hs[k]) \in Seq(Letters)
  BY HeaderTextType
<1>3. HeaderTexts(r) = [k \in 1..Len(hs) |-> HeaderText(hs[k])]
  BY <1>1 DEF HeaderTexts
<1>4. HeaderTexts(r) \in Seq(Seq(Letters)) /\ Len(HeaderTexts(r)) = Len(hs)
  BY <1>2, <1>3
<1> QED BY <1>1, <1>4, FlattenType

\* A request's text is its line, an end of line, and the rest.
LEMMA TextParts ==
  ASSUME NEW r, WellFormed(r)
  PROVE  /\ LineText(r) \in Seq(Letters) /\ BehindText(r) \in Seq(Letters)
         /\ Text(r) = (LineText(r) \o <<"CR", "LF">>) \o BehindText(r)
         /\ Text(r) \in Seq(Letters)
<1>1. PICK n \in Seq(Letters), q \in Seq(Letters), b \in Seq(Letters),
           e \in Seq(Letters), m \in Seq(Letters), h \in Seq(Letters) :
        /\ n = r.name /\ q = r.query /\ b = r.body /\ e = <<"CR", "LF">>
        /\ m = <<r.method, "SP", "/">> /\ h = <<"SP", "HTTP", "/">>
  <2>1. <<r.method, "SP", "/">> \in Seq(Letters)
    <3>1. r.method \in Letters /\ "SP" \in Letters /\ "/" \in Letters
      BY RequestParts DEF Letters
    <3> QED BY <3>1
  <2> QED BY <2>1, RequestParts, Punctuation
<1>2. PICK v \in Seq(Letters), hs \in Seq(Letters) :
        v = Version /\ hs = FlattenSeq(HeaderTexts(r))
  BY RequestParts, HeaderTextsType, Punctuation
<1>3. PICK l \in Seq(Letters) : l = (((m \o n) \o q) \o h) \o v
  BY ConcatSize
<1>4. LineText(r) = l
  BY <1>1, <1>2, <1>3 DEF LineText
<1>5. BehindText(r) = (hs \o e) \o b /\ BehindText(r) \in Seq(Letters)
  BY <1>1, <1>2 DEF BehindText
<1>6. Text(r) = (l \o e) \o BehindText(r)
  BY <1>1, <1>4 DEF Text
<1>7. l \o e \in Seq(Letters)
  BY ConcatSize
<1>8. Text(r) \in Seq(Letters)
  <2> HIDE DEF BehindText
  <2> QED BY <1>5, <1>6, <1>7, ConcatSize
<1> QED BY <1>1, <1>4, <1>5, <1>6, <1>8

\* Where the parts of a request line stand.
LEMMA LinePlaces ==
  ASSUME NEW r, WellFormed(r), NEW s, s = LineText(r)
  PROVE  \E q \in Nat :
           /\ q = Len(r.name) + Len(r.query) /\ Len(s) = q + 9
           /\ Stands(<<r.method, "SP", "/">>, s, 0)
           /\ Stands(r.name \o r.query, s, 3)
           /\ Stands(<<"SP", "HTTP", "/">>, s, q + 3)
           /\ Stands(Version, s, q + 6)
<1>1. PICK n \in Seq(Letters), y \in Seq(Letters),
           m \in Seq(Letters), h \in Seq(Letters), v \in Seq(Letters) :
        /\ n = r.name /\ y = r.query /\ v = Version
        /\ m = <<r.method, "SP", "/">> /\ h = <<"SP", "HTTP", "/">>
        /\ Len(m) = 3 /\ Len(h) = 3 /\ Len(v) = 3
  <2>1. <<r.method, "SP", "/">> \in Seq(Letters)
    <3>1. r.method \in Letters /\ "SP" \in Letters /\ "/" \in Letters
      BY RequestParts DEF Letters
    <3> QED BY <3>1
  <2>2. /\ Len(<<r.method, "SP", "/">>) = 3 /\ Len(<<"SP", "HTTP", "/">>) = 3
        /\ Len(Version) = 3
    BY DEF Version
  <2> QED BY <2>1, <2>2, RequestParts, Punctuation
<1>2. PICK u \in Seq(Letters) : u = ((m \o n) \o y) \o h
  BY ConcatSize
<1>3. s = u \o v
  BY <1>1, <1>2 DEF LineText
<1>4. s \in Seq(Letters) /\ Len(s) = Len(u) + Len(v) /\ Len(s) \in Nat
  BY <1>3, ConcatSize, LenProperties
<1>5. Stands(u, s, 0) /\ Stands(v, s, Len(u))
  BY <1>3, StandsInConcat
<1>6. PICK z \in Nat : z = 0
  OBVIOUS
<1>7. /\ Stands(m, s, z) /\ Stands(n, s, z + Len(m))
      /\ Stands(y, s, z + Len(m) + Len(n))
      /\ Stands(h, s, z + Len(m) + Len(n) + Len(y))
      /\ Len(u) = Len(m) + Len(n) + Len(y) + Len(h)
  <2>1. Stands(((m \o n) \o y) \o h, s, z) /\ Len(s) \in Nat
    BY <1>2, <1>4, <1>5, <1>6
  <2> QED BY <1>2, <2>1, FourStand
<1>8. PICK nn \in Nat, ny \in Nat : nn = Len(n) /\ ny = Len(y)
  OBVIOUS
<1>9. PICK q \in Nat : q = nn + ny
  OBVIOUS
<1>10. /\ z + Len(m) = 3 /\ z + Len(m) + Len(n) = 3 + Len(n)
       /\ z + Len(m) + Len(n) + Len(y) = q + 3
       /\ Len(u) = q + 6 /\ Len(s) = q + 9
  <2>1. /\ Len(m) = 3 /\ Len(n) = nn /\ Len(y) = ny /\ Len(h) = 3 /\ Len(v) = 3
        /\ z = 0
    BY <1>1, <1>6, <1>8
  <2>2. Len(u) = 3 + nn + ny + 3 /\ Len(s) = Len(u) + 3
    BY <1>4, <1>7, <2>1
  <2>3. nn \in Nat /\ ny \in Nat
    OBVIOUS
  <2> QED BY ONLY <1>9, <2>1, <2>2, <2>3
<1>11. Stands(n \o y, s, 3)
  <2>1. Stands(n, s, 3) /\ Stands(y, s, 3 + Len(n))
    BY <1>7, <1>10
  <2> QED BY <1>4, <2>1, StandTogether
<1>12. /\ q = Len(r.name) + Len(r.query)
       /\ Stands(<<r.method, "SP", "/">>, s, 0)
       /\ Stands(r.name \o r.query, s, 3)
       /\ Stands(<<"SP", "HTTP", "/">>, s, q + 3)
       /\ Stands(Version, s, q + 6)
  BY <1>1, <1>5, <1>6, <1>7, <1>8, <1>9, <1>10, <1>11
<1> QED BY <1>10, <1>12

\* There is always a blank line.
LEMMA BehindNotEmpty ==
  ASSUME NEW r, WellFormed(r) PROVE Len(BehindText(r)) > 0
<1>1. PICK b \in Seq(Letters), e \in Seq(Letters), f \in Seq(Letters) :
        b = r.body /\ e = <<"CR", "LF">> /\ f = FlattenSeq(HeaderTexts(r))
  BY RequestParts, HeaderTextsType, Punctuation
<1>2. Len(e) = 2
  BY <1>1
<1>3. Len(f \o e) = Len(f) + Len(e) /\ f \o e \in Seq(Letters)
  BY ConcatSize
<1>4. Len((f \o e) \o b) = Len(f) + 2 + Len(b)
  BY <1>2, <1>3, ConcatSize
<1>5. Len(f) \in Nat /\ Len(b) \in Nat
  OBVIOUS
<1>6. Len(f) + 2 + Len(b) > 0
  BY <1>5
<1>7. BehindText(r) = (f \o e) \o b
  BY <1>1 DEF BehindText
<1> QED BY <1>4, <1>6, <1>7

\* A request line is laid out as the parser wants it.
LEMMA LineIsLaid ==
  ASSUME NEW r, WellFormed(r), NEW s, s = LineText(r),
         NEW q \in Nat, q = Len(r.name) + Len(r.query), Len(s) = q + 9,
         Stands(<<r.method, "SP", "/">>, s, 0), Stands(r.name \o r.query, s, 3),
         Stands(<<"SP", "HTTP", "/">>, s, q + 3), Stands(Version, s, q + 6)
  PROVE  LineLaid(s, q)
<1>1. /\ s[1] = r.method /\ s[2] = "SP" /\ s[3] = "/"
      /\ s[q + 4] = "SP" /\ s[q + 5] = "HTTP" /\ s[q + 6] = "/"
  <2>1. PICK m, h : m = <<r.method, "SP", "/">> /\ h = <<"SP", "HTTP", "/">>
    OBVIOUS
  <2>2. /\ Len(m) = 3 /\ m[1] = r.method /\ m[2] = "SP" /\ m[3] = "/"
        /\ Len(h) = 3 /\ h[1] = "SP" /\ h[2] = "HTTP" /\ h[3] = "/"
    BY <2>1
  <2>3. 1 \in 1..3 /\ 2 \in 1..3 /\ 3 \in 1..3
    OBVIOUS
  <2>4. /\ s[0 + 1] = m[1] /\ s[0 + 2] = m[2] /\ s[0 + 3] = m[3]
        /\ s[q + 3 + 1] = h[1] /\ s[q + 3 + 2] = h[2] /\ s[q + 3 + 3] = h[3]
    BY <2>1, <2>2, <2>3 DEF Stands
  <2>5. /\ 0 + 1 = 1 /\ 0 + 2 = 2 /\ 0 + 3 = 3
        /\ q + 3 + 1 = q + 4 /\ q + 3 + 2 = q + 5 /\ q + 3 + 3 = q + 6
    BY ONLY q \in Nat
  <2> QED BY ONLY <2>2, <2>4, <2>5
<1>2. s[q + 7] = "1" /\ s[q + 8] = "." /\ s[q + 9] = "1"
  <2>1. PICK v : v = Version
    OBVIOUS
  <2>2. Len(v) = 3 /\ v[1] = "1" /\ v[2] = "." /\ v[3] = "1"
    BY <2>1 DEF Version
  <2>3. 1 \in 1..3 /\ 2 \in 1..3 /\ 3 \in 1..3
    OBVIOUS
  <2>4. s[q + 6 + 1] = v[1] /\ s[q + 6 + 2] = v[2] /\ s[q + 6 + 3] = v[3]
    BY <2>1, <2>2, <2>3 DEF Stands
  <2>5. q + 6 + 1 = q + 7 /\ q + 6 + 2 = q + 8 /\ q + 6 + 3 = q + 9
    BY ONLY q \in Nat
  <2> QED BY ONLY <2>2, <2>4, <2>5
<1>3. ASSUME NEW i \in 4..q + 3 PROVE s[i] # "SP" /\ s[i] # "CR"
  <2>1. PICK f \in Seq(Letters) : f = r.name \o r.query
    BY RequestParts, ConcatSize
  <2>2. Len(f) = q /\ Stands(f, s, 3)
    BY <2>1, RequestParts, ConcatSize
  <2>3. PICK j \in 1..q : i = 3 + j
    <3>1. i - 3 \in 1..q /\ i = 3 + (i - 3)
      BY ONLY q \in Nat, i \in 4..q + 3
    <3> QED BY <3>1
  <2>4. s[3 + j] = f[j]
    BY <2>2 DEF Stands
  <2>5. f[j] # "SP" /\ f[j] # "CR"
    <3>1. PICK n \in Seq(Letters), y \in Seq(Letters) : n = r.name /\ y = r.query
      BY RequestParts
    <3>2. /\ \A k \in 1..Len(n) : n[k] # "SP" /\ n[k] # "CR"
          /\ \A k \in 1..Len(y) : y[k] # "SP" /\ y[k] # "CR"
      BY <3>1, RequestParts
    <3>3. f[j] = IF j <= Len(n) THEN n[j] ELSE y[j - Len(n)]
      BY <2>1, <2>2, <3>1, ConcatProperties
    <3>4. Len(n) \in Nat /\ Len(y) \in Nat /\ q = Len(n) + Len(y)
      BY <3>1
    <3>5. CASE j <= Len(n)
      BY <3>2, <3>3, <3>4, <3>5
    <3>6. CASE ~(j <= Len(n))
      <4>1. j - Len(n) \in 1..Len(y)
        BY ONLY j \in 1..q, <3>4, <3>6
      <4> QED BY <3>2, <3>3, <3>6, <4>1
    <3> QED BY <3>5, <3>6
  <2> QED BY <2>3, <2>4, <2>5
<1>4. r.method # "SP" /\ r.method # "CR"
  BY RequestParts
<1>5. ASSUME NEW i \in 1..q + 9 PROVE s[i] # "CR"
  <2>1. \/ i \in 4..q + 3
        \/ i = 1 \/ i = 2 \/ i = 3 \/ i = q + 4 \/ i = q + 5 \/ i = q + 6
        \/ i = q + 7 \/ i = q + 8 \/ i = q + 9
    BY ONLY q \in Nat, i \in 1..q + 9
  <2> QED BY <1>1, <1>2, <1>3, <1>4, <2>1
<1> QED BY <1>1, <1>3, <1>4, <1>5 DEF LineLaid

\* The request line is what is before the first "\r", the rest what is
\* behind the line's end.
LEMMA TextSplit ==
  ASSUME NEW r, WellFormed(r), NEW s, s = Text(r)
  PROVE  RequestLine(s) = LineText(r) /\ BehindLine(s) = BehindText(r)
<1>1. PICK l \in Seq(Letters), b \in Seq(Letters) :
        l = LineText(r) /\ b = BehindText(r)
  BY TextParts
<1>2. PICK q \in Nat : Len(l) = q + 9 /\ LineLaid(l, q)
  <2>1. PICK q \in Nat :
           /\ q = Len(r.name) + Len(r.query) /\ Len(l) = q + 9
           /\ Stands(<<r.method, "SP", "/">>, l, 0)
           /\ Stands(r.name \o r.query, l, 3)
           /\ Stands(<<"SP", "HTTP", "/">>, l, q + 3)
           /\ Stands(Version, l, q + 6)
    BY <1>1, LinePlaces
  <2>2. LineLaid(l, q)
    BY <1>1, <2>1, LineIsLaid
  <2> QED BY <2>1, <2>2
<1>3. PICK e \in Seq(Letters) : e = <<"CR", "LF">> /\ Len(e) = 2 /\ e[1] = "CR"
  <2>1. Len(<<"CR", "LF">>) = 2 /\ <<"CR", "LF">>[1] = "CR"
    OBVIOUS
  <2> QED BY <2>1, Punctuation
<1>4. PICK le \in Seq(Letters) : le = l \o e
  BY ConcatSize
<1>5. s = le \o b /\ s \in Seq(Letters) /\ Len(s) < SizeT
  BY <1>1, <1>3, <1>4, TextParts, RequestParts
<1>6. PICK n \in Nat, m \in Nat, d \in Nat : n = Len(l) /\ m = Len(s) /\ d = Len(b)
  BY <1>5, LenProperties
<1>7. Len(le) = n + 2 /\ m = n + 2 + d
  BY <1>3, <1>4, <1>5, <1>6, ConcatSize
<1>8. /\ Stands(le, s, 0) /\ Stands(b, s, Len(le))
  BY <1>5, StandsInConcat
<1>9. Stands(l, s, 0) /\ Stands(e, s, n)
  <2>1. /\ Stands(l, le, 0) /\ Stands(e, le, n)
    BY <1>4, <1>6, StandsInConcat
  <2>2. /\ \A i \in 1..n + 2 : s[i] = le[i]
        /\ \A i \in 1..n : le[i] = l[i]
        /\ \A i \in 1..2 : le[n + i] = e[i]
    BY <1>3, <1>6, <1>7, <1>8, <2>1 DEF Stands
  <2>3. \A i \in 1..n : s[i] = l[i]
    BY <2>2
  <2>4. \A i \in 1..2 : s[n + i] = e[i]
    BY <2>2
  <2> QED BY <1>3, <1>6, <1>7, <2>3, <2>4 DEF Stands
<1>10. Find(s, "CR", 0) = n
  <2>1. \A i \in 1..n : s[i] # "CR"
    <3>1. \A i \in 1..n : s[i] = l[i] /\ l[i] # "CR"
      BY <1>2, <1>6, <1>9 DEF Stands, LineLaid
    <3> QED BY <3>1
  <2>2. \A p \in 0..(n - 1) : s[p + 1] # "CR"
    BY <2>1
  <2>3. s[n + 1] = "CR"
    BY <1>3, <1>9 DEF Stands
  <2>4. Len(s) \in Nat /\ 0 \in Nat /\ 0 <= n /\ n < Len(s)
    BY <1>6, <1>7
  <2> QED BY <2>2, <2>3, <2>4, FindAt
<1>11. RequestLine(s) = l
  <2>1. Substr(s, 0, n) = l
    BY <1>5, <1>6, <1>9, SubstrIs
  <2> QED BY <1>10, <2>1 DEF RequestLine
<1>12. BehindLine(s) = b
  <2>1. PICK p \in Nat : p = n + 2
    OBVIOUS
  <2>2. Plus(n, 2) = p
    BY <1>5, <1>6, <1>7, <2>1, PlusExact, SizeTAssumption
  <2>3. p + d = Len(s) /\ Len(s) > p
    <3>1. Len(s) = p + d
      BY <1>6, <1>7, <2>1
    <3>2. d > 0
      BY <1>1, <1>6, BehindNotEmpty
    <3> QED BY <3>1, <3>2
  <2>4. Stands(b, s, p)
    BY <1>7, <1>8, <2>1
  <2>5. SubSeq(s, p + 1, p + d) = b
    BY <1>5, <1>6, <2>4, StandsIsSubSeq
  <2>6. Substr(s, p, Len(s)) = SubSeq(s, p + 1, Len(s))
    <3>1. PICK k : k = Min({p + m, m})
      OBVIOUS
    <3>2. k \in {p + m, m} /\ k <= m
      <4>1. {p + m, m} \in SUBSET Nat
        OBVIOUS
      <4> QED BY <3>1, <4>1, LeastOf
    <3>3. k = m
      BY <3>2
    <3> QED BY <1>6, <3>1, <3>3 DEF Substr
  <2> QED BY <1>10, <2>2, <2>3, <2>5, <2>6 DEF BehindLine
<1> QED BY <1>1, <1>11, <1>12

\* Both are short enough for size_t.
LEMMA PartsFit ==
  ASSUME NEW r, WellFormed(r)
  PROVE  /\ Len(LineText(r)) \in Nat /\ Len(LineText(r)) < SizeT
         /\ Len(BehindText(r)) < SizeT
<1>1. PICK l \in Seq(Letters), b \in Seq(Letters), e \in Seq(Letters) :
        l = LineText(r) /\ b = BehindText(r) /\ e = <<"CR", "LF">>
  BY TextParts, Punctuation
<1>2. Len(l \o e) = Len(l) + Len(e) /\ l \o e \in Seq(Letters)
  BY ConcatSize
<1>3. Len((l \o e) \o b) = Len(l) + Len(e) + Len(b)
  BY <1>2, ConcatSize
<1>4. Text(r) = (l \o e) \o b
  BY <1>1, TextParts
<1>5. Len(l) \in Nat /\ Len(e) \in Nat /\ Len(b) \in Nat
  OBVIOUS
<1>6. Len(l) + Len(e) + Len(b) < SizeT
  BY <1>3, <1>4, RequestParts
<1>7. Len(l) < SizeT /\ Len(b) < SizeT
  BY <1>5, <1>6, SizeTAssumption
<1> QED BY <1>1, <1>5, <1>7

\* A directory stands for its index.html.
LEMMA IndexAdded ==
  ASSUME NEW r, r.name \in Seq(Letters), r.name # <<>>
  PROVE  AddIndex(r.name) = {FileAsked(r)}
BY DEF AddIndex, FileAsked, Last

\* The method, the file and the version are read as they were sent.
LEMMA LineParsed ==
  ASSUME NEW r, WellFormed(r), NEW line, line = LineText(r),
         NEW method, method = Method(line),
         NEW front, front = FileFront(line, method),
         NEW tail, tail = FileTail(line, front)
  PROVE  /\ Substr(line, 0, method) = <<r.method>>
         /\ r.name # <<>> \/ r.query = <<>> =>
              (IF HasFile(front, tail)
               THEN AddIndex(CutQuery(FileText(line, front, tail))) ELSE {Index})
                = {FileAsked(r)}
         /\ VersionText(line, tail) = Version
<1>1. PICK q \in Nat :
           /\ q = Len(r.name) + Len(r.query) /\ Len(line) = q + 9
           /\ Stands(<<r.method, "SP", "/">>, line, 0)
           /\ Stands(r.name \o r.query, line, 3)
           /\ Stands(<<"SP", "HTTP", "/">>, line, q + 3)
           /\ Stands(Version, line, q + 6)
  BY LinePlaces
<1>2. LineLaid(line, q)
  BY <1>1, LineIsLaid
<1>3. q + 9 < SizeT
  BY <1>1, PartsFit
<1>4. method = 1 /\ front = 2 /\ tail = q + 3 /\ Find(line, "/", q + 3) = q + 5
  BY <1>2, <1>3, LineScanned
<1>5. line \in Seq(Letters)
  BY TextParts
<1>6. Substr(line, 0, method) = <<r.method>>
  <2>1. PICK m \in Seq(Letters) : m = <<r.method>>
    <3>1. r.method \in Letters
      BY RequestParts
    <3>2. <<r.method>> \in Seq(Letters)
      BY <3>1
    <3> QED BY <3>2
  <2>2. Len(m) = 1 /\ m[1] = r.method
    BY <2>1
  <2>3. line[1] = r.method
    <3>1. PICK t : t = <<r.method, "SP", "/">>
      OBVIOUS
    <3>2. Len(t) = 3 /\ t[1] = r.method /\ 1 \in 1..3 /\ 0 + 1 = 1
      BY <3>1
    <3>3. line[0 + 1] = t[1]
      BY <1>1, <3>1, <3>2 DEF Stands
    <3> QED BY <3>2, <3>3
  <2>4. Stands(m, line, 0)
    <3>1. 0 + Len(m) <= Len(line)
      <4>1. Len(line) = q + 9 /\ Len(m) = 1
        BY <1>1, <2>2
      <4> QED BY ONLY q \in Nat, <4>1
    <3>2. ASSUME NEW i \in 1..Len(m) PROVE line[0 + i] = m[i]
      <4>1. i = 1 /\ 0 + i = 1
        BY <2>2
      <4> QED BY <2>2, <2>3, <4>1
    <3> QED BY <3>1, <3>2 DEF Stands
  <2>5. Substr(line, 0, 1) = m
    BY <1>5, <2>2, <2>4, SubstrIs
  <2> QED BY <1>4, <2>1, <2>5
<1>7. VersionText(line, tail) = Version
  <2>1. PICK v \in Seq(Letters), p \in Nat : v = Version /\ p = q + 6
    BY Punctuation
  <2>2. Len(v) = 3
    BY <2>1 DEF Version
  <2>3. Plus(q + 5, 1) = p
    <3>1. q + 5 + 1 < SizeT /\ q + 5 + 1 = p /\ q + 5 \in Nat
      BY <1>3, <2>1, SizeTAssumption
    <3> QED BY <3>1, PlusExact
  <2>4. Stands(v, line, p)
    BY <1>1, <2>1
  <2>5. Substr(line, p, 3) = v
    BY <1>5, <2>2, <2>4, SubstrIs
  <2> QED BY <1>4, <2>1, <2>3, <2>5 DEF VersionText
<1>8. ASSUME r.name # <<>> \/ r.query = <<>>
      PROVE  (IF HasFile(front, tail)
              THEN AddIndex(CutQuery(FileText(line, front, tail))) ELSE {Index})
               = {FileAsked(r)}
  <2>1. PICK n \in Seq(Letters), y \in Seq(Letters), f \in Seq(Letters) :
          n = r.name /\ y = r.query /\ f = r.name \o r.query
    BY RequestParts, ConcatSize
  <2>2. Len(n) \in Nat /\ Len(y) \in Nat /\ q = Len(n) + Len(y) /\ Len(f) = q
    BY <1>1, <2>1, ConcatSize
  <2>3. Minus(tail, front) = q + 1
    <3>1. q + 3 \in Nat /\ 2 \in Nat /\ 2 <= q + 3 /\ q + 3 < SizeT
          /\ q + 3 - 2 = q + 1
      BY <1>3, SizeTAssumption
    <3>2. Minus(q + 3, 2) = q + 3 - 2
      BY <3>1, MinusExact
    <3> QED BY <1>4, <3>1, <3>2
  <2>4. CASE n = <<>>
    <3>1. y = <<>> /\ q = 0
      BY <1>8, <2>1, <2>2, <2>4
    <3>2. ~HasFile(front, tail)
      BY <2>3, <3>1 DEF HasFile
    <3>3. FileAsked(r) = <<>> \o Index /\ <<>> \o Index = Index
      BY <2>1, <2>4 DEF FileAsked, Index
    <3> QED BY <3>2, <3>3
  <2>5. CASE n # <<>>
    <3>1. q > 0 /\ q + 1 > 1
      BY <2>2, <2>5
    <3>2. HasFile(front, tail)
      BY <2>3, <3>1 DEF HasFile
    <3>3. FileText(line, front, tail) = f
      <4>1. FileText(line, front, tail) = Substr(line, 2 + 1, q + 1 - 1)
        BY <1>4, <2>3 DEF FileText
      <4>2. 2 + 1 = 3 /\ q + 1 - 1 = q
        OBVIOUS
      <4>3. Substr(line, 3, q) = f
        <5>1. Stands(f, line, 3) /\ q = Len(f)
          BY <1>1, <2>1, <2>2
        <5>2. PICK p \in Nat : p = 3
          OBVIOUS
        <5>3. Substr(line, p, q) = f
          BY <1>5, <5>1, <5>2, SubstrIs
        <5> QED BY <5>2, <5>3
      <4> QED BY <4>1, <4>2, <4>3
    <3>4. CutQuery(f) = n
      <4>1. /\ \A i \in 1..Len(n) : n[i] # "?"
            /\ y # <<>> => y[1] = "?"
        BY <2>1, RequestParts
      <4>2. f = n \o y
        BY <2>1
      <4>3. Len(f) < SizeT
        <5>1. q < SizeT
          BY ONLY q \in Nat, <1>3, SizeTAssumption
        <5> QED BY <2>2, <5>1
      <4> QED BY <2>5, <4>1, <4>2, <4>3, QueryCut
    <3>5. AddIndex(n) = {FileAsked(r)}
      BY <2>1, <2>5, IndexAdded
    <3> QED BY <3>2, <3>3, <3>4, <3>5
  <2> QED BY <2>4, <2>5
<1> QED BY <1>6, <1>7, <1>8

\* Nothing is before the first header.
LEMMA BeforeNone ==
  ASSUME NEW r PROVE Len(Before(r, 0)) = 0
<1>1. SubSeq(HeaderTexts(r), 1, 0) = <<>>
  BY SubSeqEmpty
<1>2. Len(<<>>) = 0
  OBVIOUS
<1> QED BY <1>1, <1>2, FlattenNone DEF Before

LEMMA BeforeType ==
  ASSUME NEW r, WellFormed(r), NEW k \in 0..Len(r.headers)
  PROVE  Before(r, k) \in Seq(Letters) /\ Len(Before(r, k)) \in Nat
<1>1. PICK hs \in Seq(Seq(Letters)) : hs = HeaderTexts(r) /\ Len(hs) = Len(r.headers)
  BY RequestParts, HeaderTextsType
<1>2. SubSeq(hs, 1, k) \in Seq(Seq(Letters))
  BY <1>1
<1>3. FlattenSeq(SubSeq(hs, 1, k)) \in Seq(Letters)
  BY <1>2, FlattenType
<1> QED BY <1>1, <1>3 DEF Before

\* Behind the headers before it stands the next, and behind all of them
\* their end.
LEMMA NextHeader ==
  ASSUME NEW r, WellFormed(r), NEW k \in 0..Len(r.headers), k < Len(r.headers)
  PROVE  /\ Stands(HeaderText(r.headers[k + 1]), BehindText(r), Len(Before(r, k)))
         /\ Len(Before(r, k + 1)) =
              Len(Before(r, k)) + Len(HeaderText(r.headers[k + 1]))
<1>1. PICK hs \in Seq(Seq(Letters)), n \in Nat :
        hs = HeaderTexts(r) /\ n = Len(hs) /\ n = Len(r.headers)
  BY RequestParts, HeaderTextsType
<1>2. PICK m \in 1..n : m = k + 1
  BY <1>1
<1>3. PICK h \in Seq(Letters) : h = hs[m] /\ h = HeaderText(r.headers[m])
  <2>1. hs[m] \in Seq(Letters)
    BY <1>1, ElementOfSeq
  <2>2. hs[m] = HeaderText(r.headers[m])
    BY <1>1 DEF HeaderTexts
  <2> QED BY <2>1, <2>2
<1>4. PICK ss \in Seq(Seq(Letters)), tt \in Seq(Seq(Letters)), uu \in Seq(Seq(Letters)) :
        ss = SubSeq(hs, 1, k) /\ tt = SubSeq(hs, 1, m) /\ uu = SubSeq(hs, m + 1, n)
  <2>1. k \in 0..Len(hs) /\ m \in 0..Len(hs) /\ n \in 0..Len(hs) /\ m + 1 \in Nat \ {0}
    BY <1>1
  <2>2. SubSeq(hs, 1, k) \in Seq(Seq(Letters))
    BY <2>1, SubSeqIn
  <2>3. SubSeq(hs, 1, m) \in Seq(Seq(Letters))
    BY <2>1, SubSeqIn
  <2>4. SubSeq(hs, m + 1, n) \in Seq(Seq(Letters))
    BY <2>1, SubSeqIn
  <2> QED BY <2>2, <2>3, <2>4
<1>5. tt = Append(ss, h) /\ hs = tt \o uu
  <2>1. SubSeq(hs, 1, m) = Append(SubSeq(hs, 1, k), hs[m])
    BY <1>1, <1>2
  <2>2. hs = SubSeq(hs, 1, m) \o SubSeq(hs, m + 1, n)
    <3>1. 1 \in 1..Len(hs) + 1 /\ m \in 1 - 1..Len(hs) /\ n \in m..Len(hs)
      BY <1>1
    <3>2. SubSeq(hs, 1, m) \o SubSeq(hs, m + 1, n) = SubSeq(hs, 1, n)
      BY <3>1, ConcatAdjacentSubSeq
    <3>3. SubSeq(hs, 1, n) = hs
      BY <1>1, SubSeqFull
    <3> QED BY <3>2, <3>3
  <2> QED BY <1>3, <1>4, <2>1, <2>2
<1>6. PICK a \in Seq(Letters), c \in Seq(Letters), e \in Seq(Letters), d \in Seq(Letters) :
        a = FlattenSeq(ss) /\ c = FlattenSeq(uu) /\ e = <<"CR", "LF">> /\ d = r.body
  BY FlattenType, RequestParts, Punctuation
<1>7. FlattenSeq(tt) = a \o h /\ FlattenSeq(hs) = (a \o h) \o c
  <2>1. FlattenSeq(Append(ss, h)) = FlattenSeq(ss) \o h
    BY FlattenAppend
  <2>2. FlattenSeq(tt \o uu) = FlattenSeq(tt) \o FlattenSeq(uu)
    BY FlattenConcat
  <2> QED BY <1>5, <1>6, <2>1, <2>2
<1>8. a = Before(r, k) /\ a \o h = Before(r, k + 1)
  BY <1>1, <1>2, <1>4, <1>6, <1>7 DEF Before
<1>9. PICK u \in Seq(Letters) : u = ((a \o h) \o c) \o e
  BY ConcatSize
<1>10. BehindText(r) = u \o d /\ BehindText(r) \in Seq(Letters)
  BY <1>1, <1>6, <1>7, <1>9, ConcatSize DEF BehindText
<1>11. PICK z \in Nat : z = 0
  OBVIOUS
<1>12. Stands(u, BehindText(r), z)
  BY <1>10, <1>11, StandsInConcat
<1>13. Stands(h, BehindText(r), z + Len(a))
  <2>1. Len(BehindText(r)) \in Nat
    BY <1>10
  <2> QED BY <1>9, <1>12, <2>1, FourStand
<1>14. Len(a \o h) = Len(a) + Len(h) /\ Len(a) \in Nat
  BY ConcatSize
<1>15. z + Len(a) = Len(a)
  BY <1>11, <1>14
<1> QED BY <1>2, <1>3, <1>8, <1>13, <1>14, <1>15

\* Behind the last header the loop comes to its end.
LEMMA HeadersAtEnd ==
  ASSUME NEW r, WellFormed(r)
  PROVE  HeadersEnd(BehindText(r), Len(Before(r, Len(r.headers))))
<1>1. PICK hs \in Seq(Seq(Letters)) : hs = HeaderTexts(r) /\ Len(hs) = Len(r.headers)
  BY RequestParts, HeaderTextsType
<1>2. SubSeq(hs, 1, Len(hs)) = hs
  OBVIOUS
<1>3. PICK f \in Seq(Letters), e \in Seq(Letters), b \in Seq(Letters) :
        f = FlattenSeq(hs) /\ e = <<"CR", "LF">> /\ b = r.body
  BY FlattenType, RequestParts, Punctuation
<1>4. Before(r, Len(r.headers)) = f
  BY <1>1, <1>2, <1>3 DEF Before
<1>5. PICK u \in Seq(Letters) : u = f \o e
  BY ConcatSize
<1>6. PICK s \in Seq(Letters) : s = u \o b /\ s = BehindText(r)
  BY <1>1, <1>3, <1>5, ConcatSize DEF BehindText
<1>7. Stands(u, s, 0) /\ Stands(e, u, Len(f))
  BY <1>5, <1>6, StandsInConcat
<1>8. PICK n \in Nat : n = Len(f)
  OBVIOUS
<1>9. Len(e) = 2 /\ e[1] = "CR" /\ e[2] = "LF" /\ 1 \in 1..2 /\ 2 \in 1..2
  BY <1>3
<1>10. Len(u) = n + 2
  BY <1>5, <1>8, <1>9, ConcatSize
<1>11. u[n + 1] = "CR" /\ u[n + 2] = "LF"
  BY <1>7, <1>8, <1>9 DEF Stands
<1>12. s[n + 1] = u[n + 1] /\ s[n + 2] = u[n + 2] /\ n + 2 <= Len(s)
  BY <1>7, <1>10 DEF Stands
<1>13. Len(s) \in Nat
  OBVIOUS
<1>14. HeadersEnd(s, n)
  BY <1>11, <1>12, <1>13 DEF HeadersEnd, At
<1> QED BY <1>4, <1>6, <1>8, <1>14

\* The counterpart of LeastOf.
LEMMA GreatestOf ==
  ASSUME NEW n \in Nat, NEW S \in SUBSET (1..n), S # {}
  PROVE  Max(S) \in S /\ \A y \in S : y <= Max(S)
<1> DEFINE bounds == {m \in Nat : \A y \in S : y <= m}
<1>1. bounds \in SUBSET Nat /\ n \in bounds
  OBVIOUS
<1>2. PICK u \in bounds : \A m \in bounds : u <= m
  BY <1>1, Least
<1>3. u \in S
  <2>1. SUFFICES ASSUME u \notin S PROVE FALSE
    OBVIOUS
  <2>2. PICK y \in S : TRUE
    OBVIOUS
  <2>3. y \in Nat /\ y > 0 /\ y <= u
    BY <1>2
  <2>4. u - 1 \in Nat
    BY <1>2, <2>3
  <2>5. \A z \in S : z <= u - 1
    BY <1>2, <2>1
  <2>6. u - 1 \in bounds
    BY <2>4, <2>5
  <2> QED BY <1>2, <2>4, <2>6
<1>4. \A y \in S : u >= y
  BY <1>2
<1>5. Max(S) \in S /\ \A y \in S : Max(S) >= y
  BY <1>3, <1>4 DEF Max
<1> QED BY <1>5

-----------------------------------------------------------------------------
(* The headers read so far: the keys, and the last value for each.         *)

ReadSoFar(hd, r, k) ==
  /\ DOMAIN hd = {r.headers[j].key : j \in 1..k}
  /\ \A j \in 1..k :
       (\A i \in j + 1..k : r.headers[i].key # r.headers[j].key) =>
         Tail(hd[r.headers[j].key]) = r.headers[j].value

LEMMA NoneRead == ASSUME NEW r PROVE ReadSoFar(<<>>, r, 0)
BY DEF ReadSoFar

\* A header that is read replaces those before it that have its key.
LEMMA OneMoreRead ==
  ASSUME NEW r, NEW k \in Nat, NEW hd, ReadSoFar(hd, r, k),
         NEW key, key = r.headers[k + 1].key,
         NEW v, Tail(v) = r.headers[k + 1].value
  PROVE  ReadSoFar(Assigned(hd, key, v), r, k + 1)
<1>1. PICK g : g = Assigned(hd, key, v)
  OBVIOUS
<1>2. /\ DOMAIN g = {key} \cup DOMAIN hd
      /\ g[key] = v
      /\ \A x \in DOMAIN hd : x # key => g[x] = hd[x]
  BY <1>1 DEF Assigned
<1>3. PICK m \in Nat : m = k + 1
  OBVIOUS
<1>4. 1..m = 1..k \cup {m}
  BY <1>3
<1>5. DOMAIN g = {r.headers[j].key : j \in 1..m}
  BY <1>2, <1>3, <1>4 DEF ReadSoFar
<1>6. ASSUME NEW j \in 1..m,
             \A i \in j + 1..m : r.headers[i].key # r.headers[j].key
      PROVE  Tail(g[r.headers[j].key]) = r.headers[j].value
  <2>1. CASE j = m
    BY <1>2, <1>3, <2>1
  <2>2. CASE j # m
    <3>1. j \in 1..k /\ m \in j + 1..m
      BY <1>3, <2>2
    <3>2. r.headers[j].key # key
      BY <1>3, <1>6, <3>1
    <3>3. r.headers[j].key \in DOMAIN hd
      BY <3>1 DEF ReadSoFar
    <3>4. \A i \in j + 1..k : i \in j + 1..m
      BY <1>3, <3>1
    <3>5. Tail(hd[r.headers[j].key]) = r.headers[j].value
      BY <1>6, <3>1, <3>4 DEF ReadSoFar
    <3> QED BY <1>2, <3>2, <3>3, <3>5
  <2> QED BY <2>1, <2>2
<1>7. ReadSoFar(g, r, m)
  BY <1>5, <1>6 DEF ReadSoFar
<1> QED BY <1>1, <1>3, <1>7

\* In the end, each header has the last of its values.
LastOfEach(hd, r) ==
  /\ DOMAIN hd = {r.headers[k].key : k \in 1..Len(r.headers)}
  /\ \A key \in DOMAIN hd :
       Tail(hd[key]) =
         r.headers[Max({k \in 1..Len(r.headers) : r.headers[k].key = key})].value

LEMMA AllRead ==
  ASSUME NEW r, NEW n \in Nat, n = Len(r.headers), NEW hd, ReadSoFar(hd, r, n)
  PROVE  LastOfEach(hd, r)
<1>1. DOMAIN hd = {r.headers[k].key : k \in 1..n}
  BY DEF ReadSoFar
<1>2. ASSUME NEW key \in DOMAIN hd
      PROVE  Tail(hd[key]) = r.headers[Max({k \in 1..n : r.headers[k].key = key})].value
  <2> DEFINE S == {k \in 1..n : r.headers[k].key = key}
  <2>1. S \in SUBSET (1..n) /\ S # {}
    BY <1>1
  <2>2. PICK j : j = Max(S)
    OBVIOUS
  <2>3. j \in S /\ \A y \in S : y <= j
    BY <2>1, <2>2, GreatestOf
  <2>4. \A i \in j + 1..n : r.headers[i].key # r.headers[j].key
    BY <2>3
  <2> QED BY <2>2, <2>3, <2>4 DEF ReadSoFar
<1> QED BY <1>1, <1>2 DEF LastOfEach

-----------------------------------------------------------------------------
(* What the parser knows of a request that came in one piece.              *)

LineRead ==
  /\ parsed.method = <<request.method>>
  /\ (request.name # <<>> \/ request.query = <<>>) =>
       parsed.filename = FileAsked(request)
  /\ parsed.version = Version

ReadUpTo(k) ==
  /\ pos = Len(Before(request, k)) /\ ReadSoFar(headers, request, k)
  /\ main = "info" => k = Len(request.headers)

Understood ==
  /\ main \notin {"headers", "info", "killed"} => headers = <<>>
  /\ whole /\ main = "parse" => recvBuffer = Text(request)
  /\ whole /\ main \in {"headers", "info"} =>
       /\ LineRead
       /\ recvBuffer = BehindText(request)
       /\ \E k \in 0..Len(request.headers) : ReadUpTo(k)

\* A client sends one request.
LEMMA RequestKept == [Next]_vars => request' = request
BY DEF Next, vars, ServerThread, Main, ParseRequest, HandleWrite, Client, peer,
   Fopen, ReadFails, LoadLine, LoadDone, GetSettings, ServerStart,
   AcceptConnection, SelectConnection, HandleRead, CloseConnection,
   ParseRequestLine, ParseHeader, HeaderOutOfRange, HeadersDone, InfoPrint,
   Stat, OpenFile, Mmap, SendFile, BusError, HandleError,
   Connect, SendRequest, Receive, RecvTimeout, RecvEnd, RecvReset, Arrive,
   FileChanges

\* What the parser takes no part in.
LEMMA ParserIdle ==
  ASSUME Understood, UNCHANGED <<parser, request>>,
         \/ main' = main
         \/ main' = "killed"
         \/ /\ main \notin {"headers", "info", "killed"}
            /\ main' \notin {"parse", "headers", "info"}
  PROVE  Understood'
BY DEF Understood, LineRead, ReadUpTo, parser

\* The request line is taken from the whole request.
LEMMA LineStep ==
  ASSUME KInv, Understood, ParseRequestLine, WellFormed(request) PROVE Understood'
<1>1. /\ main = "parse" /\ main' = "headers" /\ UNCHANGED <<pos, headers, whole, request>>
      /\ pos = 0 /\ headers = <<>>
  BY DEF ParseRequestLine, KInv, Texts, Understood, peer
<1>2. ASSUME whole
      PROVE  LineRead' /\ recvBuffer' = BehindText(request)
  <2>1. recvBuffer = Text(request)
    BY <1>1, <1>2 DEF Understood
  <2>2. /\ RequestLine(recvBuffer) = LineText(request)
        /\ BehindLine(recvBuffer) = BehindText(request)
    BY <2>1, TextSplit
  <2>3. PICK line, method, front, tail, name :
          /\ line = RequestLine(recvBuffer) /\ method = Method(line)
          /\ front = FileFront(line, method) /\ tail = FileTail(line, front)
          /\ name = FileText(line, front, tail)
          /\ \E filename \in IF HasFile(front, tail) THEN AddIndex(CutQuery(name))
                                                    ELSE {Index} :
               parsed' = [method |-> Substr(line, 0, method), filename |-> filename,
                          version |-> VersionText(line, tail)]
    BY DEF ParseRequestLine
  <2>4. line = LineText(request)
    BY <2>2, <2>3
  <2>5. /\ Substr(line, 0, method) = <<request.method>>
        /\ request.name # <<>> \/ request.query = <<>> =>
             (IF HasFile(front, tail)
              THEN AddIndex(CutQuery(FileText(line, front, tail))) ELSE {Index})
               = {FileAsked(request)}
        /\ VersionText(line, tail) = Version
    BY <2>3, <2>4, LineParsed
  <2>6. LineRead'
    BY <1>1, <2>3, <2>5 DEF LineRead
  <2>7. recvBuffer' = BehindText(request)
    BY <2>2 DEF ParseRequestLine
  <2> QED BY <2>6, <2>7
<1>3. ReadUpTo(0)'
  <2>1. pos' = Len(Before(request', 0))
    BY <1>1, BeforeNone
  <2>2. ReadSoFar(headers', request', 0)
    BY <1>1, NoneRead
  <2> QED BY <1>1, <2>1, <2>2 DEF ReadUpTo
<1>4. 0 \in 0..Len(request'.headers)
  BY <1>1, RequestParts
<1> QED BY <1>1, <1>2, <1>3, <1>4 DEF Understood

\* One header more, where the headers before it end.
LEMMA NextHeaderStep ==
  ASSUME Understood, ParseHeader, WellFormed(request) PROVE Understood'
<1>1. /\ main = "headers" /\ UNCHANGED <<main, request, recvBuffer, parsed, whole>>
      /\ ~HeadersEnd(recvBuffer, pos)
  BY DEF ParseHeader, peer
<1>2. CASE ~whole
  BY <1>1, <1>2 DEF Understood
<1>3. CASE whole
  <2>1. PICK k \in 0..Len(request.headers) : ReadUpTo(k)
    BY <1>1, <1>3 DEF Understood
  <2>2. PICK s, h : s = BehindText(request) /\ h = request.headers[k + 1]
    OBVIOUS
  <2>3. LineRead /\ recvBuffer = s /\ pos = Len(Before(request, k))
    BY <1>1, <1>3, <2>1, <2>2 DEF Understood, ReadUpTo
  <2>4. k < Len(request.headers) /\ k \in Nat
    <3>1. k # Len(request.headers)
      BY <1>1, <2>2, <2>3, HeadersAtEnd
    <3>2. Len(request.headers) \in Nat
      BY RequestParts
    <3> QED BY <3>1, <3>2
  <2>5. h \in HeaderParts
    BY <2>2, <2>4, RequestParts
  <2>6. s \in Seq(Letters) /\ Len(s) < SizeT
    BY <2>2, TextParts, PartsFit
  <2>7. /\ Stands(HeaderText(h), s, pos)
        /\ Len(Before(request, k + 1)) = pos + Len(HeaderText(h))
        /\ pos \in Nat
    BY <2>2, <2>3, <2>4, NextHeader, BeforeType
  <2>8. PICK c \in Nat, f \in Nat, t \in Nat :
           /\ ~HeadersEnd(s, pos)
           /\ Colon(s, pos) = c /\ ValueFrom(s, c) = f /\ ValueTo(s, f) = t
           /\ f <= Len(s)
           /\ Key(s, pos, c) = h.key
           /\ Tail(Value(s, f, t)) = h.value
           /\ Behind(pos, t) = pos + Len(HeaderText(h))
    BY <2>5, <2>6, <2>7, HeaderParsed
  <2>9. /\ headers' = Assigned(headers, h.key, Value(s, f, t))
        /\ pos' = Len(Before(request, k + 1))
    BY <2>3, <2>7, <2>8 DEF ParseHeader
  <2>10. ReadSoFar(headers', request, k + 1)
    <3>1. ReadSoFar(headers, request, k)
      BY <2>1 DEF ReadUpTo
    <3> QED BY <2>2, <2>4, <2>8, <2>9, <3>1, OneMoreRead
  <2>11. ReadUpTo(k + 1)'
    BY <1>1, <2>9, <2>10 DEF ReadUpTo
  <2>12. k + 1 \in 0..Len(request'.headers)
    BY <1>1, <2>4, RequestParts
  <2> QED BY <1>1, <2>2, <2>3, <2>11, <2>12 DEF Understood, LineRead
<1> QED BY <1>2, <1>3

\* The loop ends behind the last header, not before.
LEMMA HeadersDoneStep ==
  ASSUME Understood, HeadersDone, WellFormed(request) PROVE Understood'
<1>1. /\ main = "headers" /\ main' = "info" /\ UNCHANGED <<request, parser>>
      /\ HeadersEnd(recvBuffer, pos)
  BY DEF HeadersDone, peer
<1>2. CASE ~whole
  BY <1>1, <1>2 DEF Understood, parser
<1>3. CASE whole
  <2>1. PICK k \in 0..Len(request.headers) : ReadUpTo(k)
    BY <1>1, <1>3 DEF Understood
  <2>2. PICK s, h : s = BehindText(request) /\ h = request.headers[k + 1]
    OBVIOUS
  <2>3. LineRead /\ recvBuffer = s /\ pos = Len(Before(request, k))
    BY <1>1, <1>3, <2>1, <2>2 DEF Understood, ReadUpTo
  <2>4. k = Len(request.headers)
    <3>1. SUFFICES ASSUME k # Len(request.headers) PROVE FALSE
      OBVIOUS
    <3>2. Len(request.headers) \in Nat /\ k < Len(request.headers)
      BY <3>1, RequestParts
    <3>3. h \in HeaderParts
      BY <2>2, <3>2, RequestParts
    <3>4. s \in Seq(Letters) /\ Len(s) < SizeT
      BY <2>2, TextParts, PartsFit
    <3>5. Stands(HeaderText(h), s, pos) /\ pos \in Nat
      BY <2>2, <2>3, <3>2, NextHeader, BeforeType
    <3>6. ~HeadersEnd(s, pos)
      BY <3>3, <3>4, <3>5, HeaderParsed
    <3> QED BY <1>1, <2>3, <3>6
  <2>5. ReadUpTo(k)'
    BY <1>1, <2>1, <2>4 DEF ReadUpTo, parser
  <2> QED BY <1>1, <2>2, <2>3, <2>5 DEF Understood, LineRead, parser
<1> QED BY <1>2, <1>3

\* What is received in one piece is the whole request.
LEMMA ReadingStep ==
  ASSUME Understood, HandleRead PROVE Understood'
<1>1. /\ main = "recv" /\ main' = "parse"
      /\ whole' = (recvBuffer' = Text(request)) /\ UNCHANGED <<headers, request>>
  BY DEF HandleRead, peer
<1>2. headers' = <<>>
  BY <1>1 DEF Understood
<1>3. whole' => recvBuffer' = Text(request')
  BY <1>1
<1> QED BY <1>1, <1>2, <1>3 DEF Understood

LEMMA ClearedStep ==
  ASSUME Understood, InfoPrint PROVE Understood'
BY DEF InfoPrint, Understood

LEMMA UnderstoodInit == Init => Understood
BY DEF Init, Understood

LEMMA UnderstoodStep ==
  ASSUME KInv, Understood, [Next]_vars PROVE Understood'
<1>1. request' = request
  BY RequestKept
<1>2. WellFormed(request)
  BY RequestAssumption DEF KInv, TypeOK
<1>3. CASE Main
  BY <1>1, <1>3, ParserIdle
  DEF Main, Fopen, ReadFails, LoadLine, LoadDone, GetSettings, ServerStart,
      AcceptConnection, SelectConnection, vars
<1>4. CASE CloseConnection \/ HeaderOutOfRange \/ HandleWrite
  BY <1>1, <1>4, ParserIdle
  DEF CloseConnection, HeaderOutOfRange, Killed, HandleWrite, Stat, OpenFile,
      Mmap, SendFile, BusError, HandleError, Sent
<1>5. CASE HandleRead
  BY <1>5, ReadingStep
<1>6. CASE ParseRequestLine
  BY <1>2, <1>6, LineStep
<1>7. CASE ParseHeader
  BY <1>2, <1>7, NextHeaderStep
<1>8. CASE HeadersDone
  BY <1>2, <1>8, HeadersDoneStep
<1>9. CASE InfoPrint
  BY <1>9, ClearedStep
<1>10. CASE Client \/ Arrive \/ FileChanges
  BY <1>1, <1>10, ParserIdle
  DEF Client, Connect, SendRequest, Receive, RecvTimeout, RecvEnd, RecvReset,
      Arrive, FileChanges
<1>11. CASE UNCHANGED vars
  BY <1>1, <1>11, ParserIdle DEF vars
<1> QED
  BY <1>3, <1>4, <1>5, <1>6, <1>7, <1>8, <1>9, <1>10, <1>11
  DEF Next, ServerThread, ParseRequest

\* At the end all headers are read.
LEMMA UnderstoodAsSent ==
  ASSUME Understood, WellFormed(request) PROVE RequestAsSent
<1>1. SUFFICES ASSUME main = "info", whole
               PROVE  LineRead /\ LastOfEach(headers, request)
  BY ZenonT(60) DEF RequestAsSent, LineRead, LastOfEach
<1>2. LineRead
  BY <1>1 DEF Understood
<1>3. PICK n \in Nat : n = Len(request.headers)
  BY RequestParts
<1>4. ReadSoFar(headers, request, n)
  BY <1>1, <1>3 DEF Understood, ReadUpTo
<1>5. LastOfEach(headers, request)
  BY <1>3, <1>4, AllRead
<1> QED BY <1>2, <1>5

\* A request of any method, file, query, headers and body that is received in
\* one piece is understood as it was sent, however many headers it has.
THEOREM RequestUnderstood == Spec => []RequestAsSent
<1>1. KInv /\ Understood => RequestAsSent
  <2>1. KInv => WellFormed(request)
    BY RequestAssumption DEF KInv, TypeOK
  <2> QED BY <2>1, UnderstoodAsSent
<1>2. KInv /\ Understood /\ [Next]_vars => Understood'
  BY UnderstoodStep
<1> QED
  BY <1>1, <1>2, KindsInit, KindsStep, AnswersInvariant, UnderstoodInit, PTL DEF Spec

-----------------------------------------------------------------------------
(* The characters of a text.  They are counted by a recursive function,    *)
(* and there is one.                                                       *)

\* f counts, at each i up to n, the characters of the first i tokens of s.
Counts(s, n, f) ==
  f = [i \in 0..n |-> IF i = 0 THEN 0 ELSE f[i - 1] + Width[s[i]]]

\* There is a count for every text: the shortest one that had none would have
\* one, from the text that is a token shorter.
LEMMA CountsExist ==
  ASSUME NEW s \in Seq(Tokens), NEW n \in 0..Len(s)
  PROVE  \E f \in [0..n -> Nat] : Counts(s, n, f)
<1> DEFINE Bad == {m \in 0..Len(s) : ~\E f \in [0..m -> Nat] : Counts(s, m, f)}
<1>1. SUFFICES ASSUME Bad # {} PROVE FALSE
  OBVIOUS
<1>2. Bad \in SUBSET Nat
  OBVIOUS
<1>3. PICK m \in Bad : \A k \in Bad : m <= k
  <2> HIDE DEF Bad
  <2> QED BY <1>1, <1>2, Least
<1>4. m \in 0..Len(s) /\ ~\E f \in [0..m -> Nat] : Counts(s, m, f)
  OBVIOUS
<1>5. m # 0
  <2> DEFINE f == [i \in 0..0 |-> 0]
  <2>1. f \in [0..0 -> Nat]
    OBVIOUS
  <2>2. f = [i \in 0..0 |-> IF i = 0 THEN 0 ELSE f[i - 1] + Width[s[i]]]
    OBVIOUS
  <2>3. Counts(s, 0, f)
    BY <2>2 DEF Counts
  <2> HIDE DEF f
  <2> QED BY <1>4, <2>1, <2>3
<1>6. m - 1 \in 0..Len(s) /\ m - 1 \notin Bad
  <2>1. m \in Nat /\ Len(s) \in Nat /\ m <= Len(s)
    BY <1>4
  <2>2. m - 1 \in 0..Len(s) /\ ~(m <= m - 1)
    BY <1>5, <2>1
  <2> HIDE DEF Bad
  <2> QED BY <1>3, <2>2
<1>7. PICK l \in Nat : m = l + 1 /\ l = m - 1
  BY <1>4, <1>5
<1>8. PICK f \in [0..l -> Nat] : Counts(s, l, f)
  BY <1>6, <1>7
<1> DEFINE w == Width[s[m]]
           g == [i \in 0..m |-> IF i = m THEN f[l] + w ELSE f[i]]
<1>9. w \in Nat /\ f[l] \in Nat
  <2>1. s[m] \in Tokens
    BY <1>4, <1>5
  <2>2. Width[s[m]] \in 1..LineSize - 1 /\ LineSize \in Nat
    BY <2>1, ProgramAssumption DEF Tokens
  <2>3. l \in 0..l
    OBVIOUS
  <2> QED BY <2>2, <2>3
<1> HIDE DEF Bad, w
<1>10. g \in [0..m -> Nat]
  <2>1. \A i \in 0..m : i # m => i \in 0..l
    BY <1>7
  <2> QED BY <1>9, <2>1
<1>11. ASSUME NEW i \in 0..m
       PROVE  g[i] = IF i = 0 THEN 0 ELSE g[i - 1] + Width[s[i]]
  <2>1. CASE i = m
    <3>1. i # 0 /\ i - 1 = l /\ l \in 0..m /\ l # m
      BY <1>7, <2>1
    <3>2. g[l] = f[l] /\ g[m] = f[l] + w
      BY <2>1, <3>1
    <3> HIDE DEF g
    <3> QED BY <2>1, <3>1, <3>2 DEF w
  <2>2. CASE i # m
    <3>1. i \in 0..l /\ (i # 0 => i - 1 \in 0..m /\ i - 1 # m)
      BY <1>7, <2>2
    <3>2. f[i] = IF i = 0 THEN 0 ELSE f[i - 1] + Width[s[i]]
      BY <1>8, <3>1 DEF Counts
    <3>3. g[i] = f[i] /\ (i # 0 => g[i - 1] = f[i - 1])
      BY <2>2, <3>1
    <3> HIDE DEF g
    <3> QED BY <3>2, <3>3
  <2> QED BY <2>1, <2>2
<1> HIDE DEF g
<1>12. Counts(s, m, g)
  <2> DEFINE h == [i \in 0..m |-> IF i = 0 THEN 0 ELSE g[i - 1] + Width[s[i]]]
  <2>1. g = [i \in 0..m |-> g[i]]
    BY <1>10
  <2>2. [i \in 0..m |-> g[i]] = h
    BY <1>11
  <2> QED BY <2>1, <2>2 DEF Counts
<1> QED BY <1>4, <1>10, <1>12

\* So it is a number.
LEMMA CharsType == ASSUME NEW s \in Seq(Tokens) PROVE Chars(s) \in Nat
<1> DEFINE upTo == CHOOSE f : Counts(s, Len(s), f)
<1>1. PICK n \in Nat : n = Len(s)
  OBVIOUS
<1>2. Counts(s, n, upTo)
  <2>1. n \in 0..Len(s)
    BY <1>1
  <2>2. \E f : Counts(s, n, f)
    BY <2>1, CountsExist
  <2> QED BY <1>1, <2>2
<1>3. Chars(s) = upTo[n]
  BY <1>1 DEF Chars, Counts
<1> HIDE DEF upTo
<1> DEFINE Bad == {i \in 0..n : upTo[i] \notin Nat}
<1>4. ASSUME Bad # {} PROVE FALSE
  <2>1. Bad \in SUBSET Nat
    OBVIOUS
  <2>2. PICK m \in Bad : \A i \in Bad : m <= i
    <3> HIDE DEF Bad
    <3> QED BY <1>4, <2>1, Least
  <2>3. m \in 0..n /\ upTo[m] \notin Nat
    OBVIOUS
  <2>4. upTo[m] = IF m = 0 THEN 0 ELSE upTo[m - 1] + Width[s[m]]
    BY <1>2, <2>3 DEF Counts
  <2>5. m # 0
    BY <2>3, <2>4
  <2>6. PICK l \in 0..n : l = m - 1 /\ ~(m <= l)
    BY <2>3, <2>5
  <2>7. upTo[l] \in Nat
    BY <2>2, <2>6
  <2>8. Width[s[m]] \in Nat
    <3>1. s[m] \in Tokens
      BY <1>1, <2>3, <2>5
    <3>2. Width[s[m]] \in 1..LineSize - 1 /\ LineSize \in Nat
      BY <3>1, ProgramAssumption DEF Tokens
    <3> QED BY <3>2
  <2> QED BY <2>3, <2>4, <2>5, <2>6, <2>7, <2>8
<1>5. n \in 0..n
  OBVIOUS
<1> QED BY <1>3, <1>4, <1>5

LEMMA CharsOfNone ==
  ASSUME NEW s \in Seq(Tokens), s = <<>> PROVE Chars(s) = 0
<1> DEFINE upTo == CHOOSE f : Counts(s, Len(s), f)
<1>1. PICK n \in Nat : n = Len(s) /\ n = 0 /\ n \in 0..Len(s) /\ n \in 0..n
  OBVIOUS
<1>2. Counts(s, n, upTo)
  <2>1. \E f : Counts(s, n, f)
    BY <1>1, CountsExist
  <2> QED BY <1>1, <2>1
<1>3. Chars(s) = upTo[n]
  BY <1>1 DEF Chars, Counts
<1> HIDE DEF upTo
<1>4. upTo[n] = 0
  BY <1>1, <1>2 DEF Counts
<1> QED BY <1>3, <1>4

\* What Max and Min are is known from one element.
LEMMA GreatestIs ==
  ASSUME NEW S \in SUBSET Nat, NEW m \in S, \A y \in S : y <= m
  PROVE  Max(S) = m
<1>1. \E x \in S : \A y \in S : x >= y
  OBVIOUS
<1>2. Max(S) \in S /\ \A y \in S : Max(S) >= y
  BY <1>1 DEF Max
<1>3. PICK u : u = Max(S)
  OBVIOUS
<1>4. u \in S /\ u >= m /\ u <= m
  BY <1>2, <1>3
<1>5. u = m
  BY <1>4
<1> QED BY <1>3, <1>5

LEMMA LeastIs ==
  ASSUME NEW S \in SUBSET Nat, NEW m \in S, \A y \in S : m <= y
  PROVE  Min(S) = m
<1>1. Min(S) \in S /\ \A y \in S : Min(S) <= y
  BY LeastOf
<1>2. PICK u : u = Min(S)
  OBVIOUS
<1>3. u \in S /\ u >= m /\ u <= m
  BY <1>1, <1>2
<1>4. u = m
  BY <1>3
<1> QED BY <1>2, <1>4

\* The blanks behind a text, and before it, are cut off.
LEMMA RightTrimmed ==
  ASSUME NEW T, NEW x \in Seq(T), NEW y \in Seq(T), NEW blanks,
         \A i \in 1..Len(y) : y[i] \in blanks,
         x # <<>> => Last(x) \notin blanks
  PROVE  TrimRight(x \o y, blanks) = x
<1>1. PICK s \in Seq(T) : s = x \o y
  BY ConcatSize
<1>2. PICK n \in Nat, l \in Nat, z \in Nat :
        n = Len(x) /\ l = Len(s) /\ z = 0 /\ l = n + Len(y)
  BY <1>1, ConcatSize
<1>3. /\ \A i \in 1..n : s[i] = x[i]
      /\ \A i \in 1..l : i > n => s[i] \in blanks
  <2>1. \A i \in 1..n : s[i] = x[i]
    BY <1>1, <1>2
  <2>2. ASSUME NEW i \in 1..l, i > n PROVE s[i] \in blanks
    <3>1. i - n \in 1..Len(y) /\ s[i] = y[i - n]
      BY <1>1, <1>2, <2>2
    <3> QED BY <3>1
  <2> QED BY <2>1, <2>2
<1> DEFINE S == {0} \cup {i \in 1..l : s[i] \notin blanks}
<1>4. n \in S
  <2>1. CASE n = 0
    BY <2>1
  <2>2. CASE n # 0
    <3>1. n \in 1..n /\ n \in 1..l /\ x # <<>>
      BY <1>2, <2>2
    <3>2. s[n] = Last(x)
      BY <1>2, <1>3, <3>1 DEF Last
    <3> QED BY <3>1, <3>2
  <2> QED BY <2>1, <2>2
<1>5. S \in SUBSET Nat /\ \A i \in S : i <= n
  BY <1>3
<1>6. TrimRight(s, blanks) = SubSeq(s, 1, Max(S))
  BY <1>2 DEF TrimRight
<1> HIDE DEF S
<1>7. Max(S) = n
  BY <1>4, <1>5, GreatestIs
<1>8. SubSeq(s, z + 1, z + Len(x)) = x
  <2>1. Stands(x, s, z)
    BY <1>1, <1>2, StandsInConcat
  <2> QED BY <2>1, StandsIsSubSeq
<1>9. z + 1 = 1 /\ z + Len(x) = n
  BY <1>2
<1> QED BY <1>1, <1>6, <1>7, <1>8, <1>9

\* What is left has no other symbols.
LEMMA TrimmedIn ==
  ASSUME NEW T, NEW s \in Seq(T), NEW blanks PROVE TrimRight(s, blanks) \in Seq(T)
<1>1. PICK l \in Nat : l = Len(s)
  OBVIOUS
<1> DEFINE S == {0} \cup {i \in 1..l : s[i] \notin blanks}
<1>2. PICK m \in 0..l : m \in S /\ \A y \in S : y <= m
  <2> DEFINE G == {i \in 1..l : s[i] \notin blanks}
  <2>1. CASE G = {}
    <3>1. S = {0}
      BY <2>1
    <3> QED BY <3>1
  <2>2. CASE G # {}
    <3>1. G \in SUBSET (1..l) /\ S = {0} \cup G
      OBVIOUS
    <3> HIDE DEF G, S
    <3>2. PICK u : u = Max(G) /\ u \in G /\ \A y \in G : y <= u
      BY <2>2, <3>1, GreatestOf
    <3>3. u \in 0..l /\ u \in S /\ \A y \in S : y <= u
      BY <3>1, <3>2
    <3> QED BY <3>3
  <2> QED BY <2>1, <2>2
<1>3. S \in SUBSET Nat
  OBVIOUS
<1>4. TrimRight(s, blanks) = SubSeq(s, 1, Max(S))
  BY <1>1 DEF TrimRight
<1> HIDE DEF S
<1>5. Max(S) = m
  BY <1>2, <1>3, GreatestIs
<1>6. SubSeq(s, 1, m) \in Seq(T)
  <2>1. 1 \in Nat \ {0} /\ m \in 0..Len(s)
    BY <1>1
  <2> QED BY <2>1, SubSeqIn
<1> QED BY <1>4, <1>5, <1>6

LEMMA LeftTrimmed ==
  ASSUME NEW T, NEW x \in Seq(T), NEW y \in Seq(T), NEW blanks,
         \A i \in 1..Len(y) : y[i] \in blanks,
         x # <<>> => Head(x) \notin blanks
  PROVE  TrimLeft(y \o x, blanks) = x
<1>1. PICK s \in Seq(T) : s = y \o x
  BY ConcatSize
<1>2. PICK n \in Nat, l \in Nat, m \in Nat :
        n = Len(y) /\ l = Len(s) /\ l = n + Len(x) /\ m = n + 1
  <2>1. Len(y) \in Nat /\ Len(s) \in Nat /\ Len(s) = Len(y) + Len(x)
    BY <1>1, ConcatSize
  <2> QED BY <2>1
<1>3. \A i \in 1..n : s[i] = y[i]
  BY <1>1, <1>2
<1> DEFINE S == {l + 1} \cup {i \in 1..l : s[i] \notin blanks}
<1>4. m \in S
  <2>1. CASE x = <<>>
    BY <1>2, <2>1
  <2>2. CASE x # <<>>
    <3>1. Len(x) \in Nat /\ Len(x) > 0
      BY <2>2
    <3>2. m \in 1..l /\ 1 \in 1..Len(x) /\ m = Len(y) + 1
      BY <1>2, <3>1
    <3>3. s[m] = Head(x)
      BY <1>1, <3>2
    <3> QED BY <2>2, <3>2, <3>3
  <2> QED BY <2>1, <2>2
<1>5. S \in SUBSET Nat /\ \A i \in S : m <= i
  <2>1. n <= l
    <3>1. Len(x) \in Nat
      OBVIOUS
    <3> QED BY <1>2, <3>1
  <2> QED BY <1>2, <1>3, <2>1
<1>6. TrimLeft(s, blanks) = SubSeq(s, Min(S), l)
  BY <1>2 DEF TrimLeft
<1> HIDE DEF S
<1>7. Min(S) = m
  BY <1>4, <1>5, LeastIs
<1>8. SubSeq(s, n + 1, n + Len(x)) = x
  <2>1. Stands(x, s, n)
    BY <1>1, <1>2, StandsInConcat
  <2> QED BY <2>1, StandsIsSubSeq
<1> QED BY <1>1, <1>2, <1>6, <1>7, <1>8

-----------------------------------------------------------------------------
(* A line, and the item it makes.                                          *)

NoFeed == Tokens \ {"LF"}

\* The parts of a line and their symbols.
LEMMA LinePieces ==
  ASSUME NEW h \in LineParts
  PROVE  /\ h.indent \in Seq(NoFeed) /\ h.name \in Seq(NoFeed)
         /\ h.before \in Seq(NoFeed) /\ h.after \in Seq(NoFeed)
         /\ h.value \in Seq(NoFeed) /\ h.end \in Seq(Tokens)
         /\ <<"=">> \in Seq(NoFeed)
         /\ \A i \in 1..Len(h.name) : h.name[i] # "="
         /\ \A i \in 1..Len(h.before) : h.before[i] = "SP"
         /\ \A i \in 1..Len(h.after) : h.after[i] = "SP"
         /\ \A i \in 1..Len(h.end) : h.end[i] \in {"SP", "CR", "LF"}
<1>1. /\ h.indent \in Seq(Tokens \ {"LF"})
      /\ h.name \in Seq(Tokens \ {"LF", "="})
      /\ h.before \in Seq({"SP"}) /\ h.after \in Seq({"SP"})
      /\ h.value \in Seq(Tokens \ {"LF"}) /\ h.end \in Seq({"SP", "CR", "LF"})
  BY DEF LineParts
<1>2. {"SP", "CR", "LF", "="} \subseteq Tokens
  BY ProgramAssumption DEF Tokens
<1>3. /\ Tokens \ {"LF"} \subseteq NoFeed /\ Tokens \ {"LF", "="} \subseteq NoFeed
      /\ {"SP"} \subseteq NoFeed /\ {"SP", "CR", "LF"} \subseteq Tokens
      /\ "=" \in NoFeed
  BY <1>2 DEF NoFeed
<1>4. /\ h.indent \in Seq(NoFeed) /\ h.name \in Seq(NoFeed)
      /\ h.before \in Seq(NoFeed) /\ h.after \in Seq(NoFeed)
      /\ h.value \in Seq(NoFeed) /\ h.end \in Seq(Tokens)
  BY <1>1, <1>3, SeqWithin
<1>5. <<"=">> \in Seq(NoFeed)
  BY <1>3
<1>6. /\ \A i \in 1..Len(h.name) : h.name[i] \in Tokens \ {"LF", "="}
      /\ \A i \in 1..Len(h.before) : h.before[i] \in {"SP"}
      /\ \A i \in 1..Len(h.after) : h.after[i] \in {"SP"}
      /\ \A i \in 1..Len(h.end) : h.end[i] \in {"SP", "CR", "LF"}
  BY <1>1, SymbolsIn
<1> QED BY <1>4, <1>5, <1>6

\* The ends of a text that is joined of two.
LEMMA EndsOfConcat ==
  ASSUME NEW T, NEW a \in Seq(T), NEW b \in Seq(T)
  PROVE  /\ a # <<>> => Head(a \o b) = Head(a)
         /\ b # <<>> => Last(a \o b) = Last(b)
         /\ a # <<>> \/ b # <<>> => a \o b # <<>>
<1>1. PICK s \in Seq(T) : s = a \o b
  BY ConcatSize
<1>2. Len(s) = Len(a) + Len(b) /\ Len(a) \in Nat /\ Len(b) \in Nat
  BY <1>1, ConcatSize
<1>3. ASSUME a # <<>> PROVE Head(s) = Head(a)
  <2>1. 1 \in 1..Len(a)
    BY <1>2, <1>3
  <2>2. s[1] = a[1]
    BY <1>1, <2>1
  <2>3. Head(s) = s[1] /\ Head(a) = a[1]
    OBVIOUS
  <2> QED BY <2>2, <2>3
<1>4. ASSUME b # <<>> PROVE Last(s) = Last(b)
  <2>1. Len(b) \in 1..Len(b)
    BY <1>2, <1>4
  <2>2. s[Len(a) + Len(b)] = b[Len(b)]
    BY <1>1, <2>1
  <2> QED BY <1>2, <2>2 DEF Last
<1>5. a # <<>> \/ b # <<>> => s # <<>>
  BY <1>1, <1>2
<1> QED BY <1>1, <1>3, <1>4, <1>5

LEMMA SeqFromElements ==
  ASSUME NEW T, NEW S, NEW s \in Seq(T), \A i \in 1..Len(s) : s[i] \in S
  PROVE  s \in Seq(S)
OBVIOUS

LEMMA SettingTextType ==
  ASSUME NEW h \in LineParts
  PROVE  /\ SettingText(h) \in Seq(NoFeed)
         /\ h.name # <<>> => SettingText(h) # <<>>
<1>1. PICK n \in Seq(NoFeed), b \in Seq(NoFeed), q \in Seq(NoFeed),
           a \in Seq(NoFeed), v \in Seq(NoFeed) :
        n = h.name /\ b = h.before /\ q = <<"=">> /\ a = h.after /\ v = h.value
  BY LinePieces
<1>2. CASE n = <<>>
  BY <1>1, <1>2 DEF SettingText
<1>3. CASE n # <<>>
  <2>1. PICK nb \in Seq(NoFeed) : nb = n \o b /\ nb # <<>>
    <3>1. n \o b \in Seq(NoFeed)
      BY ConcatSize
    <3>2. n \o b # <<>>
      BY <1>3, EndsOfConcat
    <3> QED BY <3>1, <3>2
  <2>2. PICK nq \in Seq(NoFeed) : nq = nb \o q /\ nq # <<>>
    BY <2>1, EndsOfConcat, ConcatSize
  <2>3. PICK na \in Seq(NoFeed) : na = nq \o a /\ na # <<>>
    BY <2>2, EndsOfConcat, ConcatSize
  <2>4. PICK nv \in Seq(NoFeed) : nv = na \o v /\ nv # <<>>
    BY <2>3, EndsOfConcat, ConcatSize
  <2> QED BY <1>1, <1>3, <2>1, <2>2, <2>3, <2>4 DEF SettingText
<1> QED BY <1>2, <1>3

\* A line's text: no line feed but at its end.
LEMMA TextShape ==
  ASSUME NEW h \in LineParts
  PROVE  /\ TextOf(h) \in Seq(Tokens) /\ Len(TextOf(h)) > 0
         /\ \A i \in 1..Len(TextOf(h)) : TextOf(h)[i] = "LF" => i = Len(TextOf(h))
         /\ h.end # <<>> => Last(TextOf(h)) = Last(h.end)
<1>1. PICK d \in Seq(NoFeed), g \in Seq(NoFeed), e \in Seq(Tokens) :
        d = h.indent /\ g = SettingText(h) /\ e = h.end
  BY LinePieces, SettingTextType
<1>2. PICK x \in Seq(NoFeed) : x = d \o g
  BY ConcatSize
<1>3. g # <<>> \/ d # <<>> \/ e # <<>>
  BY <1>1, SettingTextType DEF LineParts
<1>4. x # <<>> \/ e # <<>>
  BY <1>2, <1>3, EndsOfConcat
<1>5. x \in Seq(Tokens) /\ \A i \in 1..Len(x) : x[i] # "LF"
  <2>1. NoFeed \subseteq Tokens
    BY DEF NoFeed
  <2>2. x \in Seq(Tokens)
    BY <2>1, SeqWithin
  <2>3. \A i \in 1..Len(x) : x[i] \in NoFeed
    BY SymbolsIn
  <2> QED BY <2>2, <2>3 DEF NoFeed
<1>6. PICK t \in Seq(Tokens) : t = x \o e
  BY <1>5, ConcatSize
<1>7. TextOf(h) = t
  BY <1>1, <1>2, <1>6 DEF TextOf
<1>8. \A i \in 1..Len(e) : e[i] = "LF" => i = Len(e)
  BY <1>1 DEF LineParts
<1>9. ASSUME NEW i \in 1..Len(t), t[i] = "LF" PROVE i = Len(t)
  <2>1. /\ Len(t) = Len(x) + Len(e) /\ Len(x) \in Nat /\ Len(e) \in Nat
    BY <1>5, <1>6, ConcatSize
  <2>2. i > Len(x)
    <3>1. i <= Len(x) => t[i] = x[i]
      BY <1>5, <1>6, <2>1
    <3> QED BY <1>5, <1>9, <2>1, <3>1
  <2>3. i - Len(x) \in 1..Len(e) /\ t[i] = e[i - Len(x)]
    BY <1>5, <1>6, <2>1, <2>2
  <2>4. i - Len(x) = Len(e)
    BY <1>8, <1>9, <2>3
  <2> QED BY <2>1, <2>4
<1>10. t # <<>> /\ (e # <<>> => Last(t) = Last(e))
  BY <1>4, <1>5, <1>6, EndsOfConcat
<1>11. Len(t) > 0
  BY <1>10
<1> QED BY <1>1, <1>7, <1>9, <1>10, <1>11

\* fgets takes one line, if it fits.
LEMMA LineTaken ==
  ASSUME NEW h \in LineParts, NEW u \in Seq(Tokens),
         u # <<>> => h.end # <<>> /\ Last(h.end) = "LF",
         Chars(TextOf(h)) < LineSize
  PROVE  /\ Fgets(TextOf(h) \o u) = TextOf(h)
         /\ SubSeq(TextOf(h) \o u, Len(TextOf(h)) + 1, Len(TextOf(h) \o u)) = u
<1>1. PICK t \in Seq(Tokens) : t = TextOf(h)
  BY TextShape
<1>2. PICK s \in Seq(Tokens) : s = t \o u
  BY ConcatSize
<1>3. PICK n \in Nat, l \in Nat, z \in Nat :
        n = Len(t) /\ l = Len(s) /\ z = 0 /\ l = n + Len(u) /\ n > 0
  BY <1>1, <1>2, ConcatSize, TextShape
<1>4. Stands(t, s, z) /\ Stands(u, s, n)
  BY <1>2, <1>3, StandsInConcat
<1>5. \A i \in 1..n : s[i] = t[i]
  BY <1>2, <1>3
<1>6. SubSeq(s, 1, n) = t
  <2>1. SubSeq(s, z + 1, z + Len(t)) = t
    BY <1>4, StandsIsSubSeq
  <2>2. z + 1 = 1 /\ z + Len(t) = n
    BY <1>3
  <2> QED BY <2>1, <2>2
<1> DEFINE S == {m \in 1..l : /\ Chars(SubSeq(s, 1, m)) < LineSize
                             /\ \A i \in 1..m - 1 : s[i] # "LF"}
<1>7. n \in S
  <2>1. n \in 1..l
    <3>1. Len(u) \in Nat
      OBVIOUS
    <3> QED BY <1>3, <3>1
  <2>2. \A i \in 1..n - 1 : s[i] # "LF"
    <3>1. \A i \in 1..n : t[i] = "LF" => i = n
      BY <1>1, <1>3, TextShape
    <3> QED BY <1>5, <3>1
  <2> QED BY <1>1, <1>6, <2>1, <2>2
<1>8. \A m \in S : m <= n
  <2>1. CASE u = <<>>
    BY <1>3, <2>1
  <2>2. CASE u # <<>>
    <3>1. t[n] = "LF"
      <4>1. Last(t) = "LF"
        BY <1>1, <2>2, TextShape
      <4> QED BY <1>3, <4>1 DEF Last
    <3>2. s[n] = "LF"
      BY <1>3, <1>5, <3>1
    <3> QED BY <1>3, <3>2
  <2> QED BY <2>1, <2>2
<1>9. S \in SUBSET Nat
  OBVIOUS
<1>10. Fgets(s) = SubSeq(s, 1, Max(S))
  BY <1>3 DEF Fgets
<1> HIDE DEF S
<1>11. Max(S) = n
  BY <1>7, <1>8, <1>9, GreatestIs
<1>12. SubSeq(s, n + 1, l) = u
  <2>1. SubSeq(s, n + 1, n + Len(u)) = u
    BY <1>4, StandsIsSubSeq
  <2> QED BY <1>3, <2>1
<1> QED BY <1>1, <1>2, <1>3, <1>6, <1>10, <1>11, <1>12

\* A line that shows that it sets nothing.
LEMMA LinePassed ==
  ASSUME NEW h \in LineParts, h.indent # <<>> \/ h.name = <<>>
  PROVE  Ignored(TextOf(h))
<1>1. PICK d \in Seq(Tokens), g \in Seq(Tokens), e \in Seq(Tokens) :
        d = h.indent /\ g = SettingText(h) /\ e = h.end
  <2>1. NoFeed \subseteq Tokens
    BY DEF NoFeed
  <2> QED BY <2>1, LinePieces, SettingTextType, SeqWithin
<1>2. PICK x \in Seq(Tokens) : x = d \o g
  BY ConcatSize
<1>3. PICK t \in Seq(Tokens) : t = x \o e /\ t = TextOf(h)
  BY <1>1, <1>2, ConcatSize DEF TextOf
<1>4. CASE d # <<>> /\ Head(d) \in Passed
  <2>1. x # <<>> /\ Head(x) = Head(d)
    BY <1>2, <1>4, EndsOfConcat
  <2>2. Head(t) = Head(d)
    BY <1>3, <2>1, EndsOfConcat
  <2> QED BY <1>3, <1>4, <2>2 DEF Ignored, Passed
<1>5. CASE SetsNothing(h)
  <2>1. x = d
    BY <1>1, <1>2, <1>5 DEF SettingText, SetsNothing
  <2>2. d \in Seq(Tokens \ {"="}) /\ e \in Seq(Tokens \ {"="})
    <3>1. /\ \A i \in 1..Len(d) : d[i] \in Tokens
          /\ \A i \in 1..Len(e) : e[i] \in Tokens
      BY SymbolsIn
    <3>2. \A i \in 1..Len(d) : d[i] # "="
      BY <1>1, <1>5 DEF SetsNothing
    <3>3. \A i \in 1..Len(e) : e[i] # "="
      BY <1>1, LinePieces
    <3>4. /\ \A i \in 1..Len(d) : d[i] \in Tokens \ {"="}
          /\ \A i \in 1..Len(e) : e[i] \in Tokens \ {"="}
      BY <3>1, <3>2, <3>3
    <3> QED BY <3>4, SeqFromElements
  <2>3. t \in Seq(Tokens \ {"="})
    BY <1>3, <2>1, <2>2, ConcatSize
  <2>4. Stripped(t) \in Seq(Tokens \ {"="})
    BY <2>3, TrimmedIn DEF Stripped
  <2>5. \A i \in 1..Len(Stripped(t)) : Stripped(t)[i] \in Tokens \ {"="}
    BY <2>4, SymbolsIn
  <2> QED BY <1>3, <2>5 DEF Ignored
<1>6. \/ d # <<>> /\ Head(d) \in Passed
      \/ SetsNothing(h)
  <2>1. CASE d = <<>>
    BY <1>1, <2>1 DEF SetsNothing
  <2>2. CASE d # <<>>
    BY <1>1, <2>2 DEF LineParts
  <2> QED BY <2>1, <2>2
<1> QED BY <1>4, <1>5, <1>6

\* Where the first "=" parts a line.
Parted(s, n, c) ==
  s = (n \o <<"=">>) \o c /\ \A i \in 1..Len(n) : n[i] # "="
LEMMA PartedAtEquals ==
  ASSUME NEW n \in Seq(Tokens), NEW c \in Seq(Tokens), NEW s, Parted(s, n, c)
  PROVE  /\ NameOf(s) = n /\ ContentOf(s) = c
         /\ \E i \in 1..Len(s) : s[i] = "="
<1>0. PICK q \in Seq(Tokens) : q = <<"=">>
  <2>1. "=" \in Tokens
    BY ProgramAssumption DEF Tokens
  <2>2. <<"=">> \in Seq(Tokens)
    BY <2>1
  <2> QED BY <2>2
<1>1. PICK nq \in Seq(Tokens) : nq = n \o q
  BY ConcatSize
<1>2. s \in Seq(Tokens) /\ s = nq \o c /\ \A i \in 1..Len(n) : n[i] # "="
  <2>1. s = nq \o c /\ \A i \in 1..Len(n) : n[i] # "="
    BY <1>0, <1>1 DEF Parted
  <2> QED BY <2>1, ConcatSize
<1>3. PICK l \in Nat, m \in Nat, z \in Nat, k \in Nat :
        l = Len(n) /\ m = Len(s) /\ z = 0 /\ k = l + 1 /\ Len(nq) = k /\ m = k + Len(c)
  <2>1. Len(q) = 1
    BY <1>0
  <2>2. Len(nq) = Len(n) + 1 /\ Len(n) \in Nat
    BY <1>1, <2>1, ConcatSize
  <2>3. Len(s) = Len(nq) + Len(c) /\ Len(s) \in Nat
    BY <1>2, ConcatSize, LenProperties
  <2> QED BY <2>2, <2>3
<1>4. Stands(nq, s, z) /\ Stands(c, s, k) /\ Stands(n, nq, z) /\ Stands(q, nq, l)
  BY <1>1, <1>2, <1>3, StandsInConcat
<1>5. /\ \A i \in 1..k : s[i] = nq[i]
      /\ \A i \in 1..l : nq[i] = n[i]
  BY <1>1, <1>2, <1>3
<1>6. nq[k] = "="
  <2>1. 1 \in 1..Len(q) /\ q[1] = "="
    BY <1>0
  <2>2. nq[l + 1] = q[1]
    BY <1>4, <2>1 DEF Stands
  <2> QED BY <1>3, <2>1, <2>2
<1>7. k <= m
  <2>1. Len(c) \in Nat
    OBVIOUS
  <2> QED BY <1>3, <2>1
<1> DEFINE S == {i \in 1..m : s[i] = "="}
<1>8. k \in S
  <2>1. k \in 1..k /\ k \in 1..m
    BY <1>3, <1>7
  <2> QED BY <1>5, <1>6, <2>1
<1>9. S \in SUBSET Nat
  OBVIOUS
<1>10. \A i \in S : k <= i
  <2>1. ASSUME NEW i \in S, i < k PROVE FALSE
    <3>1. i \in 1..l /\ i \in 1..k
      BY <1>3, <2>1
    <3>2. s[i] = n[i] /\ n[i] # "="
      BY <1>2, <1>3, <1>5, <3>1
    <3> QED BY <3>2
  <2> QED BY <2>1
<1>11. Equals(s) = Min(S)
  BY <1>3 DEF Equals
<1>12. \E i \in 1..Len(s) : s[i] = "="
  BY <1>3, <1>8
<1> HIDE DEF S
<1>13. Equals(s) = k
  BY <1>8, <1>9, <1>10, <1>11, LeastIs
<1>14. NameOf(s) = n
  <2>1. k \in 0..k /\ l \in 0..Len(nq)
    BY <1>3
  <2>2. Stands(n, s, z)
    BY <1>2, <1>3, <1>5, <1>7 DEF Stands
  <2>3. SubSeq(s, z + 1, z + Len(n)) = n
    BY <1>2, <2>2, StandsIsSubSeq
  <2>4. z + 1 = 1 /\ z + Len(n) = k - 1
    BY <1>3
  <2> QED BY <1>13, <2>3, <2>4 DEF NameOf
<1>15. ContentOf(s) = c
  <2>1. SubSeq(s, k + 1, k + Len(c)) = c
    BY <1>2, <1>4, StandsIsSubSeq
  <2> QED BY <1>3, <1>13, <2>1 DEF ContentOf
<1> QED BY <1>12, <1>14, <1>15

\* Joining is associative, said so that the provers find where to apply it.
IsConcat(s, a, b) == s = a \o b
LEMMA ConcatMoved ==
  ASSUME NEW T, NEW a \in Seq(T), NEW b \in Seq(T), NEW c \in Seq(T),
         NEW ab, IsConcat(ab, a, b), NEW bc, IsConcat(bc, b, c)
  PROVE  IsConcat(ab \o c, a, bc)
BY ConcatAssociative DEF IsConcat

\* What is left of a line when its end is stripped.
NamePart(h) == h.name \o h.before
Content(h) == IF h.value = <<>> THEN <<>> ELSE h.after \o h.value

\* The end goes, and with no value the blanks before it; an "=" is left.
LEMMA StrippedLine ==
  ASSUME NEW h \in LineParts, h.indent = <<>>, h.name # <<>>
  PROVE  /\ Stripped(TextOf(h)) = (NamePart(h) \o <<"=">>) \o Content(h)
         /\ NamePart(h) \in Seq(Tokens) /\ Content(h) \in Seq(Tokens)
         /\ <<"=">> \in Seq(Tokens)
         /\ Head(TextOf(h)) = Head(h.name)
         /\ \A i \in 1..Len(NamePart(h)) : NamePart(h)[i] # "="
<1>1. PICK n \in Seq(Tokens), b \in Seq(Tokens), q \in Seq(Tokens),
           a \in Seq(Tokens), v \in Seq(Tokens), e \in Seq(Tokens) :
        /\ n = h.name /\ b = h.before /\ q = <<"=">>
        /\ a = h.after /\ v = h.value /\ e = h.end
  <2>1. NoFeed \subseteq Tokens
    BY DEF NoFeed
  <2>2. /\ h.name \in Seq(Tokens) /\ h.before \in Seq(Tokens)
        /\ <<"=">> \in Seq(Tokens)
        /\ h.after \in Seq(Tokens) /\ h.value \in Seq(Tokens)
    BY <2>1, LinePieces, SeqWithin
  <2> QED BY <2>2, LinePieces
<1>2. PICK p \in Seq(Tokens) : p = n \o b /\ p = NamePart(h)
  BY <1>1, ConcatSize DEF NamePart
<1>3. PICK pq \in Seq(Tokens) : pq = p \o q
  BY ConcatSize
<1>4. PICK pa \in Seq(Tokens) : pa = pq \o a
  BY ConcatSize
<1>5. PICK pv \in Seq(Tokens) : pv = pa \o v
  BY ConcatSize
<1>6. TextOf(h) = pv \o e
  <2>1. SettingText(h) = pv
    BY <1>1, <1>2, <1>3, <1>4, <1>5 DEF SettingText
  <2>2. <<>> \o pv = pv
    OBVIOUS
  <2> QED BY <1>1, <2>1, <2>2 DEF TextOf
<1>7. /\ \A i \in 1..Len(e) : e[i] \in {"LF", "CR", "SP"}
      /\ \A i \in 1..Len(a) : a[i] \in {"LF", "CR", "SP"}
      /\ \A i \in 1..Len(b) : b[i] # "="
      /\ \A i \in 1..Len(n) : n[i] # "="
  BY <1>1, LinePieces
<1>8. Stripped(pv \o e) = pq \o Content(h) /\ Content(h) \in Seq(Tokens)
  <2>1. CASE v = <<>>
    <3>1. pv = pa /\ Content(h) = <<>> /\ pq \o Content(h) = pq
          /\ Content(h) \in Seq(Tokens)
      BY <1>1, <1>5, <2>1 DEF Content
    <3>2. PICK ae \in Seq(Tokens) : ae = a \o e
      BY ConcatSize
    <3>3. pv \o e = pq \o ae
      <4>1. IsConcat(pa, pq, a) /\ IsConcat(ae, a, e)
        BY <1>4, <3>2 DEF IsConcat
      <4>2. IsConcat(pa \o e, pq, ae)
        BY <4>1, ConcatMoved
      <4> QED BY <3>1, <4>2 DEF IsConcat
    <3>4. \A i \in 1..Len(ae) : ae[i] \in {"LF", "CR", "SP"}
      <4>1. a \in Seq({"LF", "CR", "SP"}) /\ e \in Seq({"LF", "CR", "SP"})
        BY <1>7, SeqFromElements
      <4>2. a \o e \in Seq({"LF", "CR", "SP"})
        BY <4>1, ConcatSize
      <4> QED BY <3>2, <4>2, SymbolsIn
    <3>5. Last(pq) \notin {"LF", "CR", "SP"}
      <4>1. q # <<>> /\ Last(q) = "="
        BY <1>1 DEF Last
      <4>2. Last(pq) = "="
        BY <1>3, <4>1, EndsOfConcat
      <4> QED BY <4>2
    <3>6. TrimRight(pq \o ae, {"LF", "CR", "SP"}) = pq
      BY <3>4, <3>5, RightTrimmed
    <3> QED BY <3>1, <3>3, <3>6 DEF Stripped
  <2>2. CASE v # <<>>
    <3>1. PICK av \in Seq(Tokens) : av = a \o v /\ av = Content(h)
      BY <1>1, <2>2, ConcatSize DEF Content
    <3>2. pv = pq \o av
      <4>1. IsConcat(pa, pq, a) /\ IsConcat(av, a, v)
        BY <1>4, <3>1 DEF IsConcat
      <4>2. IsConcat(pa \o v, pq, av)
        BY <4>1, ConcatMoved
      <4> QED BY <1>5, <4>2 DEF IsConcat
    <3>3. Last(pv) \notin {"LF", "CR", "SP"}
      <4>1. Last(pv) = Last(v)
        BY <1>5, <2>2, EndsOfConcat
      <4>2. Last(v) \notin {"SP", "CR"}
        BY <1>1, <2>2 DEF LineParts
      <4>3. Last(v) # "LF"
        <5>1. h.value \in Seq(NoFeed)
          BY LinePieces
        <5>2. \A i \in 1..Len(v) : v[i] \in NoFeed
          BY <1>1, <5>1, SymbolsIn
        <5>3. Len(v) \in 1..Len(v)
          BY <2>2
        <5> QED BY <5>2, <5>3 DEF Last, NoFeed
      <4> QED BY <4>1, <4>2, <4>3
    <3>4. TrimRight(pv \o e, {"LF", "CR", "SP"}) = pv
      BY <1>7, <3>3, RightTrimmed
    <3> QED BY <3>1, <3>2, <3>4 DEF Stripped
  <2> QED BY <2>1, <2>2
<1>9. Head(TextOf(h)) = Head(h.name)
  <2>1. n # <<>>
    BY <1>1 DEF LineParts
  <2>2. p # <<>> /\ Head(p) = Head(n)
    BY <1>2, <2>1, EndsOfConcat
  <2>3. pq # <<>> /\ Head(pq) = Head(n)
    BY <1>3, <2>2, EndsOfConcat
  <2>4. pa # <<>> /\ Head(pa) = Head(n)
    BY <1>4, <2>3, EndsOfConcat
  <2>5. pv # <<>> /\ Head(pv) = Head(n)
    BY <1>5, <2>4, EndsOfConcat
  <2> QED BY <1>1, <1>6, <2>5, EndsOfConcat
<1>10. \A i \in 1..Len(p) : p[i] # "="
  <2>1. n \in Seq(Tokens \ {"="}) /\ b \in Seq(Tokens \ {"="})
    <3>1. /\ \A i \in 1..Len(n) : n[i] \in Tokens
          /\ \A i \in 1..Len(b) : b[i] \in Tokens
      BY SymbolsIn
    <3>2. /\ \A i \in 1..Len(n) : n[i] \in Tokens \ {"="}
          /\ \A i \in 1..Len(b) : b[i] \in Tokens \ {"="}
      BY <1>7, <3>1
    <3> QED BY <3>2, SeqFromElements
  <2>2. n \o b \in Seq(Tokens \ {"="})
    BY <2>1, ConcatSize
  <2>3. \A i \in 1..Len(n \o b) : (n \o b)[i] \in Tokens \ {"="}
    BY <2>2, SymbolsIn
  <2> QED BY <1>2, <2>3
<1> QED BY <1>1, <1>2, <1>3, <1>6, <1>8, <1>9, <1>10

LEMMA NoneIn == ASSUME NEW T PROVE \E z \in Seq(T) : z = <<>>
<1>1. <<>> \in Seq(T)
  OBVIOUS
<1> QED BY <1>1

\* Around a name and a value there are blanks only.
LEMMA PartsTrimmed ==
  ASSUME NEW h \in LineParts, h.name # <<>>
  PROVE  Trim(NamePart(h)) = h.name /\ Trim(Content(h)) = h.value
<1>1. PICK n \in Seq(NoFeed), b \in Seq(NoFeed), a \in Seq(NoFeed), v \in Seq(NoFeed) :
        n = h.name /\ b = h.before /\ a = h.after /\ v = h.value
  BY LinePieces
<1>2. /\ \A i \in 1..Len(b) : b[i] \in {"SP"}
      /\ \A i \in 1..Len(a) : a[i] \in {"SP"}
  BY <1>1, LinePieces
<1>3. PICK z \in Seq(NoFeed) : z = <<>> /\ \A i \in 1..Len(z) : z[i] \in {"SP"}
  <2>1. PICK z \in Seq(NoFeed) : z = <<>>
    BY NoneIn
  <2>2. Len(z) = 0
    BY <2>1
  <2>3. \A i \in 1..Len(z) : z[i] \in {"SP"}
    BY <2>2
  <2> QED BY <2>1, <2>3
<1>4. Trim(n \o b) = n
  <2>1. Last(n) \notin {"SP"} /\ Head(n) \notin {"SP"}
    BY <1>1 DEF LineParts, Passed
  <2>2. TrimRight(n \o b, {"SP"}) = n
    BY <1>2, <2>1, RightTrimmed
  <2>3. TrimLeft(z \o n, {"SP"}) = n
    BY <1>3, <2>1, LeftTrimmed
  <2>4. z \o n = n
    BY <1>3
  <2> QED BY <2>2, <2>3, <2>4 DEF Trim
<1>5. CASE v = <<>>
  <2>1. Content(h) = z
    BY <1>1, <1>3, <1>5 DEF Content
  <2>2. TrimRight(z \o z, {"SP"}) = z /\ TrimLeft(z \o z, {"SP"}) = z
    BY <1>3, RightTrimmed, LeftTrimmed
  <2>3. z \o z = z
    BY <1>3
  <2>4. Trim(z) = z
    BY <2>2, <2>3 DEF Trim
  <2> QED BY <1>1, <1>3, <1>4, <1>5, <2>1, <2>4 DEF NamePart
<1>6. CASE v # <<>>
  <2>1. Last(v) \notin {"SP"} /\ Head(v) \notin {"SP"}
    BY <1>1, <1>6 DEF LineParts
  <2>2. PICK av \in Seq(NoFeed) : av = a \o v
    BY ConcatSize
  <2>3. Content(h) = av
    BY <1>1, <1>6, <2>2 DEF Content
  <2>4. Last(av) \notin {"SP"}
    BY <1>6, <2>1, <2>2, EndsOfConcat
  <2>5. TrimRight(av \o z, {"SP"}) = av
    BY <1>3, <2>4, RightTrimmed
  <2>6. TrimLeft(av, {"SP"}) = v
    BY <1>2, <2>1, <2>2, LeftTrimmed
  <2>7. av \o z = av
    BY <1>3
  <2>8. Trim(av) = v
    BY <2>5, <2>6, <2>7 DEF Trim
  <2> QED BY <1>1, <1>4, <2>3, <2>8 DEF NamePart
<1> QED BY <1>5, <1>6

\* A line that sets something and fits makes an item of its name and value.
LEMMA LineStored ==
  ASSUME NEW h \in LineParts, h.indent = <<>>, h.name # <<>>, LineFits(h)
  PROVE  /\ ~Ignored(TextOf(h)) /\ ~Overruns(Stripped(TextOf(h)))
         /\ Store(Stripped(TextOf(h))) =
              [itemName |-> h.name, itemContent |-> h.value]
<1>1. PICK p \in Seq(Tokens), c \in Seq(Tokens) :
        p = NamePart(h) /\ c = Content(h)
  BY StrippedLine
<1>2. PICK s : s = Stripped(TextOf(h))
  OBVIOUS
<1>3. Parted(s, p, c)
  BY <1>1, <1>2, StrippedLine DEF Parted
<1>4. NameOf(s) = p /\ ContentOf(s) = c /\ \E i \in 1..Len(s) : s[i] = "="
  BY <1>3, PartedAtEquals
<1>5. Chars(p) \in Nat /\ Chars(p) < NameSize
  BY <1>1, CharsType DEF LineFits, NamePart
<1>6. Chars(c) \in Nat /\ Chars(c) < ContentSize
  <2>1. CASE h.value = <<>>
    <3>1. Chars(c) = 0
      BY <1>1, <2>1, CharsOfNone DEF Content
    <3>2. Chars(h.after \o h.value) \in Nat
      <4>1. h.after \in Seq(NoFeed) /\ h.value \in Seq(NoFeed)
        BY LinePieces
      <4>2. h.after \o h.value \in Seq(NoFeed)
        BY <4>1, ConcatSize
      <4>3. h.after \o h.value \in Seq(Tokens)
        BY <4>2, SeqWithin DEF NoFeed
      <4> QED BY <4>3, CharsType
    <3>3. Chars(h.after \o h.value) < ContentSize /\ ContentSize \in Nat
      BY ProgramAssumption DEF LineFits
    <3> QED BY <3>1, <3>2, <3>3
  <2>2. CASE h.value # <<>>
    BY <1>1, <2>2, CharsType DEF LineFits, Content
  <2> QED BY <2>1, <2>2
<1>7. ~Ignored(TextOf(h))
  <2>1. Head(TextOf(h)) = Head(h.name) /\ Head(h.name) \notin Passed
    BY StrippedLine DEF LineParts
  <2>2. Head(h.name) # "LF"
    <3>1. PICK n \in Seq(NoFeed) : n = h.name /\ n # <<>>
      BY LinePieces DEF LineParts
    <3>2. Head(n) \in NoFeed
      BY <3>1
    <3> QED BY <3>1, <3>2 DEF NoFeed
  <2>3. s # <<>>
    <3>1. PICK i \in 1..Len(s) : s[i] = "="
      BY <1>4
    <3>2. Len(<<>>) = 0 /\ 1..0 = {}
      OBVIOUS
    <3> QED BY <3>1, <3>2
  <2> QED BY <1>2, <1>4, <2>1, <2>2, <2>3 DEF Ignored, Passed
<1>8. ~Overruns(s)
  <2>1. ~(Chars(c) >= ContentSize) /\ ~(Chars(p) > NameSize + ContentSize)
    BY <1>5, <1>6, ProgramAssumption
  <2> QED BY <1>4, <2>1 DEF Overruns
<1>9. Store(s) = [itemName |-> h.name, itemContent |-> h.value]
  <2>1. Trim(p) = h.name /\ Trim(c) = h.value
    BY <1>1, PartsTrimmed
  <2>2. ~(Chars(p) >= NameSize)
    BY <1>5, ProgramAssumption
  <2> QED BY <1>4, <2>1, <2>2 DEF Store
<1> QED BY <1>2, <1>7, <1>8, <1>9

-----------------------------------------------------------------------------
(* A file, line by line.                                                   *)

LineTexts(f) == [k \in 1..Len(f) |-> TextOf(f[k])]
LinesBehind(f, k) == FlattenSeq(SubSeq(LineTexts(f), k + 1, Len(f)))

\* Behind the first k lines stand the others; the next line is the first of
\* them, and ends with a line feed unless it is the last.
LEMMA LineTextsType ==
  ASSUME NEW f, Lined(f)
  PROVE  /\ f \in Seq(LineParts) /\ Len(f) \in Nat
         /\ LineTexts(f) \in Seq(Seq(Tokens)) /\ Len(LineTexts(f)) = Len(f)
<1>1. f \in Seq(LineParts)
  BY DEF Lined
<1>2. \A k \in 1..Len(f) : TextOf(f[k]) \in Seq(Tokens)
  BY <1>1, TextShape
<1> QED BY <1>1, <1>2 DEF LineTexts

LEMMA AllLinesBehind ==
  ASSUME NEW f, Lined(f) PROVE LinesBehind(f, 0) = ConfText(f)
<1>1. PICK tt \in Seq(Seq(Tokens)) : tt = LineTexts(f) /\ Len(tt) = Len(f)
  BY LineTextsType
<1>2. SubSeq(tt, 1, Len(tt)) = tt
  OBVIOUS
<1>3. 0 + 1 = 1
  OBVIOUS
<1> QED BY <1>1, <1>2, <1>3 DEF LinesBehind, ConfText, LineTexts

LEMMA NoLineBehind ==
  ASSUME NEW f, Lined(f) PROVE LinesBehind(f, Len(f)) = <<>>
<1>1. PICK n \in Nat : n = Len(f)
  BY LineTextsType
<1>2. SubSeq(LineTexts(f), n + 1, n) = <<>>
  BY SubSeqEmpty
<1> QED BY <1>1, <1>2, FlattenNone DEF LinesBehind

LEMMA NextLine ==
  ASSUME NEW f, Lined(f), NEW k \in Nat, NEW m, m = k + 1, m <= Len(f)
  PROVE  /\ f[m] \in LineParts
         /\ LinesBehind(f, k) = TextOf(f[m]) \o LinesBehind(f, m)
         /\ LinesBehind(f, m) \in Seq(Tokens)
         /\ LinesBehind(f, m) # <<>> =>
              f[m].end # <<>> /\ Last(f[m].end) = "LF"
<1>1. PICK tt \in Seq(Seq(Tokens)), n \in Nat :
        tt = LineTexts(f) /\ n = Len(tt) /\ n = Len(f)
  BY LineTextsType
<1>2. m \in 1..n /\ m \in Nat
  BY <1>1
<1>3. f[m] \in LineParts
  <2>1. f \in Seq(LineParts)
    BY LineTextsType
  <2> QED BY <1>1, <1>2, <2>1
<1>4. tt[m] = TextOf(f[m]) /\ tt[m] \in Seq(Tokens)
  <2>1. tt[m] = TextOf(f[m])
    BY <1>1, <1>2 DEF LineTexts
  <2> QED BY <1>3, <2>1, TextShape
<1>5. PICK uu \in Seq(Seq(Tokens)) : uu = SubSeq(tt, m + 1, n)
  <2>1. SubSeq(tt, m + 1, n) \in Seq(Seq(Tokens))
    <3>1. m + 1 \in Nat \ {0} /\ n \in 0..Len(tt)
      BY <1>1, <1>2
    <3> QED BY <3>1, SubSeqIn
  <2> QED BY <2>1
<1>6. SubSeq(tt, m, n) = <<tt[m]>> \o uu
  <2>1. m \in 1..Len(tt) /\ n \in m..Len(tt)
    BY <1>1, <1>2
  <2> QED BY <1>5, <2>1, SubSeqRecursiveFirst
<1>7. FlattenSeq(<<tt[m]>> \o uu) = FlattenSeq(<<tt[m]>>) \o FlattenSeq(uu)
  <2>1. <<tt[m]>> \in Seq(Seq(Tokens))
    BY <1>4
  <2> QED BY <2>1, FlattenConcat
<1>8. FlattenSeq(<<tt[m]>>) = tt[m] /\ FlattenSeq(uu) \in Seq(Tokens)
  BY <1>4, FlattenOne, FlattenType
<1>9. LinesBehind(f, k) = TextOf(f[m]) \o LinesBehind(f, m)
      /\ LinesBehind(f, m) = FlattenSeq(uu)
  BY <1>1, <1>4, <1>5, <1>6, <1>7, <1>8 DEF LinesBehind
<1>10. ASSUME LinesBehind(f, m) # <<>>
       PROVE  f[m].end # <<>> /\ Last(f[m].end) = "LF"
  <2>1. m # n
    BY <1>1, <1>10, NoLineBehind
  <2>2. m \in 1..Len(f) - 1
    BY <1>1, <1>2, <2>1
  <2> QED BY <2>2 DEF Lined
<1> QED BY <1>3, <1>8, <1>9, <1>10

-----------------------------------------------------------------------------
(* What the lookups find after some lines are those lines' settings.       *)

Asked == {<<"ip">>, <<"fileroot">>, <<"listenport">>}
SetUpTo(f, name, k) ==
  {j \in 1..k : f[j].indent = <<>> /\ Lower(f[j].name) = name}
Agrees(it, f, name, k) ==
  IF SetUpTo(f, name, k) = {} THEN Matches(it, name) = {}
  ELSE /\ Matches(it, name) # {}
       /\ it[Min(Matches(it, name))].itemContent
            = f[Min(SetUpTo(f, name, k))].value

\* The names that are asked for are in lower case.
LEMMA OneLower ==
  ASSUME NEW w, w \notin DOMAIN LowerCase PROVE Lower(<<w>>) = <<w>>
<1>1. Len(<<w>>) = 1 /\ \A i \in 1..1 : <<w>>[i] = w
  OBVIOUS
<1>2. Lower(<<w>>) = [i \in 1..1 |-> w]
  BY <1>1 DEF Lower
<1>3. <<w>> = [i \in 1..1 |-> w]
  OBVIOUS
<1> QED BY <1>2, <1>3

LEMMA AskedLower == \A name \in Asked : Lower(name) = name
<1>1. "ip" \notin DOMAIN LowerCase /\ "fileroot" \notin DOMAIN LowerCase
      /\ "listenport" \notin DOMAIN LowerCase
  BY ProgramAssumption
<1> QED BY <1>1, OneLower DEF Asked

\* The first stays the first when a later one comes.
LEMMA MinKept ==
  ASSUME NEW S \in SUBSET Nat, NEW m \in Nat, \A x \in S : x <= m
  PROVE  /\ S # {} => Min(S) \in S /\ Min(S \cup {m}) = Min(S)
         /\ S = {} => Min(S \cup {m}) = m
<1>1. ASSUME S # {} PROVE Min(S) \in S /\ Min(S \cup {m}) = Min(S)
  <2>1. PICK u \in S : u = Min(S) /\ \A y \in S : u <= y
    BY <1>1, LeastOf
  <2>2. PICK T \in SUBSET Nat : T = S \cup {m}
    OBVIOUS
  <2>3. u \in T /\ \A y \in T : u <= y
    BY <2>1, <2>2
  <2>4. Min(T) = u
    BY <2>3, LeastIs
  <2> QED BY <2>1, <2>2, <2>4
<1>2. ASSUME S = {} PROVE Min(S \cup {m}) = m
  <2>1. PICK T \in SUBSET Nat : T = S \cup {m}
    OBVIOUS
  <2>2. m \in T /\ \A y \in T : m <= y
    BY <1>2, <2>1
  <2>3. Min(T) = m
    BY <2>2, LeastIs
  <2> QED BY <2>1, <2>3
<1> QED BY <1>1, <1>2

\* Nothing is set by a line that is passed over.
LEMMA AgreesPassed ==
  ASSUME NEW it, NEW f, NEW name, NEW k \in Nat, NEW m, m = k + 1,
         f[m].indent # <<>> \/ (f[m].name = <<>> /\ name # <<>>),
         Agrees(it, f, name, k)
  PROVE  Agrees(it, f, name, m)
<1>1. 1..m = 1..k \cup {m}
  OBVIOUS
<1>2. f[m].indent # <<>> \/ Lower(f[m].name) # name
  <2>1. Lower(<<>>) = <<>>
    BY DEF Lower
  <2> QED BY <2>1
<1>3. SetUpTo(f, name, m) = SetUpTo(f, name, k)
  BY <1>1, <1>2 DEF SetUpTo
<1> QED BY <1>3 DEF Agrees

\* An item more is found behind those there were.
LEMMA AgreesStored ==
  ASSUME NEW I, NEW it \in Seq(I), NEW e, NEW f, NEW name, Lower(name) = name,
         NEW k \in Nat, NEW m, m = k + 1, f[m].indent = <<>>,
         e.itemName = f[m].name, e.itemContent = f[m].value,
         NEW it2, it2 = Append(it, e), Agrees(it, f, name, k)
  PROVE  Agrees(it2, f, name, m)
<1>1. PICK l \in Nat, n \in Nat : l = Len(it) /\ n = l + 1
  OBVIOUS
<1>2. /\ Len(it2) = n /\ it2[n] = e
      /\ \A i \in 1..l : it2[i] = it[i]
  <2>1. it \in Seq(I \cup {e}) /\ e \in I \cup {e}
    OBVIOUS
  <2> QED BY <1>1, <2>1, AppendProperties
<1>3. 1..m = 1..k \cup {m} /\ 1..n = 1..l \cup {n} /\ m \notin 1..k /\ n \notin 1..l
  BY <1>1
<1> DEFINE S == SetUpTo(f, name, k)
           M == Matches(it, name)
<1>4. S \in SUBSET Nat /\ (\A x \in S : x <= m) /\ m \in Nat
  BY DEF SetUpTo
<1>5. M \in SUBSET Nat /\ (\A x \in M : x <= n) /\ M \subseteq 1..l
  BY <1>1 DEF Matches
<1>6. SetUpTo(f, name, m) = IF Lower(f[m].name) = name THEN S \cup {m} ELSE S
  BY <1>3 DEF SetUpTo
<1>7. Matches(it2, name) = IF Lower(f[m].name) = name THEN M \cup {n} ELSE M
  <2>1. Matches(it2, name) = {i \in 1..n : Lower(it2[i].itemName) = name}
    BY <1>2 DEF Matches
  <2>2. M = {i \in 1..l : Lower(it2[i].itemName) = name}
    BY <1>1, <1>2 DEF Matches
  <2>3. Lower(it2[n].itemName) = Lower(f[m].name)
    BY <1>2
  <2> QED BY <1>3, <2>1, <2>2, <2>3
<1>8. IF S = {} THEN M = {}
      ELSE M # {} /\ it[Min(M)].itemContent = f[Min(S)].value
  BY DEF Agrees
<1> HIDE DEF S, M
<1>9. M # {} => it2[Min(M)] = it[Min(M)]
  BY <1>2, <1>4, <1>5, MinKept
<1>10. CASE Lower(f[m].name) # name
  <2>1. SetUpTo(f, name, m) = S /\ Matches(it2, name) = M
    BY <1>6, <1>7, <1>10
  <2> QED BY <1>8, <1>9, <2>1 DEF Agrees
<1>11. CASE Lower(f[m].name) = name
  <2>1. PICK S2, M2 : S2 = S \cup {m} /\ M2 = M \cup {n}
    OBVIOUS
  <2>2. SetUpTo(f, name, m) = S2 /\ Matches(it2, name) = M2
    BY <1>6, <1>7, <1>11, <2>1
  <2>3. M2 # {} /\ S2 # {}
    BY <2>1
  <2>4. CASE S = {}
    <3>1. Min(S2) = m /\ Min(M2) = n
      BY <1>4, <1>5, <1>8, <2>1, <2>4, MinKept
    <3> QED BY <1>2, <2>2, <2>3, <3>1 DEF Agrees
  <2>5. CASE S # {}
    <3>1. Min(S2) = Min(S) /\ Min(M2) = Min(M) /\ M # {}
      BY <1>4, <1>5, <1>8, <2>1, <2>5, MinKept
    <3> QED BY <1>8, <1>9, <2>2, <2>3, <2>5, <3>1 DEF Agrees
  <2> QED BY <2>4, <2>5
<1> QED BY <1>10, <1>11

\* Before the first line nothing is set and nothing is found.
LEMMA AgreesAtFirst ==
  ASSUME NEW f, NEW name PROVE Agrees(<<>>, f, name, 0)
<1>1. SetUpTo(f, name, 0) = {}
  BY DEF SetUpTo
<1>2. Matches(<<>>, name) = {}
  BY DEF Matches
<1> QED BY <1>1, <1>2 DEF Agrees

-----------------------------------------------------------------------------
(* Loading a file whose lines fit.                                         *)

Fitting(f) == \A k \in 1..Len(f) : LineFits(f[k])
Loaded(it, r, f, k) ==
  r = LinesBehind(f, k) /\ \A name \in Asked : Agrees(it, f, name, k)

Loading ==
  /\ main = "fopen" =>
       items = <<>> /\ (conf \notin {Absent, Unreadable} => rest = ConfText(conf))
  /\ main = "load" =>
       /\ conf # Absent
       /\ conf # Unreadable /\ Fitting(conf) =>
            \E k \in 0..Len(conf) : Loaded(items, rest, conf, k)
  /\ main = "settings" =>
       /\ conf \notin {Absent, Unreadable}
       /\ Fitting(conf) => \A name \in Asked : Agrees(items, conf, name, Len(conf))

\* The line at hand is passed over or makes an item.
LEMMA OneMoreLine ==
  ASSUME NEW f, Lined(f), Fitting(f), NEW k \in Nat, NEW I, NEW it \in Seq(I),
         NEW r, Loaded(it, r, f, k), k <= Len(f), r # <<>>
  PROVE  \E m \in 0..Len(f) :
           /\ \/ Ignored(Fgets(r)) /\ Loaded(it, SubSeq(r, Len(Fgets(r)) + 1, Len(r)), f, m)
              \/ /\ ~Ignored(Fgets(r)) /\ ~Overruns(Stripped(Fgets(r)))
                 /\ Loaded(Append(it, Store(Stripped(Fgets(r)))),
                           SubSeq(r, Len(Fgets(r)) + 1, Len(r)), f, m)
<1>1. PICK n \in Nat : n = Len(f)
  BY LineTextsType
<1>2. k # n
  BY <1>1, NoLineBehind DEF Loaded
<1>3. PICK m \in 0..n : m = k + 1 /\ m <= Len(f) /\ m \in 1..Len(f)
  BY <1>1, <1>2
<1>4. PICK h \in LineParts, u \in Seq(Tokens) :
        h = f[m] /\ u = LinesBehind(f, m)
  BY <1>3, NextLine
<1>5. r = TextOf(h) \o u /\ (u # <<>> => h.end # <<>> /\ Last(h.end) = "LF")
  BY <1>3, <1>4, NextLine DEF Loaded
<1>6. LineFits(h)
  BY <1>3, <1>4 DEF Fitting
<1>7. Chars(TextOf(h)) < LineSize
  BY <1>6 DEF LineFits
<1>8. Fgets(r) = TextOf(h) /\ SubSeq(r, Len(TextOf(h)) + 1, Len(r)) = u
  BY <1>5, <1>7, LineTaken
<1>9. CASE h.indent # <<>> \/ h.name = <<>>
  <2>1. Ignored(TextOf(h))
    BY <1>9, LinePassed
  <2>2. \A name \in Asked : Agrees(it, f, name, m)
    <3>1. \A name \in Asked : name # <<>>
      <4>1. \A w : Len(<<w>>) = 1 /\ Len(<<>>) = 0
        OBVIOUS
      <4>2. \A w : <<w>> # <<>>
        BY <4>1
      <4> QED BY <4>2 DEF Asked
    <3> QED BY <1>3, <1>4, <1>9, <3>1, AgreesPassed DEF Loaded
  <2>3. Loaded(it, u, f, m)
    BY <1>4, <2>2 DEF Loaded
  <2> QED BY <1>1, <1>3, <1>8, <2>1, <2>3
<1>10. CASE h.indent = <<>> /\ h.name # <<>>
  <2>1. PICK e : e = Store(Stripped(TextOf(h)))
    OBVIOUS
  <2>2. ~Ignored(TextOf(h)) /\ ~Overruns(Stripped(TextOf(h)))
        /\ e = [itemName |-> h.name, itemContent |-> h.value]
    BY <1>6, <1>10, <2>1, LineStored
  <2>3. PICK it2 : it2 = Append(it, e)
    OBVIOUS
  <2>4. e.itemName = f[m].name /\ e.itemContent = f[m].value /\ f[m].indent = <<>>
    BY <1>4, <1>10, <2>2
  <2>5. \A name \in Asked : Agrees(it2, f, name, m)
    BY <1>3, <2>3, <2>4, AgreesStored, AskedLower DEF Loaded
  <2>6. Loaded(it2, u, f, m)
    BY <1>4, <2>5 DEF Loaded
  <2> QED BY <1>1, <1>3, <1>8, <2>1, <2>2, <2>3, <2>6
<1> QED BY <1>9, <1>10

\* What the loading steps do.
LEMMA FileIsLined ==
  ASSUME KInv, conf \notin {Absent, Unreadable} PROVE Lined(conf)
BY FileAssumption DEF KInv, TypeOK

LEMMA FopenStep == ASSUME KInv, Loading, Fopen PROVE Loading'
<1>1. /\ main = "fopen" /\ UNCHANGED <<conf, rest, items>>
      /\ main' = IF conf = Absent THEN "exited" ELSE "load"
  BY DEF Fopen, config
<1>2. ASSUME conf \notin {Absent, Unreadable}
      PROVE  \E k \in 0..Len(conf) : Loaded(items, rest, conf, k)
  <2>1. Lined(conf)
    BY <1>2, FileIsLined
  <2>2. rest = LinesBehind(conf, 0) /\ items = <<>>
    BY <1>1, <1>2, <2>1, AllLinesBehind DEF Loading
  <2>3. \A name \in Asked : Agrees(items, conf, name, 0)
    BY <2>2, AgreesAtFirst
  <2>4. 0 \in 0..Len(conf)
    BY <2>1, LineTextsType
  <2> QED BY <2>2, <2>3, <2>4 DEF Loaded
<1> QED BY <1>1, <1>2 DEF Loading

LEMMA LoadLineKeeps == ASSUME KInv, Loading, LoadLine PROVE Loading'
<1>1. /\ main = "load" /\ rest # <<>> /\ UNCHANGED conf
      /\ main' \in {"load", "undefined"}
  BY DEF LoadLine
<1>2. PICK r, g : r = rest /\ g = Fgets(rest)
  OBVIOUS
<1>3. /\ rest' = SubSeq(r, Len(g) + 1, Len(r))
      /\ \/ Ignored(g) /\ UNCHANGED <<main, items>>
         \/ ~Ignored(g) /\ Overruns(Stripped(g)) /\ main' = "undefined"
         \/ /\ ~Ignored(g) /\ ~Overruns(Stripped(g))
            /\ items' = Append(items, Store(Stripped(g)))
  BY <1>2 DEF LoadLine
<1>4. ASSUME conf # Unreadable, Fitting(conf)
      PROVE  \E k \in 0..Len(conf) : Loaded(items', rest', conf, k)
  <2>1. Lined(conf)
    BY <1>1, <1>4, FileIsLined DEF Loading
  <2>2. PICK k \in 0..Len(conf) : Loaded(items, rest, conf, k)
    BY <1>1, <1>4 DEF Loading
  <2>3. k \in Nat /\ k <= Len(conf) /\ items \in Seq(ItemsOf(items))
    BY <2>1, <2>2, LineTextsType DEF KInv, Texts
  <2>4. PICK m \in 0..Len(conf) :
          \/ Ignored(g) /\ Loaded(items, rest', conf, m)
          \/ /\ ~Ignored(g) /\ ~Overruns(Stripped(g))
             /\ Loaded(Append(items, Store(Stripped(g))), rest', conf, m)
    BY <1>1, <1>2, <1>3, <1>4, <2>1, <2>2, <2>3, OneMoreLine
  <2> QED BY <1>3, <2>4
<1> QED BY <1>1, <1>4 DEF Loading

LEMMA LoadDoneStep == ASSUME KInv, Loading, LoadDone PROVE Loading'
<1>1. /\ main = "load" /\ main' = "settings" /\ UNCHANGED <<conf, rest, items>>
      /\ conf # Unreadable /\ rest = <<>>
  BY DEF LoadDone, config
<1>2. conf \notin {Absent, Unreadable}
  BY <1>1 DEF Loading
<1>3. ASSUME Fitting(conf)
      PROVE  \A name \in Asked : Agrees(items, conf, name, Len(conf))
  <2>1. Lined(conf)
    BY <1>2, FileIsLined
  <2>2. PICK k \in 0..Len(conf) : Loaded(items, rest, conf, k)
    BY <1>1, <1>3 DEF Loading
  <2>3. k = Len(conf)
    <3>1. SUFFICES ASSUME k # Len(conf) PROVE FALSE
      OBVIOUS
    <3>2. PICK m : m = k + 1 /\ m <= Len(conf) /\ k \in Nat
      BY <2>1, <3>1, LineTextsType
    <3>3. PICK h \in LineParts, u \in Seq(Tokens) :
            h = conf[m] /\ u = LinesBehind(conf, m)
      BY <2>1, <3>2, NextLine
    <3>4. TextOf(h) \o u = <<>>
      BY <1>1, <2>1, <2>2, <3>2, <3>3, NextLine DEF Loaded
    <3>5. TextOf(h) \in Seq(Tokens) /\ TextOf(h) # <<>>
      <4>1. Len(TextOf(h)) > 0 /\ Len(<<>>) = 0
        BY TextShape
      <4> QED BY <4>1, TextShape
    <3> QED BY <3>4, <3>5, EndsOfConcat
  <2> QED BY <2>2, <2>3 DEF Loaded
<1> QED BY <1>1, <1>2, <1>3 DEF Loading

LEMMA LoadingInit == Init => Loading
BY DEF Init, Loading

\* What loads nothing.
LEMMA NotLoading ==
  ASSUME Loading, UNCHANGED <<main, config>>
         \/ main' \notin {"fopen", "load", "settings"}
  PROVE  Loading'
BY DEF Loading, config

LEMMA LoadingStep == ASSUME KInv, Loading, [Next]_vars PROVE Loading'
<1>1. CASE Fopen
  BY <1>1, FopenStep
<1>2. CASE LoadLine
  BY <1>2, LoadLineKeeps
<1>3. CASE LoadDone
  BY <1>3, LoadDoneStep
<1>4. CASE ReadFails \/ UNCHANGED vars
  BY <1>4, NotLoading DEF ReadFails, vars
<1>5. CASE GetSettings \/ ServerStart \/ AcceptConnection \/ SelectConnection
  BY <1>5, NotLoading
  DEF GetSettings, ServerStart, AcceptConnection, SelectConnection
<1>6. CASE HandleRead \/ CloseConnection \/ ParseRequest \/ InfoPrint
  BY <1>6, NotLoading
  DEF HandleRead, CloseConnection, ParseRequest, ParseRequestLine, ParseHeader,
      HeaderOutOfRange, HeadersDone, InfoPrint, Killed
<1>7. CASE HandleWrite
  BY <1>7, NotLoading
  DEF HandleWrite, Stat, OpenFile, Mmap, SendFile, BusError, HandleError,
      Sent, Killed
<1>8. CASE Client \/ Arrive \/ FileChanges
  BY <1>8, NotLoading
  DEF Client, Connect, SendRequest, Receive, RecvTimeout, RecvEnd, RecvReset,
      Arrive, FileChanges
<1> QED
  BY <1>1, <1>2, <1>3, <1>4, <1>5, <1>6, <1>7, <1>8 DEF Next, ServerThread, Main

\* A port keeps its value in a uint16_t.
LEMMA SmallRemainder ==
  ASSUME NEW n \in Nat, NEW p \in Nat, p < n PROVE p % n = p
<1>1. p = n * 0 + p
  OBVIOUS
<1> QED BY <1>1

\* At the end the lookups find the first line of each name.
LEMMA LoadedAsWritten == ASSUME KInv, Loading PROVE SettingsAsWritten
<1>1. SUFFICES ASSUME main = "settings", Fitting(conf)
               PROVE  /\ Ip = Written(<<"ip">>)
                      /\ FileRoot = Written(<<"fileroot">>)
                      /\ PortWritten \in Ports => Port = PortWritten
  BY Zenon DEF SettingsAsWritten, Fitting
<1>2. \A name \in Asked : Agrees(items, conf, name, Len(conf))
  BY <1>1 DEF Loading
<1>3. ASSUME NEW name \in Asked
      PROVE  IF Settings(name) = {} THEN Matches(items, name) = {}
             ELSE /\ Matches(items, name) # {}
                  /\ items[Min(Matches(items, name))].itemContent = Written(name)
  <2>1. Settings(name) = SetUpTo(conf, name, Len(conf))
    BY DEF Settings, SetUpTo
  <2> QED BY <1>2, <2>1 DEF Agrees, Written
<1>4. \A name \in Asked : GetString(items, name) = Written(name)
  BY <1>3 DEF GetString, Written
<1>5. Ip = Written(<<"ip">>) /\ FileRoot = Written(<<"fileroot">>)
  BY <1>4 DEF Ip, FileRoot, Asked
<1>6. GetInt(items, <<"listenport">>, 12345) = PortWritten
  <2>1. PICK name \in Asked : name = <<"listenport">>
    BY DEF Asked
  <2> QED BY <1>3, <2>1 DEF GetInt, PortWritten, Atoi
<1>7. ASSUME PortWritten \in Ports PROVE Port = PortWritten
  <2>1. PICK p \in Nat, n \in Nat : p = PortWritten /\ n = 65536 /\ p < n
    BY <1>7 DEF Ports
  <2>2. p % n = p
    BY <2>1, SmallRemainder
  <2> QED BY <1>6, <2>1, <2>2 DEF Port
<1> QED BY Zenon, <1>5, <1>7

\* A file of any number of lines that fit gives each setting the first value
\* written for it (c_conf.cpp: Load, GetString, GetInt; Main.cpp:12-17).
THEOREM SettingsRead == Spec => []SettingsAsWritten
<1>1. KInv /\ Loading => SettingsAsWritten
  BY LoadedAsWritten
<1>2. KInv /\ Loading /\ [Next]_vars => Loading'
  BY LoadingStep
<1> QED
  BY <1>1, <1>2, KindsInit, KindsStep, AnswersInvariant, LoadingInit, PTL DEF Spec

\* strcpy and strncpy stay in their item while the lines of the file fit,
\* however many there are and whatever is in them (c_conf.cpp:61-62).
FittingStaysInside ==
  main = "undefined" /\ conf \notin {Absent, Unreadable} => ~Fitting(conf)

\* Only LoadLine can overrun, and a line that fits does not.
LEMMA OverrunsNothing ==
  ASSUME KInv, Loading, FittingStaysInside, [Next]_vars
  PROVE  FittingStaysInside'
<1>1. CASE LoadLine
  <2>1. main = "load" /\ rest # <<>> /\ UNCHANGED conf
    BY <1>1 DEF LoadLine
  <2>2. ASSUME conf \notin {Absent, Unreadable}, Fitting(conf)
        PROVE  main' # "undefined"
    <3>1. Lined(conf)
      BY <2>2, FileIsLined
    <3>2. PICK k \in 0..Len(conf) : Loaded(items, rest, conf, k)
      BY <2>1, <2>2 DEF Loading
    <3>3. k \in Nat /\ k <= Len(conf) /\ items \in Seq(ItemsOf(items))
      BY <3>1, <3>2, LineTextsType DEF KInv, Texts
    <3>4. Ignored(Fgets(rest)) \/ ~Overruns(Stripped(Fgets(rest)))
      BY <2>1, <2>2, <3>1, <3>2, <3>3, OneMoreLine
    <3> QED BY <1>1, <2>1, <3>4 DEF LoadLine
  <2> QED BY <2>1, <2>2 DEF FittingStaysInside
<1>2. CASE UNCHANGED <<main, conf>>
  BY <1>2 DEF FittingStaysInside
<1>3. CASE main' # "undefined"
  BY <1>3 DEF FittingStaysInside
<1>4. \/ LoadLine
      \/ UNCHANGED <<main, conf>>
      \/ main' # "undefined"
  <2>1. CASE Main
    BY <2>1 DEF Main, Fopen, ReadFails, LoadDone, GetSettings, ServerStart,
       AcceptConnection, SelectConnection, vars, config
  <2>2. CASE HandleRead \/ CloseConnection \/ ParseRequest \/ InfoPrint
    BY <2>2
    DEF HandleRead, CloseConnection, ParseRequest, ParseRequestLine, ParseHeader,
        HeaderOutOfRange, HeadersDone, InfoPrint, Killed, config
  <2>3. CASE HandleWrite
    BY <2>3
    DEF HandleWrite, Stat, OpenFile, Mmap, SendFile, BusError, HandleError,
        Sent, Killed, config
  <2>4. CASE Client \/ Arrive \/ FileChanges \/ UNCHANGED vars
    BY <2>4
    DEF Client, Connect, SendRequest, Receive, RecvTimeout, RecvEnd, RecvReset,
        Arrive, FileChanges, vars, config
  <2> QED BY <2>1, <2>2, <2>3, <2>4 DEF Next, ServerThread
<1> QED BY <1>1, <1>2, <1>3, <1>4

\* Load copies the lines of a file into its items without writing beside them,
\* for every file whose lines fit.
THEOREM NoOverrun == Spec => []FittingStaysInside
<1>1. Init => FittingStaysInside
  BY DEF Init, FittingStaysInside
<1>2. KInv /\ Loading /\ FittingStaysInside /\ [Next]_vars => FittingStaysInside'
  BY OverrunsNothing
<1>3. KInv /\ Loading /\ [Next]_vars => Loading'
  BY LoadingStep
<1> QED
  BY <1>1, <1>2, <1>3, KindsInit, KindsStep, AnswersInvariant, LoadingInit, PTL
  DEF Spec

\* A header of a whole request stands where the parser is.
LEMMA HeaderAhead ==
  ASSUME Understood, WellFormed(request), whole,
         main = "headers", ~HeadersEnd(recvBuffer, pos)
  PROVE  \E c \in Nat, f \in Nat, t \in Nat :
           /\ Colon(recvBuffer, pos) = c /\ ValueFrom(recvBuffer, c) = f
           /\ ValueTo(recvBuffer, f) = t /\ f <= Len(recvBuffer)
           /\ pos < Behind(pos, t) /\ Behind(pos, t) <= Len(recvBuffer)
<1>1. PICK k \in 0..Len(request.headers) : ReadUpTo(k)
  BY DEF Understood
<1>2. PICK s, h : s = BehindText(request) /\ h = request.headers[k + 1]
  OBVIOUS
<1>3. recvBuffer = s /\ pos = Len(Before(request, k))
  BY <1>1, <1>2 DEF Understood, ReadUpTo
<1>4. k < Len(request.headers) /\ k \in Nat
  <2>1. k # Len(request.headers)
    BY <1>2, <1>3, HeadersAtEnd
  <2>2. Len(request.headers) \in Nat
    BY RequestParts
  <2> QED BY <2>1, <2>2
<1>5. h \in HeaderParts
  BY <1>2, <1>4, RequestParts
<1>6. s \in Seq(Letters) /\ Len(s) < SizeT
  BY <1>2, TextParts, PartsFit
<1>7. Stands(HeaderText(h), s, pos) /\ pos \in Nat
  BY <1>2, <1>3, <1>4, NextHeader, BeforeType
<1>8. PICK c \in Nat, f \in Nat, t \in Nat :
        /\ Colon(s, pos) = c /\ ValueFrom(s, c) = f /\ ValueTo(s, f) = t
        /\ f <= Len(s)
        /\ Behind(pos, t) = pos + Len(HeaderText(h))
  BY <1>5, <1>6, <1>7, HeaderParsed
<1>9. pos < pos + Len(HeaderText(h)) /\ pos + Len(HeaderText(h)) <= Len(s)
  <2>1. PICK e \in Seq(Letters) : e = HeaderText(h)
    BY <1>5, HeaderTextType
  <2>2. PICK g \in Seq(Letters), o \in Seq(Letters) :
          e = g \o o /\ o = <<"CR", "LF">>
    <3>1. /\ h.key \in Seq(Letters) /\ h.blanks \in Seq(Letters)
          /\ h.value \in Seq(Letters) /\ <<":">> \in Seq(Letters)
          /\ <<"CR", "LF">> \in Seq(Letters)
      BY <1>5, PartsAreTexts, Punctuation
    <3>2. ((h.key \o <<":">>) \o h.blanks) \o h.value \in Seq(Letters)
      BY <3>1, ConcatSize
    <3> QED BY <2>1, <3>1, <3>2 DEF HeaderText
  <2>3. Len(o) = 2
    BY <2>2
  <2>4. Len(e) \in Nat /\ Len(e) > 0
    BY <2>2, <2>3, ConcatSize
  <2> QED BY <1>7, <2>1, <2>4 DEF Stands
<1> QED BY <1>3, <1>8, <1>9

\* A request that came in one piece never makes the parser throw, and every
\* header takes it further, without leaving what was received: the safety
\* half of ParsingEnds (HttpData.cpp:97-112).
WholeGoesOn ==
  whole => /\ ~HeaderOutOfRange
           /\ ParseHeader => pos < pos' /\ pos' <= Len(recvBuffer)

LEMMA HeaderTaken ==
  ASSUME KInv, Understood PROVE WholeGoesOn
<1>1. SUFFICES ASSUME whole, HeaderOutOfRange \/ ParseHeader
               PROVE  /\ ~HeaderOutOfRange
                      /\ ParseHeader => pos < pos' /\ pos' <= Len(recvBuffer)
  BY DEF WholeGoesOn
<1>2. WellFormed(request)
  BY RequestAssumption DEF KInv, TypeOK
<1>3. main = "headers" /\ ~HeadersEnd(recvBuffer, pos)
  BY <1>1 DEF HeaderOutOfRange, ParseHeader
<1>4. PICK c \in Nat, f \in Nat, t \in Nat :
        /\ Colon(recvBuffer, pos) = c /\ ValueFrom(recvBuffer, c) = f
        /\ ValueTo(recvBuffer, f) = t /\ f <= Len(recvBuffer)
        /\ pos < Behind(pos, t) /\ Behind(pos, t) <= Len(recvBuffer)
  BY <1>1, <1>2, <1>3, HeaderAhead
<1>5. ~HeaderOutOfRange
  <2>1. HeaderOutOfRange => f > Len(recvBuffer)
    BY <1>4 DEF HeaderOutOfRange
  <2>2. recvBuffer \in Seq(Symbols)
    BY DEF KInv, Texts
  <2>3. ~(f > Len(recvBuffer))
    BY <1>4, <2>2
  <2> QED BY <2>1, <2>3
<1>6. ParseHeader => pos' = Behind(pos, t)
  BY <1>4 DEF ParseHeader
<1> QED BY <1>4, <1>5, <1>6

\* The parser goes on through every whole request, to the end of its headers.
THEOREM WholeRequestsGoOn == Spec => [][WholeGoesOn]_vars
<1>1. KInv /\ Understood => WholeGoesOn
  BY HeaderTaken
<1>2. KInv /\ Understood /\ [Next]_vars => Understood'
  BY UnderstoodStep
<1> QED
  BY <1>1, <1>2, KindsInit, KindsStep, AnswersInvariant, UnderstoodInit, PTL DEF Spec
=============================================================================
