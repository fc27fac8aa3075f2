------------------------ MODULE AsyncLogging_proofs ------------------------
(***************************************************************************)
(* Proofs about AsyncLogging, for any lines, buffers and limits.  The      *)
(* invariants OwnedOnce and AssertionsHold are not inductive: that two     *)
(* buffers can be taken back after a batch depends on nextBuffer_ being    *)
(* given away only together with a full buffer, and that a fresh buffer is *)
(* empty on freed buffers having been reset.  IInv adds those facts.       *)
(***************************************************************************)
EXTENDS AsyncLogging, SequenceLemmas

\* How far the starter, the logging thread and stop() can be apart.
Phases ==
  /\ starter \in {"new", "create"} => logger = "none"
  /\ starter # "done" => stopper = "idle"
  /\ starter # "new" /\ stopper = "idle" => running
  /\ starter = "done" => Counted
  /\ IF starter = "new" THEN current = NULL /\ next = NULL
                        ELSE current # NULL
  /\ logger \in {"none", "entry", "failed"} =>
       new1 = NULL /\ new2 = NULL /\ toWrite = <<>>

\* nextBuffer_ is missing only while a full buffer is queued.
NextMissing == starter # "new" /\ next = NULL => buffers # <<>>

\* The spare the logging thread kept is empty, and so is every free block.
EmptyBuffers ==
  /\ logger = "write" /\ new2 # NULL => data[new2] = <<>>
  /\ \A b \in Buffers : b \notin Referenced => data[b] = <<>>

IInv == /\ TypeOK /\ OwnedOnce /\ AssertionsHold
        /\ Phases /\ NextMissing /\ EmptyBuffers

-----------------------------------------------------------------------------
(* Sequences of buffers.                                                   *)

\* push_back adds one element to the range, and keeps the elements distinct
\* when the new one was not there.
LEMMA AppendFacts ==
  ASSUME NEW T, NEW s \in Seq(T), NEW e \in T
  PROVE  /\ Append(s, e) \in Seq(T)
         /\ Len(Append(s, e)) = Len(s) + 1
         /\ Range(Append(s, e)) = Range(s) \cup {e}
         /\ IsInjective(s) /\ e \notin Range(s) => IsInjective(Append(s, e))
<1> DEFINE t == Append(s, e)
<1>1. t \in Seq(T) /\ Len(t) = Len(s) + 1 /\ t[Len(s) + 1] = e
      /\ \A i \in 1..Len(s) : t[i] = s[i]
  OBVIOUS
<1>2. DOMAIN s = 1..Len(s) /\ DOMAIN t = 1..(Len(s) + 1)
  BY <1>1
<1>3. Len(s) \in Nat
  OBVIOUS
<1>4. Range(t) = Range(s) \cup {e}
  BY <1>1, <1>2, <1>3 DEF Range
<1>5. ASSUME IsInjective(s), e \notin Range(s) PROVE IsInjective(t)
  <2> SUFFICES ASSUME NEW i \in DOMAIN t, NEW j \in DOMAIN t, t[i] = t[j]
               PROVE  i = j
    BY DEF IsInjective
  <2>1. CASE i \in 1..Len(s) /\ j \in 1..Len(s)
    BY <1>1, <1>2, <1>5, <2>1 DEF IsInjective
  <2>2. CASE i = Len(s) + 1 \/ j = Len(s) + 1
    BY <1>1, <1>2, <1>3, <1>5, <2>2 DEF Range
  <2> QED BY <1>2, <1>3, <2>1, <2>2
<1> QED BY <1>1, <1>4, <1>5

\* A prefix of a sequence has some of its elements, and repeats none of them
\* if the sequence does not.
LEMMA PrefixFacts ==
  ASSUME NEW T, NEW s \in Seq(T), NEW n \in 0..Len(s)
  PROVE  /\ SubSeq(s, 1, n) \in Seq(T)
         /\ Len(SubSeq(s, 1, n)) = n
         /\ \A i \in 1..n : SubSeq(s, 1, n)[i] = s[i]
         /\ Range(SubSeq(s, 1, n)) \subseteq Range(s)
         /\ IsInjective(s) => IsInjective(SubSeq(s, 1, n))
<1> DEFINE t == SubSeq(s, 1, n)
<1>1. t \in Seq(T) /\ Len(t) = n /\ \A i \in 1..n : t[i] = s[i]
  OBVIOUS
<1>2. DOMAIN t = 1..n /\ DOMAIN s = 1..Len(s) /\ 1..n \subseteq 1..Len(s)
  BY <1>1
<1>3. Range(t) \subseteq Range(s)
  BY <1>1, <1>2 DEF Range
<1>4. IsInjective(s) => IsInjective(t)
  BY <1>1, <1>2 DEF IsInjective
<1> QED BY <1>1, <1>3, <1>4

\* What is left behind a prefix has some of the elements.
LEMMA SuffixFacts ==
  ASSUME NEW T, NEW s \in Seq(T), NEW n \in 0..Len(s)
  PROVE  /\ SubSeq(s, n + 1, Len(s)) \in Seq(T)
         /\ Len(SubSeq(s, n + 1, Len(s))) = Len(s) - n
         /\ \A i \in 1..(Len(s) - n) : SubSeq(s, n + 1, Len(s))[i] = s[n + i]
         /\ Range(SubSeq(s, n + 1, Len(s))) \subseteq Range(s)
<1> DEFINE t == SubSeq(s, n + 1, Len(s))
<1>1. /\ t \in Seq(T) /\ Len(t) = Len(s) - n
      /\ \A i \in 1..(Len(s) - n) : t[i] = s[n + i]
  OBVIOUS
<1>2. \A i \in 1..(Len(s) - n) : n + i \in 1..Len(s)
  OBVIOUS
<1>3. DOMAIN t = 1..(Len(s) - n) /\ DOMAIN s = 1..Len(s)
  BY <1>1
<1> HIDE DEF t
<1>4. Range(t) \subseteq Range(s)
  BY <1>1, <1>2, <1>3 DEF Range
<1> QED BY <1>1, <1>4 DEF t

LEMMA AppendOfConcat ==
  ASSUME NEW T, NEW s \in Seq(T), NEW t \in Seq(T), NEW e \in T
  PROVE  s \o Append(t, e) = Append(s \o t, e)
OBVIOUS

\* `new Buffer` returns a block that is not in use.
LEMMA FreshFacts ==
  ASSUME NEW S, Buffers \ S # {}
  PROVE  Fresh(S) \in Buffers /\ Fresh(S) \notin S
BY DEF Fresh

\* The cut keeps a prefix: at least two buffers of a batch that had two.
LEMMA TrimFacts ==
  ASSUME NEW s \in Seq(Buffers), s # <<>>
  PROVE  /\ Trim(s) \in Seq(Buffers) /\ Trim(s) # <<>>
         /\ Len(s) >= 2 => Len(Trim(s)) >= 2
         /\ Range(Trim(s)) \subseteq Range(s)
         /\ IsInjective(s) => IsInjective(Trim(s))
<1>1. CASE Len(s) > DropLimit
  <2>1. 2 \in 0..Len(s)
    BY <1>1, ConstAssumption
  <2>2. Trim(s) = SubSeq(s, 1, 2)
    BY <1>1 DEF Trim
  <2> QED BY <2>1, <2>2, PrefixFacts
<1>2. CASE ~(Len(s) > DropLimit)
  BY <1>2 DEF Trim
<1> QED BY <1>1, <1>2

-----------------------------------------------------------------------------
(* The steps that move buffers, one lemma for each.                        *)

LEMMA OnceInitStep == ASSUME IInv, OnceInit PROVE IInv'
<1>1. /\ current' \in Buffers /\ current' \notin Referenced
      /\ next' \in Buffers /\ next' \notin Referenced /\ next' # current'
  BY FreshFacts DEF OnceInit, HeapRoom
<1>2. NULL \notin Buffers
  BY ConstAssumption
<1>3. TypeOK'
  BY <1>1 DEF IInv, TypeOK, OnceInit, disk
<1>4. OwnedOnce'
  BY <1>1, <1>2 DEF IInv, TypeOK, OwnedOnce, FrontEnd, BackEnd, OnceInit, Referenced
<1>5. AssertionsHold'
  BY DEF IInv, AssertionsHold, OnceInit
<1>6. Phases' /\ NextMissing'
  BY <1>1, <1>2 DEF IInv, Phases, NextMissing, OnceInit, Counted
<1>7. EmptyBuffers'
  BY <1>1 DEF IInv, EmptyBuffers, OnceInit, Referenced, Phases
<1> QED BY <1>3, <1>4, <1>5, <1>6, <1>7 DEF IInv

LEMMA EnterStep == ASSUME IInv, Enter PROVE IInv'
<1>1. /\ new1' \in Buffers /\ new1' \notin Referenced
      /\ new2' \in Buffers /\ new2' \notin Referenced /\ new2' # new1'
  BY FreshFacts DEF Enter, HeapRoom
<1>2. NULL \notin Buffers
  BY ConstAssumption
<1>3. TypeOK'
  BY <1>1 DEF IInv, TypeOK, Enter, disk
<1>4. OwnedOnce'
  BY <1>1, <1>2 DEF IInv, TypeOK, OwnedOnce, FrontEnd, BackEnd, Enter, Referenced
<1>5. AssertionsHold'
  BY <1>1, <1>2 DEF IInv, AssertionsHold, Enter, EmptyBuffers, Phases
<1>6. Phases' /\ NextMissing'
  BY DEF IInv, Phases, NextMissing, Enter, Counted
<1>7. EmptyBuffers'
  BY <1>1 DEF IInv, EmptyBuffers, Enter, Referenced, Phases
<1> QED BY <1>3, <1>4, <1>5, <1>6, <1>7 DEF IInv

\* What a line changes in a buffer: nothing outside it.
LEMMA FixedAppendFacts ==
  ASSUME TypeOK, NEW b \in Buffers, NEW l \in Lines, FixedAppend(b, l)
  PROVE  /\ data' \in [Buffers -> Seq(Lines)]
         /\ \A c \in Buffers : c # b => data'[c] = data[c]
BY DEF TypeOK, FixedAppend

LEMMA AppendLineStep ==
  ASSUME IInv, NEW l \in Lines, AppendLine(l) PROVE IInv'
<1>1. /\ starter = "done" /\ current \in Buffers
      /\ NULL \notin Buffers
  BY ConstAssumption DEF IInv, Phases, TypeOK, AppendLine
<1>2. CASE /\ FixedAppend(current, l)
           /\ UNCHANGED <<current, next, buffers, signalled>>
  <2>1. /\ data' \in [Buffers -> Seq(Lines)]
        /\ \A c \in Buffers : c # current => data'[c] = data[c]
    BY <1>1, <1>2, FixedAppendFacts DEF IInv
  <2>2. TypeOK'
    BY <1>2, <2>1 DEF IInv, TypeOK, AppendLine, disk
  <2>3. OwnedOnce'
    BY <1>2 DEF IInv, OwnedOnce, FrontEnd, BackEnd, AppendLine
  <2>4. new1 # current /\ new2 # current
    BY <1>1 DEF IInv, OwnedOnce, FrontEnd, BackEnd
  <2>5. AssertionsHold'
    BY <1>2, <2>1, <2>4 DEF IInv, AssertionsHold, AppendLine, TypeOK
  <2>6. Phases' /\ NextMissing'
    BY <1>2 DEF IInv, Phases, NextMissing, AppendLine, Counted
  <2>7. EmptyBuffers'
    BY <1>1, <1>2, <2>1, <2>4 DEF IInv, TypeOK, EmptyBuffers, AppendLine, Referenced
  <2> QED BY <2>2, <2>3, <2>5, <2>6, <2>7 DEF IInv
<1>3. CASE /\ buffers' = Append(buffers, current)
           /\ current' = IF next # NULL THEN next ELSE Fresh(Referenced)
           /\ next' = NULL
           /\ FixedAppend(current', l)
           /\ Notify
  <2>1. /\ buffers' \in Seq(Buffers)
        /\ Range(buffers') = Range(buffers) \cup {current}
        /\ IsInjective(buffers')
        /\ buffers' # <<>>
    BY <1>1, <1>3, AppendFacts DEF IInv, TypeOK, OwnedOnce
  <2>2. /\ current' \in Buffers /\ current' # current
        /\ current' \notin Range(buffers) /\ current' \notin BackEnd
    <3>1. CASE next # NULL
      BY <1>1, <1>3, <3>1 DEF IInv, TypeOK, OwnedOnce, FrontEnd, BackEnd
    <3>2. CASE next = NULL
      <4>1. Fresh(Referenced) \in Buffers /\ Fresh(Referenced) \notin Referenced
        BY FreshFacts DEF AppendLine, HeapRoom
      <4> QED BY <1>1, <1>3, <3>2, <4>1 DEF Referenced, BackEnd
    <3> QED BY <3>1, <3>2
  <2>3. /\ data' \in [Buffers -> Seq(Lines)]
        /\ \A c \in Buffers : c # current' => data'[c] = data[c]
    BY <1>3, <2>2, FixedAppendFacts DEF IInv
  <2>4. TypeOK'
    BY <1>1, <1>3, <2>1, <2>2, <2>3 DEF IInv, TypeOK, AppendLine, Notify, disk
  <2>5. OwnedOnce'
    BY <1>1, <1>3, <2>1, <2>2
    DEF IInv, OwnedOnce, FrontEnd, BackEnd, AppendLine
  <2>6. AssertionsHold'
    BY <1>1, <1>3, <2>2, <2>3 DEF IInv, AssertionsHold, AppendLine, TypeOK, BackEnd
  <2>7. Phases' /\ NextMissing'
    BY <1>1, <1>3, <2>1, <2>2 DEF IInv, Phases, NextMissing, AppendLine, Counted
  <2>8. EmptyBuffers'
    BY <1>1, <1>3, <2>1, <2>2, <2>3
    DEF IInv, TypeOK, EmptyBuffers, AppendLine, Referenced, BackEnd
  <2> QED BY <2>4, <2>5, <2>6, <2>7, <2>8 DEF IInv
<1> QED BY <1>2, <1>3 DEF AppendLine

\* SwapNow and Woken: the loop's critical section.
LEMMA SwapStep ==
  ASSUME IInv, logger \in {"lock", "wait"}, Swap PROVE IInv'
<1> DEFINE batch == Append(buffers, current)
<1>1. /\ starter # "new" /\ current \in Buffers /\ NULL \notin Buffers
      /\ new1 \in Buffers /\ data[new1] = <<>>
      /\ new2 \in Buffers /\ data[new2] = <<>>
      /\ toWrite = <<>> /\ written = 0
  <2>1. new1 # NULL /\ new2 # NULL /\ starter # "new" /\ toWrite = <<>>
    BY DEF IInv, AssertionsHold, Phases
  <2>2. Len(<<>>) = 0
    OBVIOUS
  <2>3. current # NULL
    BY <2>1 DEF IInv, Phases
  <2> QED BY <2>1, <2>2, <2>3, ConstAssumption DEF IInv, TypeOK, AssertionsHold
<1>2. /\ batch \in Seq(Buffers) /\ batch # <<>>
      /\ Len(batch) = Len(buffers) + 1
      /\ Range(batch) = Range(buffers) \cup {current}
      /\ IsInjective(batch)
  <2>1. current \notin Range(buffers) /\ IsInjective(buffers)
    BY <1>1 DEF IInv, OwnedOnce
  <2>2. buffers \in Seq(Buffers)
    BY DEF IInv, TypeOK
  <2> QED BY <1>1, <2>1, <2>2, AppendFacts
<1>3. /\ toWrite' \in Seq(Buffers) /\ toWrite' # <<>>
      /\ Len(batch) >= 2 => Len(toWrite') >= 2
      /\ Range(toWrite') \subseteq Range(batch)
      /\ IsInjective(toWrite')
  BY <1>2, TrimFacts DEF Swap
<1>4. /\ current' = new1 /\ new1' = NULL /\ buffers' = <<>>
      /\ data' = [b \in Buffers |-> IF b \in Range(batch) \ Range(toWrite')
                                    THEN <<>> ELSE data[b]]
      /\ logger' = "write" /\ signalled' = FALSE
      /\ UNCHANGED <<starter, stopper, running, written, disk, logged>>
  BY DEF Swap, MoveSpare, Reset
<1>5. \/ next = NULL /\ next' = new2 /\ new2' = NULL
      \/ next # NULL /\ next' = next /\ new2' = new2
  BY DEF Swap
<1>6. Range(<<>>) = {}
  BY DEF Range
<1>7. TypeOK'
  <2>1. data' \in [Buffers -> Seq(Lines)]
    BY <1>4 DEF IInv, TypeOK
  <2>2. written' \in 0..Len(toWrite')
    BY <1>1, <1>3, <1>4
  <2> QED BY <1>1, <1>3, <1>4, <1>5, <2>1, <2>2 DEF IInv, TypeOK, disk
<1>8. OwnedOnce'
  <2>1. /\ Range(toWrite') \subseteq Range(buffers) \cup {current}
        /\ new1 # new2 /\ new1 # current /\ new2 # current
        /\ new1 # next /\ new2 # next /\ (next # NULL => next # current)
        /\ new1 \notin Range(buffers) /\ new2 \notin Range(buffers)
        /\ next # NULL => next \notin Range(buffers)
    BY <1>1, <1>2, <1>3 DEF IInv, OwnedOnce, FrontEnd, BackEnd
  <2>2. IsInjective(<<>>)
    BY DEF IsInjective
  <2> QED BY <1>1, <1>3, <1>4, <1>5, <1>6, <2>1, <2>2
      DEF OwnedOnce, FrontEnd, BackEnd
<1>9. AssertionsHold'
  <2>1. next = NULL => Len(batch) >= 2
    BY <1>1, <1>2 DEF IInv, NextMissing, TypeOK
  <2> QED BY <1>1, <1>3, <1>4, <1>5, <2>1 DEF AssertionsHold
<1>10. Phases' /\ NextMissing'
  BY <1>1, <1>4, <1>5 DEF IInv, Phases, NextMissing, Counted
<1>11. EmptyBuffers'
  <2>1. new2' # NULL => data'[new2'] = <<>>
    BY <1>1, <1>4, <1>5 DEF IInv, OwnedOnce, FrontEnd, BackEnd
  <2>2. ASSUME NEW b \in Buffers, b \notin Referenced' PROVE data'[b] = <<>>
    BY <1>1, <1>2, <1>3, <1>4, <1>5, <1>6, <2>2
    DEF IInv, EmptyBuffers, Referenced
  <2> QED BY <2>1, <2>2 DEF EmptyBuffers
<1> QED BY <1>7, <1>8, <1>9, <1>10, <1>11 DEF IInv

\* Two buffers can be taken back whenever the logging thread lacks two.
LEMMA RecycleStep == ASSUME IInv, Recycle PROVE IInv'
<1> DEFINE n    == IF Len(toWrite) > 2 THEN 2 ELSE Len(toWrite)
           kept == SubSeq(toWrite, 1, n)
           rest == Front(kept)
<1>1. /\ NULL \notin Buffers /\ toWrite \in Seq(Buffers) /\ toWrite # <<>>
      /\ new1 = NULL /\ (new2 = NULL => Len(toWrite) >= 2)
      /\ new2 # NULL => /\ new2 \in Buffers /\ data[new2] = <<>>
                        /\ new2 \notin Range(toWrite)
      /\ IsInjective(toWrite) /\ logger = "write"
  BY ConstAssumption DEF IInv, TypeOK, AssertionsHold, OwnedOnce,
                         EmptyBuffers, Recycle
<1>2. n \in 1..Len(toWrite) /\ n \in 0..Len(toWrite)
  BY <1>1
<1>3. kept \in Seq(Buffers) /\ Len(kept) = n /\ \A i \in 1..n : kept[i] = toWrite[i]
  BY <1>1, <1>2, PrefixFacts
<1>4. Last(kept) = toWrite[n]
  BY <1>2, <1>3 DEF Last
<1>5. ASSUME n = 2 PROVE Last(rest) = toWrite[1]
  <2>1. rest = SubSeq(kept, 1, 1)
    BY <1>3, <1>5 DEF Front
  <2>2. Len(rest) = 1 /\ rest[1] = kept[1]
    BY <1>3, <1>5, <2>1, PrefixFacts
  <2> QED BY <1>3, <1>5, <2>2 DEF Last
<1>6. /\ new1' = toWrite[n]
      /\ new2' = IF new2 = NULL THEN toWrite[1] ELSE new2
      /\ new2 = NULL => n = 2
      /\ toWrite' = <<>> /\ written' = 0 /\ logger' = "check"
      /\ data' = [b \in Buffers |-> IF b \in Range(toWrite) THEN <<>> ELSE data[b]]
      /\ durable' = Len(file)
      /\ UNCHANGED <<starter, stopper, running, signalled, current, next,
                     buffers, logged, file, count>>
  BY <1>1, <1>4, <1>5 DEF Recycle, Reset, Flush
<1>7. /\ DOMAIN toWrite = 1..Len(toWrite)
      /\ Range(<<>>) = {} /\ IsInjective(<<>>) /\ <<>> \in Seq(Buffers)
  BY <1>1 DEF Range, IsInjective
<1>8. /\ new1' \in Range(toWrite) /\ new1' \in Buffers
      /\ new2 = NULL => new2' \in Range(toWrite) /\ new2' \in Buffers
      /\ new1' # new2'
  <2>1. toWrite[n] \in Range(toWrite) /\ toWrite[n] \in Buffers
    BY <1>1, <1>2, <1>7 DEF Range
  <2>2. ASSUME new2 = NULL
        PROVE  /\ toWrite[1] \in Range(toWrite) /\ toWrite[1] \in Buffers
               /\ toWrite[1] # toWrite[n]
    BY <1>1, <1>2, <1>6, <1>7, <2>2 DEF Range, IsInjective
  <2> QED BY <1>1, <1>6, <2>1, <2>2
<1>9. TypeOK'
  <2>1. data' \in [Buffers -> Seq(Lines)]
    BY <1>6 DEF IInv, TypeOK
  <2>2. durable' \in 0..Len(file') /\ written' \in 0..Len(toWrite')
    BY <1>6 DEF IInv, TypeOK
  <2> QED BY <1>1, <1>6, <1>7, <1>8, <2>1, <2>2 DEF IInv, TypeOK
<1>10. OwnedOnce'
  BY <1>1, <1>6, <1>7, <1>8 DEF IInv, OwnedOnce, FrontEnd, BackEnd
<1>11. AssertionsHold'
  BY <1>1, <1>6, <1>8 DEF AssertionsHold
<1>12. Phases' /\ NextMissing'
  BY <1>1, <1>6 DEF IInv, Phases, NextMissing, Counted
<1>13. EmptyBuffers'
  <2>1. ASSUME NEW b \in Buffers, b \notin Referenced' PROVE data'[b] = <<>>
    BY <1>1, <1>6, <1>7, <2>1 DEF IInv, EmptyBuffers, Referenced
  <2> QED BY <1>6, <2>1 DEF EmptyBuffers
<1> QED BY <1>9, <1>10, <1>11, <1>12, <1>13 DEF IInv

-----------------------------------------------------------------------------
(* The steps that only move a control point or write the file.             *)

LEMMA ControlStep ==
  ASSUME IInv,
         \/ CreateThread \/ StartReturns \/ CheckRunning \/ BeginWait
         \/ StopClear \/ StopNotify \/ StopJoin
  PROVE  IInv'
<1>1. UNCHANGED <<current, next, buffers, new1, new2, toWrite, written, data,
                  file, durable, count, logged>>
  BY DEF CreateThread, StartReturns, CheckRunning, BeginWait, StopClear,
         StopNotify, StopJoin, ptrs, disk
<1>2. signalled' \in BOOLEAN
  BY DEF CreateThread, StartReturns, CheckRunning, BeginWait, StopClear,
         StopNotify, StopJoin, Notify, IInv, TypeOK
<1>3. /\ starter' \in {"new", "create", "await", "done"}
      /\ logger' \in {"none", "entry", "failed", "check", "lock", "wait",
                      "write", "exit", "done"}
      /\ stopper' \in {"idle", "notify", "join", "stopped"}
      /\ running' \in BOOLEAN
  BY DEF CreateThread, StartReturns, CheckRunning, BeginWait, StopClear,
         StopNotify, StopJoin, IInv, TypeOK
<1>4. TypeOK'
  BY <1>1, <1>2, <1>3 DEF IInv, TypeOK
<1>5. OwnedOnce' /\ Referenced' = Referenced
  BY <1>1 DEF IInv, OwnedOnce, FrontEnd, BackEnd, Referenced
<1>6. AssertionsHold'
  BY <1>1 DEF CreateThread, StartReturns, CheckRunning, BeginWait, StopClear,
              StopNotify, StopJoin, IInv, AssertionsHold, Phases, Counted
<1>7. Phases'
  BY <1>1 DEF CreateThread, StartReturns, CheckRunning, BeginWait, StopClear,
              StopNotify, StopJoin, IInv, Phases, Counted
<1>8. NextMissing'
  BY <1>1 DEF CreateThread, StartReturns, CheckRunning, BeginWait, StopClear,
              StopNotify, StopJoin, IInv, NextMissing
<1>9. EmptyBuffers'
  BY <1>1, <1>5
  DEF CreateThread, StartReturns, CheckRunning, BeginWait, StopClear,
      StopNotify, StopJoin, IInv, EmptyBuffers
<1> QED BY <1>4, <1>5, <1>6, <1>7, <1>8, <1>9 DEF IInv

LEMMA FileStep == ASSUME IInv, WriteBuffer \/ Exit PROVE IInv'
<1>1. UNCHANGED <<starter, stopper, running, signalled, current, next,
                  buffers, new1, new2, toWrite, data, logged>>
  BY DEF WriteBuffer, Exit, ptrs
<1>2. CASE WriteBuffer
  <2>1. written + 1 \in 1..Len(toWrite) /\ toWrite[written + 1] \in Buffers
    BY <1>2 DEF WriteBuffer, IInv, TypeOK
  <2>2. data[toWrite[written + 1]] \in Seq(Lines)
    BY <2>1 DEF IInv, TypeOK
  <2>3. file' \in Seq(Lines) /\ Len(file') \in Nat /\ Len(file) <= Len(file')
    BY <1>2, <2>2 DEF WriteBuffer, AppendUnlocked, IInv, TypeOK
  <2>4. durable' \in 0..Len(file') /\ count' \in 0..FlushEveryN - 1
    <3>1. /\ durable \in 0..Len(file) /\ Len(file) \in Nat
          /\ count \in 0..FlushEveryN - 1 /\ FlushEveryN \in Nat \ {0}
      BY ConstAssumption DEF IInv, TypeOK
    <3>2. CASE count + 1 >= FlushEveryN
      BY <1>2, <2>3, <3>1, <3>2 DEF WriteBuffer, AppendUnlocked
    <3>3. CASE ~(count + 1 >= FlushEveryN)
      BY <1>2, <2>3, <3>1, <3>3 DEF WriteBuffer, AppendUnlocked
    <3> QED BY <3>2, <3>3
  <2>5. written' \in 0..Len(toWrite') /\ logger' = logger
    BY <1>1, <1>2, <2>1 DEF WriteBuffer
  <2> QED BY <1>1, <2>3, <2>4, <2>5
      DEF IInv, TypeOK, OwnedOnce, FrontEnd, BackEnd, AssertionsHold, Phases,
          Counted, NextMissing, EmptyBuffers, Referenced
<1>3. CASE Exit
  <2>1. /\ logger = "exit" /\ logger' = "done" /\ written' = written
        /\ file' = file /\ count' = count /\ durable' = Len(file)
    BY <1>3 DEF Exit, Flush
  <2> QED BY <1>1, <2>1
      DEF IInv, TypeOK, OwnedOnce, FrontEnd, BackEnd, AssertionsHold, Phases,
          Counted, NextMissing, EmptyBuffers, Referenced
<1> QED BY <1>2, <1>3

LEMMA InitIInv == Init => IInv
<1> SUFFICES ASSUME Init PROVE IInv
  OBVIOUS
<1>1. Range(<<>>) = {} /\ IsInjective(<<>>) /\ Len(<<>>) = 0
  BY DEF Range, IsInjective
<1>2. TypeOK
  <2>1. /\ 0 \in 0..FlushEveryN - 1 /\ 0 \in 0..0
        /\ <<>> \in Seq(Lines) /\ <<>> \in Seq(Buffers)
        /\ [b \in Buffers |-> <<>>] \in [Buffers -> Seq(Lines)]
    BY ConstAssumption
  <2> QED BY <1>1, <2>1 DEF Init, TypeOK
<1> QED BY <1>1, <1>2
    DEF Init, IInv, OwnedOnce, FrontEnd, BackEnd, AssertionsHold, Phases,
        NextMissing, EmptyBuffers, Counted

LEMMA StepIInv == IInv /\ [Next]_vars => IInv'
<1> SUFFICES ASSUME IInv, [Next]_vars PROVE IInv'
  OBVIOUS
<1>1. CASE OnceInit
  BY <1>1, OnceInitStep
<1>2. CASE Enter
  BY <1>2, EnterStep
<1>3. CASE \E l \in Lines : AppendLine(l)
  BY <1>3, AppendLineStep
<1>4. CASE SwapNow \/ Woken
  BY <1>4, SwapStep DEF SwapNow, Woken
<1>5. CASE Recycle
  BY <1>5, RecycleStep
<1>6. CASE WriteBuffer \/ Exit
  BY <1>6, FileStep
<1>7. CASE \/ CreateThread \/ StartReturns \/ CheckRunning \/ BeginWait
           \/ StopClear \/ StopNotify \/ StopJoin
  BY <1>7, ControlStep
<1>8. CASE UNCHANGED vars
  BY <1>8 DEF vars, ptrs, disk, IInv, TypeOK, OwnedOnce, FrontEnd, BackEnd,
              AssertionsHold, Phases, Counted, NextMissing, EmptyBuffers,
              Referenced
<1> QED BY <1>1, <1>2, <1>3, <1>4, <1>5, <1>6, <1>7, <1>8
    DEF Next, Starting, ThreadFunc, Stopping

-----------------------------------------------------------------------------
(* The theorems.                                                           *)

\* The inductive invariant holds of every state of the logger.
THEOREM Invariance == Spec => []IInv
BY InitIInv, StepIInv, PTL DEF Spec

\* The logger's variables keep their types, whatever append, threadFunc and
\* stop do concurrently (AsyncLogging.cpp).
THEOREM TypeCorrect == Spec => []TypeOK
BY Invariance, PTL DEF IInv

\* append and threadFunc never hold the same FixedBuffer: the lines a thread
\* formats under mutex_ are never in a buffer the logging thread is writing
\* (AsyncLogging.cpp:56-70, 85-88).
THEOREM NoSharedBuffer == Spec => []OwnedOnce
BY Invariance, PTL DEF IInv

\* No assertion of threadFunc can fail (AsyncLogging.cpp:42, 52-54, 72, 96,
\* 103): in particular the recycling never runs out of buffers.
THEOREM NoAssertionFails == Spec => []AssertionsHold
BY Invariance, PTL DEF IInv

\* append's notify covers every full buffer (AsyncLogging.cpp:37, 58-61):
\* none is queued while the logging thread sleeps without being woken.
THEOREM NoMissedNotify == Spec => []FullBufferWakes
<1>1. Init => FullBufferWakes
  BY DEF Init, FullBufferWakes
<1>2. FullBufferWakes /\ IInv /\ [Next]_vars => FullBufferWakes'
  <2> SUFFICES ASSUME FullBufferWakes, IInv, [Next]_vars PROVE FullBufferWakes'
    OBVIOUS
  <2> USE DEF FullBufferWakes
  <2>1. CASE \E l \in Lines : AppendLine(l)
    <3> PICK l \in Lines : AppendLine(l)
      BY <2>1
    <3>1. logger' = logger
      BY DEF AppendLine
    <3>2. CASE buffers' = buffers /\ signalled' = signalled
      BY <3>1, <3>2
    <3>3. CASE Notify
      BY <3>1, <3>3 DEF Notify
    <3> QED BY <3>2, <3>3 DEF AppendLine
  <2>2. CASE SwapNow \/ Woken
    BY <2>2 DEF SwapNow, Woken, Swap
  <2>3. CASE StopNotify
    BY <2>3 DEF StopNotify, Notify, ptrs
  <2>4. CASE \/ OnceInit \/ Enter \/ CreateThread \/ StartReturns
             \/ CheckRunning \/ BeginWait \/ WriteBuffer \/ Recycle \/ Exit
             \/ StopClear \/ StopJoin
    BY <2>4 DEF OnceInit, Enter, CreateThread, StartReturns, CheckRunning,
                BeginWait, WriteBuffer, Recycle, Exit, StopClear, StopJoin,
                ptrs, IInv, Phases
  <2>5. CASE UNCHANGED vars
    BY <2>5 DEF vars, ptrs
  <2> QED BY <2>1, <2>2, <2>3, <2>4, <2>5 DEF Next, Starting, ThreadFunc, Stopping
<1> QED BY <1>1, <1>2, Invariance, PTL DEF Spec

\* All the logging thread wrote is flushed whenever it is not writing
\* (AsyncLogging.cpp:110, 112): a crash then loses only what append holds.
THEOREM FlushedBetweenBatches == Spec => []FlushedWhenIdle
<1>1. Init => FlushedWhenIdle
  BY DEF Init, FlushedWhenIdle
<1>2. FlushedWhenIdle /\ IInv /\ [Next]_vars => FlushedWhenIdle'
  <2> SUFFICES ASSUME FlushedWhenIdle, IInv, [Next]_vars PROVE FlushedWhenIdle'
    OBVIOUS
  <2> USE DEF FlushedWhenIdle
  <2>1. CASE WriteBuffer
    BY <2>1 DEF WriteBuffer
  <2>2. CASE Recycle \/ Exit
    BY <2>2 DEF Recycle, Exit, Flush
  <2>3. CASE SwapNow \/ Woken
    BY <2>3 DEF SwapNow, Woken, Swap
  <2>4. CASE \/ OnceInit \/ Enter \/ CreateThread \/ StartReturns
             \/ CheckRunning \/ BeginWait \/ StopClear \/ StopNotify
             \/ StopJoin \/ \E l \in Lines : AppendLine(l)
    <3>1. /\ UNCHANGED disk
          /\ \/ UNCHANGED logger
             \/ logger # "write" /\ logger' # "write"
      BY <2>4 DEF OnceInit, Enter, CreateThread, StartReturns, CheckRunning,
                  BeginWait, StopClear, StopNotify, StopJoin, AppendLine,
                  IInv, Phases
    <3> QED BY <3>1 DEF disk
  <2>5. CASE UNCHANGED vars
    BY <2>5 DEF vars, disk
  <2> QED BY <2>1, <2>2, <2>3, <2>4, <2>5 DEF Next, Starting, ThreadFunc, Stopping
<1> QED BY <1>1, <1>2, Invariance, PTL DEF Spec
-----------------------------------------------------------------------------
(* The logger is a queue of lines.  What the abstract queue holds is the   *)
(* text of the buffers still to be written, joined in the order the code   *)
(* will write them; each step of the logger adds a line behind it, takes a *)
(* buffer's lines from its front, cuts it or leaves it as it is.           *)

\* The lines of the buffers bs, when the buffers hold d.
Texts(d, bs) == [i \in 1..Len(bs) |-> d[bs[i]]]
Text(d, bs) == FlattenSeq(Texts(d, bs))

\* The buffers with pending lines, in the order they will be written.
Unwritten == SubSeq(toWrite, written + 1, Len(toWrite))
Newest == IF current = NULL THEN <<>> ELSE <<current>>
Chain == Unwritten \o buffers \o Newest

Held == [Buffers -> Seq(Lines)]

LEMMA PendingIsText == Pending = Text(data, Chain) /\ Pending' = Text(data', Chain')
BY DEF Pending, Text, Texts, Chain, Unwritten, Newest

LEMMA TextType ==
  ASSUME NEW d \in Held, NEW bs \in Seq(Buffers)
  PROVE  /\ Texts(d, bs) \in Seq(Seq(Lines)) /\ Len(Texts(d, bs)) = Len(bs)
         /\ Text(d, bs) \in Seq(Lines)
<1>1. Len(bs) \in Nat /\ \A i \in 1..Len(bs) : d[bs[i]] \in Seq(Lines)
  BY DEF Held
<1>2. Texts(d, bs) \in Seq(Seq(Lines)) /\ Len(Texts(d, bs)) = Len(bs)
  BY <1>1 DEF Texts
<1> QED BY <1>2, FlattenType DEF Text

LEMMA TextConcat ==
  ASSUME NEW d \in Held, NEW bs \in Seq(Buffers), NEW cs \in Seq(Buffers)
  PROVE  Text(d, bs \o cs) = Text(d, bs) \o Text(d, cs)
<1>1. /\ Texts(d, bs) \in Seq(Seq(Lines)) /\ Len(Texts(d, bs)) = Len(bs)
      /\ Texts(d, cs) \in Seq(Seq(Lines)) /\ Len(Texts(d, cs)) = Len(cs)
  BY TextType
<1>2. bs \o cs \in Seq(Buffers)
  OBVIOUS
<1>3. Texts(d, bs \o cs) \in Seq(Seq(Lines)) /\ Len(Texts(d, bs \o cs)) = Len(bs \o cs)
  BY <1>2, TextType
<1>4. Texts(d, bs \o cs) = Texts(d, bs) \o Texts(d, cs)
  <2> DEFINE s == Texts(d, bs \o cs)
             t == Texts(d, bs) \o Texts(d, cs)
  <2>1. t \in Seq(Seq(Lines)) /\ Len(s) = Len(t) /\ Len(t) = Len(bs) + Len(cs)
    <3>1. t \in Seq(Seq(Lines)) /\ Len(t) = Len(bs) + Len(cs)
      <4>1. /\ t \in Seq(Seq(Lines))
            /\ Len(t) = Len(Texts(d, bs)) + Len(Texts(d, cs))
        BY <1>1, ConcatProperties, Zenon
      <4> QED BY <1>1, <4>1
    <3>2. Len(s) = Len(bs) + Len(cs)
      BY <1>3
    <3> QED BY <3>1, <3>2
  <2>2. ASSUME NEW i \in 1..(Len(bs) + Len(cs)) PROVE s[i] = t[i]
    <3>1. Len(bs) \in Nat /\ Len(cs) \in Nat /\ Len(bs \o cs) = Len(bs) + Len(cs)
      OBVIOUS
    <3>2. s[i] = d[(bs \o cs)[i]]
      BY <3>1 DEF Texts
    <3>3. CASE i <= Len(bs)
      <4>1. i \in 1..Len(bs) /\ (bs \o cs)[i] = bs[i]
        BY <3>1, <3>3
      <4>2. t[i] = Texts(d, bs)[i]
        BY <1>1, <3>1, <3>3
      <4>3. Texts(d, bs)[i] = d[bs[i]]
        BY <4>1 DEF Texts
      <4> QED BY <3>2, <4>1, <4>2, <4>3
    <3>4. CASE ~(i <= Len(bs))
      <4>1. i - Len(bs) \in 1..Len(cs) /\ (bs \o cs)[i] = cs[i - Len(bs)]
        BY <3>1, <3>4
      <4>2. t[i] = Texts(d, cs)[i - Len(bs)]
        BY <1>1, <3>1, <3>4
      <4>3. Texts(d, cs)[i - Len(bs)] = d[cs[i - Len(bs)]]
        BY <4>1 DEF Texts
      <4> QED BY <3>2, <4>1, <4>2, <4>3
    <3> QED BY <3>3, <3>4
  <2> HIDE DEF s, t
  <2>3. s = t
    BY <1>3, <2>1, <2>2, SeqEqual DEF s
  <2> QED BY <2>3 DEF s, t
<1> QED BY <1>1, <1>4, FlattenConcat DEF Text

LEMMA TextNone == ASSUME NEW d PROVE Text(d, <<>>) = <<>>
<1>1. Texts(d, <<>>) = <<>>
  BY DEF Texts
<1> QED BY <1>1, FlattenNone DEF Text

LEMMA TextOne ==
  ASSUME NEW d \in Held, NEW b \in Buffers
  PROVE  Text(d, <<b>>) = d[b]
<1>1. d[b] \in Seq(Lines)
  BY DEF Held
<1>2. Texts(d, <<b>>) = <<d[b]>>
  BY DEF Texts
<1> QED BY <1>1, <1>2, FlattenOne DEF Text

\* Buffers that were not touched have the text they had.
LEMMA TextSame ==
  ASSUME NEW d, NEW e, NEW bs \in Seq(Buffers),
         \A b \in Range(bs) : d[b] = e[b]
  PROVE  Text(d, bs) = Text(e, bs)
<1>1. \A i \in 1..Len(bs) : d[bs[i]] = e[bs[i]]
  BY DEF Range
<1>2. Texts(d, bs) = Texts(e, bs)
  BY <1>1 DEF Texts
<1> QED BY <1>2 DEF Text

\* Buffers with a line in each have as many lines as there are buffers.
LEMMA TextLength ==
  ASSUME NEW d \in Held, NEW bs \in Seq(Buffers),
         \A b \in Range(bs) : d[b] # <<>>
  PROVE  Len(Text(d, bs)) >= Len(bs)
<1>1. Texts(d, bs) \in Seq(Seq(Lines)) /\ Len(Texts(d, bs)) = Len(bs)
  BY TextType
<1>2. \A i \in 1..Len(bs) : Texts(d, bs)[i] # <<>>
  BY DEF Texts, Range
<1> QED BY <1>1, <1>2, FlattenLength DEF Text

LEMMA SplitConcat ==
  ASSUME NEW T, NEW s \in Seq(T), NEW t \in Seq(T)
  PROVE  /\ SubSeq(s \o t, 1, Len(s)) = s
         /\ SubSeq(s \o t, Len(s) + 1, Len(s \o t)) = t
OBVIOUS
\* A queued buffer holds a line, and the spare of the front end holds none.
Filled ==
  /\ \A b \in Range(buffers) : data[b] # <<>>
  /\ next # NULL => data[next] = <<>>

QInv == IInv /\ Filled

LEMMA LengthOfNone == ASSUME NEW b, data[b] = <<>> PROVE Length(b) = 0
<1> DEFINE f == [s \in {{}} |-> 0]
<1>1. DOMAIN <<>> = {} /\ SUBSET {} = {{}}
  OBVIOUS
<1>2. \E it : it = [s \in SUBSET DOMAIN data[b] |->
                      IF s = {} THEN 0
                      ELSE it[s \ {Max(s)}] + Size[data[b][Max(s)]]]
  <2>1. f = [s \in SUBSET {} |->
               IF s = {} THEN 0 ELSE f[s \ {Max(s)}] + Size[data[b][Max(s)]]]
    BY <1>1
  <2> QED BY <1>1, <2>1
<1> QED BY <1>1, <1>2 DEF Length, FoldLeft, MapThenFoldSet

\* An empty buffer takes any line; one that refuses a line is not empty.
LEMMA EmptyTakesAll ==
  ASSUME NEW b, NEW l \in Lines, data[b] = <<>>
  PROVE  Avail(b) > Size[l]
<1>1. Length(b) = 0
  BY LengthOfNone
<1>2. Cap \in Nat /\ Size[l] \in Nat /\ Size[l] < Cap
  BY ConstAssumption
<1> QED BY <1>1, <1>2 DEF Avail

\* What append finds.
LEMMA AppendSetting ==
  ASSUME QInv, NEW l \in Lines, AppendLine(l)
  PROVE  /\ NULL \notin Buffers /\ current \in Buffers /\ current # NULL
         /\ data \in Held /\ Unwritten \in Seq(Buffers) /\ buffers \in Seq(Buffers)
         /\ Range(Unwritten) \subseteq Range(toWrite)
         /\ current \notin Range(Unwritten \o buffers)
<1>1. NULL \notin Buffers /\ starter = "done" /\ current \in Buffers /\ current # NULL
  BY ConstAssumption DEF QInv, IInv, TypeOK, Phases, AppendLine
<1>2. /\ data \in Held /\ buffers \in Seq(Buffers) /\ toWrite \in Seq(Buffers)
      /\ written \in 0..Len(toWrite)
  BY DEF QInv, IInv, TypeOK, Held
<1>3. Unwritten \in Seq(Buffers) /\ Range(Unwritten) \subseteq Range(toWrite)
  BY <1>2, SuffixFacts DEF Unwritten
<1>4. current \notin Range(buffers) /\ current \notin Range(toWrite)
  BY <1>1 DEF QInv, IInv, OwnedOnce, FrontEnd, BackEnd
<1>5. Range(Unwritten \o buffers) = Range(Unwritten) \cup Range(buffers)
  BY <1>2, <1>3, RangeConcatenation
<1> QED BY <1>1, <1>2, <1>3, <1>4, <1>5

\* A line added to the last of some buffers is added to their text.
LEMMA LineBehind ==
  ASSUME NEW d \in Held, NEW e \in Held, NEW bs \in Seq(Buffers),
         NEW b \in Buffers, NEW l \in Lines, e[b] = Append(d[b], l),
         \A c \in Range(bs) : e[c] = d[c]
  PROVE  Text(e, bs \o <<b>>) = Append(Text(d, bs \o <<b>>), l)
<1>1. <<b>> \in Seq(Buffers) /\ d[b] \in Seq(Lines)
  BY DEF Held
<1>2. Text(e, bs) = Text(d, bs)
  BY TextSame
<1>3. /\ Text(e, bs \o <<b>>) = Text(e, bs) \o Append(d[b], l)
      /\ Text(d, bs \o <<b>>) = Text(d, bs) \o d[b]
  <2>1. Text(e, <<b>>) = Append(d[b], l) /\ Text(d, <<b>>) = d[b]
    BY TextOne
  <2>2. /\ Text(e, bs \o <<b>>) = Text(e, bs) \o Text(e, <<b>>)
        /\ Text(d, bs \o <<b>>) = Text(d, bs) \o Text(d, <<b>>)
    BY <1>1, TextConcat
  <2> QED BY <2>1, <2>2
<1>4. Text(d, bs) \in Seq(Lines)
  BY TextType
<1>5. Text(d, bs) \o Append(d[b], l) = Append(Text(d, bs) \o d[b], l)
  BY <1>1, <1>4, AppendOfConcat
<1> QED BY <1>2, <1>3, <1>5

LEMMA AppendLineLogs ==
  ASSUME QInv, NEW l \in Lines, AppendLine(l)
  PROVE  Pending' = Append(Pending, l) /\ file' = file
<1> DEFINE older == Unwritten \o buffers
<1>1. /\ NULL \notin Buffers /\ current \in Buffers /\ current # NULL
      /\ data \in Held /\ Unwritten \in Seq(Buffers) /\ buffers \in Seq(Buffers)
      /\ Range(Unwritten) \subseteq Range(toWrite)
      /\ current \notin Range(older)
  BY AppendSetting
<1>2. /\ UNCHANGED <<toWrite, written, file>> /\ Unwritten' = Unwritten
      /\ older \in Seq(Buffers) /\ Chain = older \o <<current>>
  BY <1>1 DEF AppendLine, disk, Chain, Newest, Unwritten
<1>3. Pending' = Text(data', Chain')
  BY PendingIsText
<1> HIDE DEF older
<1>4. CASE /\ Avail(current) > Size[l] /\ FixedAppend(current, l)
           /\ UNCHANGED <<current, next, buffers, signalled>>
  <2>1. Chain' = older \o <<current>>
    BY <1>1, <1>2, <1>4 DEF Chain, Newest, older
  <2>2. data' = [data EXCEPT ![current] = Append(@, l)]
    BY <1>4 DEF FixedAppend
  <2>3. /\ data' \in Held /\ data'[current] = Append(data[current], l)
        /\ \A c \in Range(older) : data'[c] = data[c]
    <3>1. Range(older) \subseteq Buffers
      BY <1>2, RangeOfSeq
    <3> QED BY <1>1, <2>2, <3>1 DEF Held
  <2>4. Text(data', older \o <<current>>) = Append(Text(data, older \o <<current>>), l)
    BY <1>1, <1>2, <2>3, LineBehind
  <2> QED BY <1>2, <1>3, <2>1, <2>4, PendingIsText
<1>5. CASE /\ Avail(current) <= Size[l]
           /\ buffers' = Append(buffers, current)
           /\ current' = IF next # NULL THEN next ELSE Fresh(Referenced)
           /\ next' = NULL
           /\ FixedAppend(current', l)
  <2>1. /\ current' \in Buffers /\ data[current'] = <<>>
        /\ current' # current /\ current' \notin Range(older)
    <3>1. Range(older) = Range(Unwritten) \cup Range(buffers)
      BY <1>1, RangeConcatenation DEF older
    <3>2. CASE next # NULL
      <4>1. current' = next /\ next \in Buffers /\ data[next] = <<>>
        BY <1>5, <3>2 DEF QInv, IInv, TypeOK, Filled
      <4>2. next # current /\ next \notin Range(toWrite) /\ next \notin Range(buffers)
        BY <1>1, <3>2 DEF QInv, IInv, OwnedOnce, FrontEnd, BackEnd
      <4> QED BY <1>1, <3>1, <4>1, <4>2
    <3>3. CASE next = NULL
      <4>1. Fresh(Referenced) \in Buffers /\ Fresh(Referenced) \notin Referenced
        BY FreshFacts DEF AppendLine, HeapRoom
      <4>2. current' \in Buffers /\ current' \notin Referenced
        BY <1>5, <3>3, <4>1
      <4>3. data[current'] = <<>>
        BY <4>2 DEF QInv, IInv, EmptyBuffers
      <4> QED BY <1>1, <3>1, <4>2, <4>3 DEF Referenced
    <3> QED BY <3>2, <3>3
  <2> DEFINE b == current'
             full == older \o <<current>>
  <2>2. /\ full \in Seq(Buffers) /\ b \notin Range(full)
        /\ Chain' = full \o <<b>>
    <3>1. full \in Seq(Buffers) /\ Range(full) = Range(older) \cup {current}
      <4>1. <<current>> \in Seq(Buffers) /\ Range(<<current>>) = {current}
        BY <1>1 DEF Range
      <4>2. full \in Seq(Buffers)
        BY <1>2, <4>1
      <4>3. Range(full) = Range(older) \cup Range(<<current>>)
        BY <1>2, <4>1, RangeConcatenation
      <4> QED BY <4>1, <4>2, <4>3
    <3>2. Unwritten \o Append(buffers, current) = full
      BY <1>1, AppendOfConcat, AppendIsConcat DEF older
    <3>3. Newest' = <<b>> /\ Chain' = (Unwritten \o Append(buffers, current)) \o <<b>>
      BY <1>1, <1>2, <1>5, <2>1 DEF Chain, Newest
    <3> QED BY <2>1, <3>1, <3>2, <3>3
  <2>3. data' = [data EXCEPT ![b] = Append(@, l)]
    <3>1. Avail(b) > Size[l]
      BY <2>1, EmptyTakesAll
    <3> QED BY <1>5, <3>1 DEF FixedAppend
  <2> HIDE DEF b, full
  <2>4. b \in Buffers /\ data[b] = <<>>
    BY <2>1 DEF b
  <2>5. /\ data' \in Held /\ data'[b] = Append(data[b], l)
        /\ \A c \in Range(full) : data'[c] = data[c]
    <3>1. Range(full) \subseteq Buffers
      BY <2>2, RangeOfSeq
    <3> QED BY <1>1, <2>2, <2>3, <2>4, <3>1 DEF Held
  <2>6. Text(data', full \o <<b>>) = Append(Text(data, full \o <<b>>), l)
    BY <1>1, <2>2, <2>4, <2>5, LineBehind
  <2>7. Text(data, full \o <<b>>) = Text(data, full)
    <3>1. <<b>> \in Seq(Buffers)
      BY <2>4
    <3>2. Text(data, full \o <<b>>) = Text(data, full) \o <<>>
      BY <1>1, <2>2, <2>4, <3>1, TextConcat, TextOne
    <3>3. Text(data, full) \in Seq(Lines)
      BY <1>1, <2>2, TextType
    <3> QED BY <3>2, <3>3, ConcatEmptySeq
  <2> QED BY <1>2, <1>3, <2>2, <2>6, <2>7, PendingIsText DEF full
<1> QED BY <1>4, <1>5 DEF AppendLine
\* A fresh, empty first currentBuffer_ adds nothing.
LEMMA OnceInitLogsNothing ==
  ASSUME QInv, OnceInit PROVE Pending' = Pending /\ file' = file
<1>1. /\ NULL \notin Buffers /\ current = NULL
      /\ data \in Held /\ buffers \in Seq(Buffers) /\ toWrite \in Seq(Buffers)
      /\ written \in 0..Len(toWrite)
  BY ConstAssumption DEF QInv, IInv, TypeOK, Phases, Held, OnceInit
<1>2. /\ current' \in Buffers /\ current' \notin Referenced
      /\ UNCHANGED <<buffers, toWrite, written, data, file>>
  BY FreshFacts DEF OnceInit, HeapRoom, disk
<1>3. data[current'] = <<>>
  BY <1>2 DEF QInv, IInv, EmptyBuffers
<1> DEFINE queued == Unwritten \o buffers
<1>4. queued \in Seq(Buffers)
  BY <1>1, SuffixFacts DEF Unwritten
<1>5. Chain = queued /\ Chain' = queued \o <<current'>>
  <2>1. Unwritten' = Unwritten /\ Newest = <<>> /\ Newest' = <<current'>>
    BY <1>1, <1>2 DEF Unwritten, Newest
  <2>2. queued \o <<>> = queued
    BY <1>4
  <2> QED BY <1>2, <2>1, <2>2 DEF Chain
<1> HIDE DEF queued
<1>6. Text(data, queued \o <<current'>>) = Text(data, queued) \o <<>>
  <2>1. <<current'>> \in Seq(Buffers)
    BY <1>2
  <2>2. Text(data, <<current'>>) = <<>>
    BY <1>1, <1>2, <1>3, TextOne
  <2>3. Text(data, queued \o <<current'>>) = Text(data, queued) \o Text(data, <<current'>>)
    BY <1>1, <1>4, <2>1, TextConcat
  <2> QED BY <2>2, <2>3
<1>7. Text(data, queued) \in Seq(Lines)
  BY <1>1, <1>4, TextType
<1>8. Text(data, queued \o <<current'>>) = Text(data, queued)
  BY <1>6, <1>7, ConcatEmptySeq
<1> QED BY <1>2, <1>5, <1>8, PendingIsText

\* One buffer goes to the file: its lines leave the front of the queue.
LEMMA WriteBufferWrites ==
  ASSUME QInv, WriteBuffer
  PROVE  \/ Pending' = Pending /\ file' = file
         \/ Queue!Write
<1> DEFINE b == toWrite[written + 1]
           rest == SubSeq(toWrite, written + 2, Len(toWrite))
           behind == buffers \o Newest
<1>1. /\ data \in Held /\ buffers \in Seq(Buffers) /\ toWrite \in Seq(Buffers)
      /\ written \in 0..Len(toWrite) /\ written < Len(toWrite)
      /\ Newest \in Seq(Buffers)
  BY DEF QInv, IInv, TypeOK, Held, Newest, WriteBuffer
<1>2. written + 1 \in 1..Len(toWrite) /\ b \in Buffers
  BY <1>1
<1>3. /\ UNCHANGED <<current, buffers, toWrite, data>>
      /\ written' = written + 1 /\ file' = file \o data[b]
  BY DEF WriteBuffer, AppendUnlocked, ptrs
<1>4. rest \in Seq(Buffers) /\ behind \in Seq(Buffers) /\ rest \o behind \in Seq(Buffers)
  <2>1. written + 1 \in 0..Len(toWrite) /\ (written + 1) + 1 = written + 2
    BY <1>1, <1>2
  <2>2. rest \in Seq(Buffers)
    BY <1>1, <2>1, SuffixFacts
  <2> QED BY <1>1, <2>2
<1>5. Unwritten = <<b>> \o rest
  <2>1. written + 1 \in 1..Len(toWrite) /\ Len(toWrite) \in (written + 1)..Len(toWrite)
        /\ (written + 1) + 1 = written + 2
    BY <1>1, <1>2
  <2> QED BY <1>1, <2>1, SubSeqRecursiveFirst DEF Unwritten
<1>6. Unwritten' = rest /\ Newest' = Newest
  BY <1>1, <1>3 DEF Unwritten, Newest
<1> HIDE DEF b, rest
<1>7. Chain = <<b>> \o (rest \o behind) /\ Chain' = rest \o behind
  <2>1. <<b>> \in Seq(Buffers)
    BY <1>2
  <2>2. ((<<b>> \o rest) \o buffers) \o Newest = <<b>> \o (rest \o (buffers \o Newest))
    BY <1>1, <1>4, <2>1
  <2>3. (rest \o buffers) \o Newest = rest \o (buffers \o Newest)
    BY <1>1, <1>4
  <2> QED BY <1>3, <1>5, <1>6, <2>2, <2>3 DEF Chain
<1> HIDE DEF behind
<1>8. Pending = data[b] \o Pending'
  <2>1. <<b>> \in Seq(Buffers)
    BY <1>2
  <2>2. Text(data, <<b>> \o (rest \o behind)) = Text(data, <<b>>) \o Text(data, rest \o behind)
    BY <1>1, <1>4, <2>1, TextConcat
  <2>3. Text(data, <<b>>) = data[b]
    BY <1>1, <1>2, TextOne
  <2> QED BY <1>3, <1>7, <2>2, <2>3, PendingIsText
<1>9. data[b] \in Seq(Lines) /\ Pending' \in Seq(Lines) /\ file \in Seq(Lines)
  <2>1. Text(data, rest \o behind) \in Seq(Lines)
    BY <1>1, <1>4, TextType
  <2> QED BY <1>1, <1>2, <1>3, <1>7, <2>1, PendingIsText DEF QInv, IInv, TypeOK
<1>10. CASE data[b] = <<>>
  <2>1. <<>> \o Pending' = Pending' /\ file \o <<>> = file
    BY <1>9
  <2> QED BY <1>3, <1>8, <1>10, <2>1
<1>11. CASE data[b] # <<>>
  <2> DEFINE k == Len(data[b])
  <2>1. k \in 1..Len(Pending)
    <3>1. Len(Pending) = k + Len(Pending') /\ k \in Nat /\ k # 0 /\ Len(Pending') \in Nat
      <4>1. Len(data[b] \o Pending') = k + Len(Pending')
        BY <1>9, ConcatProperties
      <4>2. k \in Nat /\ k # 0 /\ Len(Pending') \in Nat
        BY <1>9, <1>11
      <4> QED BY <1>8, <4>1, <4>2
    <3> QED BY <3>1
  <2>2. /\ data[b] = SubSeq(Pending, 1, k)
        /\ Pending' = SubSeq(Pending, k + 1, Len(Pending))
    <3>1. /\ SubSeq(data[b] \o Pending', 1, Len(data[b])) = data[b]
          /\ SubSeq(data[b] \o Pending', Len(data[b]) + 1, Len(data[b] \o Pending'))
             = Pending'
      BY <1>9, SplitConcat
    <3> QED BY <1>8, <3>1
  <2>3. file' = file \o SubSeq(Pending, 1, k)
    BY <1>3, <2>2
  <2> HIDE DEF k
  <2> QED BY <2>1, <2>2, <2>3 DEF Queue!Write
<1> QED BY <1>10, <1>11

\* Buffers all written and recycled had no pending line any more.
LEMMA RecycleWritesNothing ==
  ASSUME QInv, Recycle PROVE Pending' = Pending /\ file' = file
<1>1. /\ data \in Held /\ buffers \in Seq(Buffers) /\ toWrite \in Seq(Buffers)
      /\ current \in Buffers \cup {NULL} /\ Newest \in Seq(Buffers)
      /\ logger = "write" /\ written = Len(toWrite)
  BY DEF QInv, IInv, TypeOK, Held, Newest, Recycle
<1>2. /\ UNCHANGED <<current, buffers, file>> /\ toWrite' = <<>> /\ written' = 0
      /\ data' = [b \in Buffers |-> IF b \in Range(toWrite) THEN <<>> ELSE data[b]]
  BY DEF Recycle, Reset, Flush
<1>3. Unwritten = <<>> /\ Unwritten' = <<>> /\ Newest' = Newest
  BY <1>1, <1>2 DEF Unwritten, Newest
<1>4. buffers \o Newest \in Seq(Buffers)
  BY <1>1
<1>5. Chain = buffers \o Newest /\ Chain' = buffers \o Newest
  BY <1>1, <1>2, <1>3 DEF Chain
<1>6. ASSUME NEW c \in Range(buffers \o Newest) PROVE data'[c] = data[c]
  <2>1. Range(buffers \o Newest) = Range(buffers) \cup Range(Newest)
    BY <1>1, RangeConcatenation
  <2>2. Range(Newest) \subseteq {current} \ {NULL}
    BY DEF Newest, Range
  <2>3. c \notin Range(toWrite)
    BY <2>1, <2>2 DEF QInv, IInv, OwnedOnce, FrontEnd, BackEnd
  <2>4. c \in Buffers
    BY <1>4, RangeOfSeq
  <2> QED BY <1>2, <2>3, <2>4
<1>7. Text(data', buffers \o Newest) = Text(data, buffers \o Newest)
  BY <1>4, <1>6, TextSame
<1> QED BY <1>2, <1>5, <1>7, PendingIsText
\* The cut of an overlong batch keeps the lines of its first two buffers.
LEMMA TrimCuts ==
  ASSUME NEW batch \in Seq(Buffers), NEW d \in Held, Len(batch) > DropLimit,
         \A i \in 1..(Len(batch) - 1) : d[batch[i]] # <<>>
  PROVE  /\ Len(Text(d, batch)) >= DropLimit
         /\ \E k \in 2..Len(Text(d, batch)) :
               Text(d, Trim(batch)) = SubSeq(Text(d, batch), 1, k)
<1> DEFINE n    == Len(batch)
           kept == SubSeq(batch, 1, 2)
           cut  == SubSeq(batch, 3, n)
           full == SubSeq(batch, 1, n - 1)
           last == SubSeq(batch, n, n)
<1>1. n \in Nat /\ n >= 3 /\ DropLimit \in Nat /\ n - 1 >= DropLimit
  BY ConstAssumption
<1>2. /\ 2 \in 0..n /\ n - 1 \in 0..n /\ 2 + 1 = 3 /\ (n - 1) + 1 = n
      /\ 1 \in 1..(n + 1) /\ 2 \in 0..n /\ n \in 2..n /\ n \in (n - 1)..n
  BY <1>1
<1>3. /\ kept \in Seq(Buffers) /\ Len(kept) = 2 /\ \A i \in 1..2 : kept[i] = batch[i]
      /\ full \in Seq(Buffers) /\ Len(full) = n - 1
      /\ \A i \in 1..(n - 1) : full[i] = batch[i]
  BY <1>1, <1>2, PrefixFacts
<1>4. cut \in Seq(Buffers) /\ last \in Seq(Buffers)
  <2>1. SubSeq(batch, 2 + 1, n) \in Seq(Buffers)
    BY <1>2, SuffixFacts
  <2>2. SubSeq(batch, (n - 1) + 1, n) \in Seq(Buffers)
    BY <1>2, SuffixFacts
  <2> QED BY <1>2, <2>1, <2>2
<1>5. batch = kept \o cut /\ batch = full \o last
  <2>1. kept \o SubSeq(batch, 2 + 1, n) = SubSeq(batch, 1, n)
    BY <1>1, <1>2, ConcatAdjacentSubSeq
  <2>2. full \o SubSeq(batch, (n - 1) + 1, n) = SubSeq(batch, 1, n)
    BY <1>1, <1>2, ConcatAdjacentSubSeq
  <2>3. SubSeq(batch, 1, n) = batch
    BY SubSeqFull
  <2> QED BY <1>2, <2>1, <2>2, <2>3
<1>6. Trim(batch) = kept
  BY DEF Trim
<1>7. (\A b \in Range(kept) : d[b] # <<>>) /\ (\A b \in Range(full) : d[b] # <<>>)
  <2> HIDE DEF kept, full
  <2>1. DOMAIN kept = 1..2 /\ DOMAIN full = 1..(n - 1)
    BY <1>3
  <2>2. \A i \in 1..2 : i \in 1..(n - 1)
    BY <1>1
  <2> QED BY <1>3, <2>1, <2>2 DEF Range
<1> HIDE DEF n, kept, cut, full, last
<1>8. /\ Text(d, batch) = Text(d, kept) \o Text(d, cut)
      /\ Text(d, batch) = Text(d, full) \o Text(d, last)
  <2>1. /\ Text(d, kept \o cut) = Text(d, kept) \o Text(d, cut)
        /\ Text(d, full \o last) = Text(d, full) \o Text(d, last)
    BY <1>3, <1>4, TextConcat
  <2> QED BY <1>5, <2>1
<1>9. /\ Text(d, kept) \in Seq(Lines) /\ Text(d, cut) \in Seq(Lines)
      /\ Text(d, full) \in Seq(Lines) /\ Text(d, last) \in Seq(Lines)
  BY <1>3, <1>4, TextType
<1>10. Len(Text(d, kept)) >= 2 /\ Len(Text(d, full)) >= n - 1
  <2>1. Len(Text(d, kept)) >= Len(kept) /\ Len(Text(d, full)) >= Len(full)
    BY <1>3, <1>7, TextLength
  <2> QED BY <1>3, <2>1
<1>11. /\ Len(Text(d, batch)) = Len(Text(d, kept)) + Len(Text(d, cut))
       /\ Len(Text(d, batch)) = Len(Text(d, full)) + Len(Text(d, last))
  <2>1. /\ Len(Text(d, kept) \o Text(d, cut)) = Len(Text(d, kept)) + Len(Text(d, cut))
        /\ Len(Text(d, full) \o Text(d, last)) = Len(Text(d, full)) + Len(Text(d, last))
    BY <1>9, ConcatProperties
  <2> QED BY <1>8, <2>1
<1>12. /\ Len(Text(d, kept)) \in Nat /\ Len(Text(d, cut)) \in Nat
       /\ Len(Text(d, full)) \in Nat /\ Len(Text(d, last)) \in Nat
  BY <1>9
<1>13. SubSeq(Text(d, batch), 1, Len(Text(d, kept))) = Text(d, kept)
  <2>1. SubSeq(Text(d, kept) \o Text(d, cut), 1, Len(Text(d, kept))) = Text(d, kept)
    BY <1>9, SplitConcat
  <2> QED BY <1>8, <2>1
<1>14. Len(Text(d, batch)) >= DropLimit
  BY <1>1, <1>10, <1>11, <1>12
<1>15. Len(Text(d, kept)) \in 2..Len(Text(d, batch))
  BY <1>10, <1>11, <1>12
<1> QED BY <1>6, <1>13, <1>14, <1>15

\* The swap moves buffers behind one another in the order of their lines;
\* at most it cuts an overlong batch.
LEMMA SwapCuts ==
  ASSUME QInv, logger \in {"lock", "wait"}, Swap
  PROVE  \/ Pending' = Pending /\ file' = file
         \/ Queue!Cut
<1> DEFINE batch == Append(buffers, current)
<1>1. /\ NULL \notin Buffers /\ current \in Buffers /\ current # NULL
      /\ data \in Held /\ buffers \in Seq(Buffers)
      /\ new1 \in Buffers /\ new1 # NULL /\ data[new1] = <<>>
      /\ toWrite = <<>> /\ written = 0
  <2>1. new1 # NULL /\ data[new1] = <<>> /\ toWrite = <<>> /\ current # NULL
    BY DEF QInv, IInv, AssertionsHold, Phases
  <2>2. Len(<<>>) = 0
    OBVIOUS
  <2> QED BY <2>1, <2>2, ConstAssumption DEF QInv, IInv, TypeOK, Held
<1>2. /\ batch \in Seq(Buffers) /\ batch = buffers \o <<current>>
      /\ Len(batch) = Len(buffers) + 1 /\ batch # <<>>
      /\ \A i \in 1..Len(buffers) : batch[i] = buffers[i]
  BY <1>1, AppendIsConcat, AppendProperties
<1>3. /\ current' = new1 /\ buffers' = <<>> /\ toWrite' = Trim(batch)
      /\ written' = 0 /\ file' = file
      /\ data' = [b \in Buffers |-> IF b \in Range(batch) \ Range(Trim(batch))
                                    THEN <<>> ELSE data[b]]
  BY <1>1 DEF Swap, MoveSpare, Reset, disk
<1>4. Trim(batch) \in Seq(Buffers) /\ data' \in Held /\ data'[new1] = <<>>
  BY <1>1, <1>2, <1>3, TrimFacts DEF Held
<1>5. Chain = batch
  <2>1. Unwritten = <<>> /\ Newest = <<current>>
    BY <1>1 DEF Unwritten, Newest
  <2>2. <<>> \o buffers = buffers
    BY <1>1
  <2> QED BY <1>2, <2>1, <2>2 DEF Chain
<1> HIDE DEF batch
<1>6. Chain' = Trim(batch) \o <<new1>>
  <2>1. Unwritten' = Trim(batch)
    <3>1. Unwritten' = SubSeq(Trim(batch), 1, Len(Trim(batch)))
      BY <1>3 DEF Unwritten
    <3> QED BY <1>4, <3>1, SubSeqFull
  <2>2. Newest' = <<new1>>
    BY <1>1, <1>3 DEF Newest
  <2>3. Trim(batch) \o <<>> = Trim(batch)
    BY <1>4
  <2> QED BY <1>3, <2>1, <2>2, <2>3 DEF Chain
<1>7. Pending' = Text(data', Trim(batch))
  <2>1. <<new1>> \in Seq(Buffers)
    BY <1>1
  <2>2. Text(data', Trim(batch) \o <<new1>>)
        = Text(data', Trim(batch)) \o Text(data', <<new1>>)
    BY <1>4, <2>1, TextConcat
  <2>3. Text(data', <<new1>>) = <<>>
    BY <1>1, <1>4, TextOne
  <2>4. Text(data', Trim(batch)) \in Seq(Lines)
    BY <1>4, TextType
  <2>5. Text(data', Trim(batch)) \o <<>> = Text(data', Trim(batch))
    BY <2>4, ConcatEmptySeq
  <2> QED BY <1>6, <2>2, <2>3, <2>5, PendingIsText
<1>8. Text(data', Trim(batch)) = Text(data, Trim(batch))
  <2>1. ASSUME NEW c \in Range(Trim(batch)) PROVE data'[c] = data[c]
    <3>1. c \in Buffers
      BY <1>4, RangeOfSeq
    <3> QED BY <1>3, <3>1
  <2> QED BY <1>4, <2>1, TextSame
<1>9. Pending = Text(data, batch)
  BY <1>5, PendingIsText
<1>10. CASE Len(batch) > DropLimit
  <2>1. \A i \in 1..(Len(batch) - 1) : data[batch[i]] # <<>>
    <3>1. Len(buffers) \in Nat /\ Len(batch) - 1 = Len(buffers)
      BY <1>1, <1>2
    <3>2. \A i \in 1..Len(buffers) : data[buffers[i]] # <<>>
      BY <1>1 DEF QInv, Filled, Range
    <3> QED BY <1>2, <3>1, <3>2
  <2>2. /\ Len(Text(data, batch)) >= DropLimit
        /\ \E k \in 2..Len(Text(data, batch)) :
              Text(data, Trim(batch)) = SubSeq(Text(data, batch), 1, k)
    BY <1>1, <1>2, <1>10, <2>1, TrimCuts
  <2> QED BY <1>3, <1>7, <1>8, <1>9, <2>2 DEF Queue!Cut
<1>11. CASE ~(Len(batch) > DropLimit)
  <2>1. Trim(batch) = batch
    BY <1>11 DEF Trim
  <2> QED BY <1>3, <1>7, <1>8, <1>9, <2>1
<1> QED BY <1>10, <1>11

\* The other steps change neither the buffers with pending lines nor the file.
LEMMA OthersLogNothing ==
  ASSUME QInv,
         \/ CreateThread \/ StartReturns \/ Enter \/ CheckRunning \/ BeginWait
         \/ Exit \/ StopClear \/ StopNotify \/ StopJoin \/ UNCHANGED vars
  PROVE  Pending' = Pending /\ file' = file
<1>1. UNCHANGED <<current, buffers, toWrite, written, data, file>>
  BY DEF CreateThread, StartReturns, Enter, CheckRunning, BeginWait, Exit, Flush,
         StopClear, StopNotify, StopJoin, vars, ptrs, disk
<1>2. Chain' = Chain
  BY <1>1 DEF Chain, Unwritten, Newest
<1> QED BY <1>1, <1>2, PendingIsText
\* Filled is kept by every step.
LEMMA StepFilled == ASSUME QInv, [Next]_vars PROVE Filled'
<1>1. CASE OnceInit
  <2>1. /\ next' \in Buffers /\ next' \notin Referenced
        /\ UNCHANGED <<buffers, data>>
    BY <1>1, FreshFacts DEF OnceInit, HeapRoom
  <2> QED BY <2>1 DEF QInv, IInv, EmptyBuffers, Filled
<1>2. CASE \E l \in Lines : AppendLine(l)
  <2> PICK l \in Lines : AppendLine(l)
    BY <1>2
  <2>1. /\ NULL \notin Buffers /\ current \in Buffers /\ current # NULL
        /\ data \in Held /\ buffers \in Seq(Buffers)
        /\ current \notin Range(buffers)
        /\ next # NULL => next # current /\ next \notin Range(buffers)
    BY AppendSetting DEF QInv, IInv, OwnedOnce
  <2>2. Range(buffers) \subseteq Buffers
    BY <2>1, RangeOfSeq
  <2>3. CASE /\ FixedAppend(current, l)
             /\ UNCHANGED <<current, next, buffers, signalled>>
    <3>1. \A c \in Buffers : c # current => data'[c] = data[c]
      BY <2>1, <2>3, FixedAppendFacts DEF QInv, IInv
    <3>2. next \in Buffers \cup {NULL}
      BY DEF QInv, IInv, TypeOK
    <3> QED BY <2>1, <2>2, <2>3, <3>1, <3>2 DEF QInv, Filled
  <2>4. CASE /\ Avail(current) <= Size[l]
             /\ buffers' = Append(buffers, current)
             /\ current' = IF next # NULL THEN next ELSE Fresh(Referenced)
             /\ next' = NULL
             /\ FixedAppend(current', l)
    <3>1. data[current] # <<>>
      <4>1. ASSUME data[current] = <<>> PROVE FALSE
        <5>1. Length(current) = 0
          BY <4>1, LengthOfNone
        <5>2. Cap \in Nat /\ Size[l] \in Nat /\ Size[l] < Cap
          BY ConstAssumption
        <5> QED BY <2>4, <5>1, <5>2 DEF Avail
      <4> QED BY <4>1
    <3>2. /\ current' \in Buffers /\ current' # current
          /\ current' \notin Range(buffers)
      <4>1. CASE next # NULL
        BY <2>1, <2>4, <4>1 DEF QInv, IInv, TypeOK
      <4>2. CASE next = NULL
        <5>1. Fresh(Referenced) \in Buffers /\ Fresh(Referenced) \notin Referenced
          BY FreshFacts DEF AppendLine, HeapRoom
        <5> QED BY <2>1, <2>4, <4>2, <5>1 DEF Referenced
      <4> QED BY <4>1, <4>2
    <3>3. \A c \in Buffers : c # current' => data'[c] = data[c]
      BY <2>4, <3>2, FixedAppendFacts DEF QInv, IInv
    <3>4. Range(buffers') = Range(buffers) \cup {current}
      BY <2>1, <2>4, AppendFacts
    <3> QED BY <2>1, <2>2, <2>4, <3>1, <3>2, <3>3, <3>4 DEF QInv, Filled
  <2> QED BY <2>3, <2>4 DEF AppendLine
<1>3. CASE SwapNow \/ Woken
  <2>1. Swap /\ new2 # NULL /\ data[new2] = <<>>
    BY <1>3 DEF SwapNow, Woken, QInv, IInv, AssertionsHold
  <2>2. /\ buffers' = <<>> /\ (next' = next \/ next' = new2)
        /\ \A b \in Buffers : data'[b] = data[b] \/ data'[b] = <<>>
    BY <2>1 DEF Swap, Reset
  <2>3. next \in Buffers \cup {NULL} /\ new2 \in Buffers \cup {NULL}
    BY DEF QInv, IInv, TypeOK
  <2>4. next' # NULL => data'[next'] = <<>>
    BY <2>1, <2>2, <2>3 DEF QInv, Filled
  <2> QED BY <2>2, <2>4 DEF Filled, Range
<1>4. CASE Recycle
  <2>1. /\ UNCHANGED <<buffers, next>>
        /\ data' = [b \in Buffers |-> IF b \in Range(toWrite) THEN <<>> ELSE data[b]]
    BY <1>4 DEF Recycle, Reset
  <2>2. buffers \in Seq(Buffers) /\ next \in Buffers \cup {NULL}
    BY DEF QInv, IInv, TypeOK
  <2>3. Range(buffers) \subseteq Buffers /\ Range(buffers) \cap Range(toWrite) = {}
    BY <2>2, RangeOfSeq DEF QInv, IInv, OwnedOnce, FrontEnd, BackEnd
  <2> QED BY <2>1, <2>2, <2>3 DEF QInv, Filled
<1>5. CASE \/ CreateThread \/ StartReturns \/ Enter \/ CheckRunning \/ BeginWait
           \/ WriteBuffer \/ Exit \/ StopClear \/ StopNotify \/ StopJoin
           \/ UNCHANGED vars
  <2>1. UNCHANGED <<buffers, next, data>>
    BY <1>5 DEF CreateThread, StartReturns, Enter, CheckRunning, BeginWait,
                WriteBuffer, Exit, StopClear, StopNotify, StopJoin, vars, ptrs
  <2> QED BY <2>1 DEF QInv, Filled
<1> QED BY <1>1, <1>2, <1>3, <1>4, <1>5 DEF Next, Starting, ThreadFunc, Stopping

LEMMA QueueInvariant == Spec => []QInv
<1>1. Init => QInv
  <2>1. Init => Filled
    BY DEF Init, Filled, Range
  <2> QED BY <2>1, InitIInv DEF QInv
<1>2. QInv /\ [Next]_vars => QInv'
  BY StepIInv, StepFilled DEF QInv
<1> QED BY <1>1, <1>2, PTL DEF Spec

\* Every step of the logger is a step of the queue, or none.
LEMMA StepQueue ==
  ASSUME QInv, [Next]_vars
  PROVE  [Queue!Next]_(Queue!vars)
<1>1. CASE \E l \in Lines : AppendLine(l)
  <2> PICK l \in Lines : AppendLine(l)
    BY <1>1
  <2>1. Queue!Log(l)
    BY AppendLineLogs DEF Queue!Log
  <2> QED BY <2>1 DEF Queue!Next
<1>2. CASE SwapNow \/ Woken
  <2>1. logger \in {"lock", "wait"} /\ Swap
    BY <1>2 DEF SwapNow, Woken
  <2> QED BY <2>1, SwapCuts DEF Queue!Next, Queue!vars
<1>3. CASE WriteBuffer
  BY <1>3, WriteBufferWrites DEF Queue!Next, Queue!vars
<1>4. CASE OnceInit
  BY <1>4, OnceInitLogsNothing DEF Queue!vars
<1>5. CASE Recycle
  BY <1>5, RecycleWritesNothing DEF Queue!vars
<1>6. CASE \/ CreateThread \/ StartReturns \/ Enter \/ CheckRunning \/ BeginWait
           \/ Exit \/ StopClear \/ StopNotify \/ StopJoin \/ UNCHANGED vars
  BY <1>6, OthersLogNothing DEF Queue!vars
<1> QED BY <1>1, <1>2, <1>3, <1>4, <1>5, <1>6
    DEF Next, Starting, ThreadFunc, Stopping

\* The double buffering of append and threadFunc (AsyncLogging.cpp:25-39,
\* 41-113) is a FIFO queue of lines from append to the file, for any lines,
\* buffer size and limits: whatever the threads interleave, the lines reach
\* the file in the order they were logged, each once, and only a backlog of
\* DropLimit lines or more loses lines, the newest and never the two oldest.
THEOREM LoggerIsQueue == Spec => ImplementsQueue
<1>1. Init => Queue!Init
  <2> SUFFICES ASSUME Init PROVE Queue!Init
    OBVIOUS
  <2>1. Chain = <<>>
    BY DEF Init, Chain, Unwritten, Newest
  <2> QED BY <2>1, PendingIsText, TextNone DEF Init, Queue!Init
<1>2. QInv /\ [Next]_vars => [Queue!Next]_(Queue!vars)
  BY StepQueue
<1> QED BY <1>1, <1>2, QueueInvariant, PTL DEF Spec, ImplementsQueue, Queue!Spec
=============================================================================
