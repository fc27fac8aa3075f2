------------------------------ MODULE LogQueue ------------------------------
(***************************************************************************)
(* What the asynchronous logger promises to the threads that log: one FIFO *)
(* queue of lines.  A line enters at the tail, leaves from the head into   *)
(* the log file, and may be discarded only as part of the newest lines of  *)
(* an overlong backlog, the oldest KeepLines lines of which survive.       *)
(***************************************************************************)
EXTENDS Naturals, Sequences

CONSTANTS Lines,      \* the log lines
          Backlog,    \* a backlog shorter than this is never cut
          KeepLines   \* at least this many of the oldest lines survive a cut

VARIABLES pending,    \* lines accepted and neither written nor discarded
          file        \* lines handed to the log file, in order

vars == <<pending, file>>

Init == pending = <<>> /\ file = <<>>

Log(l) == pending' = Append(pending, l) /\ UNCHANGED file

Write == \E k \in 1..Len(pending) :
            /\ file' = file \o SubSeq(pending, 1, k)
            /\ pending' = SubSeq(pending, k + 1, Len(pending))

Cut == /\ Len(pending) >= Backlog
       /\ \E k \in KeepLines..Len(pending) : pending' = SubSeq(pending, 1, k)
       /\ UNCHANGED file

Next == Write \/ Cut \/ \E l \in Lines : Log(l)

Spec == Init /\ [][Next]_vars
=============================================================================
