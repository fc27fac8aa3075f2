----------------------------- MODULE TaskQueue -----------------------------
(***************************************************************************)
(* What an event loop promises to those who give it tasks: every task is   *)
(* started at most once, in the order in which the tasks were accepted.    *)
(***************************************************************************)
EXTENDS Sequences

CONSTANT Tasks

VARIABLES accepted,   \* tasks accepted and not started, oldest first
          executed    \* tasks started, oldest first

vars == <<accepted, executed>>

Init == accepted = <<>> /\ executed = <<>>

Accept(t) == accepted' = Append(accepted, t) /\ UNCHANGED executed

Execute == /\ accepted # <<>>
           /\ accepted' = Tail(accepted)
           /\ executed' = Append(executed, Head(accepted))

Next == Execute \/ \E t \in Tasks : Accept(t)

Spec == Init /\ [][Next]_vars
=============================================================================
