------------------------------ MODULE MCServer ------------------------------
(* Small instances of Server, whose table is initialised in part, as in    *)
(* the code.                                                               *)
EXTENDS Server

MCConns == 1..3
\* Fewer descriptors than connections, so that accept also fails.
MCFds == {4, 5}
\* As many descriptors as connections, so that it never does.
MCManyFds == {4, 5, 6}
\* What the stack may hold: a number that looks like a descriptor, or one
\* that looks like a free entry.
MCGarbage == {3, 4, -7}
=============================================================================
