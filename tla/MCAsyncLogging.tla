--------------------------- MODULE MCAsyncLogging ---------------------------
(* Small instance of AsyncLogging.                                         *)
EXTENDS AsyncLogging

MCLines == 1..4
\* Line 3 is long: it does not fit behind a short one.
MCSize == [l \in MCLines |-> IF l = 3 THEN 2 ELSE 1]
MCBuffers == 1..8
=============================================================================
