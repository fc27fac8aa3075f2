------------------------- MODULE MCEventLoopThread -------------------------
(* Small instance of EventLoopThread.                                      *)
EXTENDS EventLoopThread

MCCallers == {"owner", "user"}
MCTasks == 1..2
MCChannels == {"conn"}
=============================================================================
