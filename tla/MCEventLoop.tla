---------------------------- MODULE MCEventLoop ----------------------------
(* Small instance of EventLoop.                                            *)
EXTENDS EventLoop

MCCallers == {"c1", "c2"}
MCTasks == 1..3
MCChannels == {"conn"}
=============================================================================
