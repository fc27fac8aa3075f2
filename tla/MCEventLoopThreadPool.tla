----------------------- MODULE MCEventLoopThreadPool -----------------------
(* Small instance of EventLoopThreadPool: the thread that is modelled in   *)
(* full is neither the first nor the last.                                 *)
EXTENDS EventLoopThreadPool

MCCallers == {"owner", "user"}
MCTasks == 1..2
MCChannels == {"conn"}
=============================================================================
