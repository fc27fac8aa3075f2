----------------------------- MODULE MCReactor -----------------------------
(* Small instance of Reactor.                                              *)
EXTENDS Reactor

MCConns == 1..2
MCFds == 1..2
MCNodes == 1..2
MCMasks == {{"in"}}
MCReports == {{"in"}, {"hup"}, {"in", "err"}}
=============================================================================
