------------------------------ MODULE MCTailer ------------------------------
(* The Tailer on small instances: a pattern "b" for two pathnames, of which *)
(* the second is a log.                                                     *)
EXTENDS Tailer, TLC

DanglingAndLog == <<"dangling", "log">>
DirAndLog == <<"dir", "log">>
MatchesB == "b" :> {1, 2}
=============================================================================
