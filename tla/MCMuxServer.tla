---------------------------- MODULE MCMuxServer ----------------------------
(* Model checking of MuxServer.                                            *)
EXTENDS MuxServer, TLC

(* Sessions, locks and pipes are as they should be, and what is listed is  *)
(* true of a session that is quiet.                                        *)
ListIsTrue == TypeOK /\ QuietIsIdle
=============================================================================
