------------------------------- MODULE MCDaemon -------------------------------
(* A small instance of Daemon for TLC, in units of 30 seconds: the defaults of  *)
(* the code are RefreshBefore = 10, Skew = 2, RetryDelay = 1.                   *)
EXTENDS Daemon
=============================================================================
