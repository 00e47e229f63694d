---------------------------- MODULE MCTokenManager ----------------------------
(* Small instances of TokenManager for TLC, in units of 30 seconds: the         *)
(* defaults of the code are RefreshBefore = 10, Skew = 2, RetryDelay = 1.       *)
EXTENDS TokenManager
=============================================================================
