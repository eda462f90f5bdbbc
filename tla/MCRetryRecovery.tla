-------------------------- MODULE MCRetryRecovery ---------------------------
(* Two face failures before a reset is required, thresholds of one and two *)
(* between which the configuration may change, three guesses of which two  *)
(* are free of delay, a delay of two instants, and one restart.            *)
EXTENDS RetryRecovery
=============================================================================
