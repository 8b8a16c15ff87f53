--------------------------- MODULE MCHealthRetry ---------------------------
(* Instances of HealthRetry for TLC: threads are model values.             *)
EXTENDS HealthRetry, TLC
=============================================================================
