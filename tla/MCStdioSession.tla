--------------------------- MODULE MCStdioSession ---------------------------
(* Instances of StdioSession for TLC.                                      *)
EXTENDS StdioSession, TLC

=============================================================================
