----------------------------- MODULE MCConnCache -----------------------------
(* ConnCache with the program's kinds of callers.                            *)
EXTENDS ConnCache

CONSTANTS broadcast, sync, stream

=============================================================================
