--------------------------- MODULE MCEdgeProcess ---------------------------
(* Instance of EdgeProcess for TLC.                                        *)
EXTENDS EdgeProcess, TLC

=============================================================================
