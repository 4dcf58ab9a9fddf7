-------------------------- MODULE MCEdgeRequestPath --------------------------
(* Instance of EdgeRequestPath for TLC.                                    *)
EXTENDS EdgeRequestPath, TLC

=============================================================================
