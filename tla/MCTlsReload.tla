---------------------------- MODULE MCTlsReload ----------------------------
(* Instance of TlsReload for TLC.                                          *)
EXTENDS TlsReload, TLC

=============================================================================
