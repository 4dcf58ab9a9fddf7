-------------------------- MODULE MCPolicyRestore --------------------------
(* Instance of PolicyRestore for TLC.                                      *)
EXTENDS PolicyRestore, TLC

=============================================================================
