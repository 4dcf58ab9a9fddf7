--------------------------- MODULE MCControlPlane ---------------------------
(* Instance of ControlPlane, and of the BundleStore it extends, for TLC.   *)
EXTENDS ControlPlane, TLC

=============================================================================
