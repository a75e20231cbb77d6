------------------------ MODULE MCPushInstallations ------------------------
(* PushInstallations for TLC, without symmetry: the run checks liveness.   *)
EXTENDS PushInstallations, TLC
=============================================================================
