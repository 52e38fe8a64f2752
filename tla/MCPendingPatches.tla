-------------------------- MODULE MCPendingPatches --------------------------
(* The instance of PendingPatches that TLC checks. *)
EXTENDS PendingPatches

CONSTANTS p1, p2, p3, i1, i2
=============================================================================
