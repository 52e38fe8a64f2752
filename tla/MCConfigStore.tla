--------------------------- MODULE MCConfigStore ---------------------------
(* The instance of ConfigStore that TLC checks.                            *)
EXTENDS ConfigStore, TLC

CONSTANTS api, mcp, r1, r2, domain, port, low, high

MCDefaults == (domain :> low) @@ (port :> low)
=============================================================================
