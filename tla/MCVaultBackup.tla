---------------------------- MODULE MCVaultBackup ----------------------------
(* Instances of VaultBackup for TLC.                                       *)
EXTENDS VaultBackup, TLC

CONSTANTS p1, p2, n1, n2, n3, work, home, job

N(name, dom, link) == [name |-> name, dom |-> dom, link |-> link, text |-> 0]
TwoDomains == (work :> {N(n1, work, None)}) @@ (home :> {N(n2, home, work)})
              @@ (personal :> {}) @@ (job :> None)
TwoConfig == [domains |-> {work, home, personal}, active |-> home]
TwoTools == (p1 :> {"create", "delete", "undo", "snapshot", "restore"}) @@ (p2 :> {"rename"})
=============================================================================
