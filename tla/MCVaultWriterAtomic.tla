------------------------- MODULE MCVaultWriterAtomic -------------------------
(* The instance of VaultWriterAtomic for TLC, over the vault of            *)
(* MCVaultWriter.                                                          *)
EXTENDS MCVaultWriter, VaultWriterAtomic
=============================================================================
