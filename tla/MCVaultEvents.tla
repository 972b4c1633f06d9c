--------------------------- MODULE MCVaultEvents ----------------------------
(***************************************************************************)
(* The values of MCVault for the vault with its event log.                 *)
(***************************************************************************)
EXTENDS MCVault, VaultEvents
=============================================================================
