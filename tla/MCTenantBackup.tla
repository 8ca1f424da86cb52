--------------------------- MODULE MCTenantBackup ---------------------------
(* TenantBackup for TLC: documents, keys and admins' requests are interchangeable. *)
EXTENDS TenantBackup, TLC

Symmetry == Permutations(Docs) \cup Permutations(Keys) \cup Permutations(Admins)
=============================================================================
