-------------------------- MODULE MCFindingLedger --------------------------
(* FindingLedger for TLC: the server processes are symmetric. *)
EXTENDS FindingLedger, TLC

Symmetry == Permutations(Servers)
=============================================================================
