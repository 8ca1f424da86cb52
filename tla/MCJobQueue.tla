----------------------------- MODULE MCJobQueue -----------------------------
(* JobQueue for TLC: the interchangeable processes are symmetric. *)
EXTENDS JobQueue, TLC

Symmetry == Permutations(Workers) \cup Permutations(Clients) \cup Permutations(Keys)
=============================================================================
