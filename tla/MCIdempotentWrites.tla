------------------------- MODULE MCIdempotentWrites -------------------------
(* IdempotentWrites for TLC: the requests of a client are interchangeable. *)
EXTENDS IdempotentWrites, TLC

Symmetry == Permutations(Requests)
=============================================================================
