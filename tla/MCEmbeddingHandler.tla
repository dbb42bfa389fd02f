--------------------------- MODULE MCEmbeddingHandler ---------------------------
(* EmbeddingHandler with two interchangeable health checks and one embedding    *)
(* request after the other.                                                     *)
EXTENDS EmbeddingHandler, TLC

CONSTANTS r1, r2, c1

MCRequests == {r1, r2}
MCCalls == {c1}
RequestSymmetry == Permutations(MCRequests)
=================================================================================
