------------------------------- MODULE MCL1Cache -------------------------------
(* L1Cache with interchangeable writers and keys. *)
EXTENDS L1Cache, TLC

CONSTANTS w1, w2, k1, k2, k3, k4, k5, k6

MCWriters == {w1, w2}
MCKeys == {k1, k2, k3, k4, k5, k6}
L1Symmetry == Permutations(MCWriters) \cup Permutations(MCKeys)
===============================================================================
