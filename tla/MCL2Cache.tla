------------------------------- MODULE MCL2Cache -------------------------------
(* L2Cache with three vectors on a line: the middle one is similar to both *)
(* others, which are not similar to each other.  Two keys of one model and *)
(* one of another.                                                         *)
EXTENDS L2Cache, TLC

CONSTANTS k1, k2, k3, m1, m2, w1, w2

MCKeys == {k1, k2, k3}
MCModelOf == k1 :> m1 @@ k2 :> m1 @@ k3 :> m2
MCVectors == 0..2
MCSimilarity == [a \in MCVectors |-> [b \in MCVectors |->
                    CASE a = b -> 3 [] a - b \in {1, -1} -> 2 [] OTHER -> 0]]
MCWriters == {w1, w2}
CacheSymmetry == Permutations({k1, k2}) \cup Permutations(MCWriters)
===============================================================================
