------------------------------ MODULE MCAdmission ------------------------------
(* Admission with a limited model, one with limit 0, which has no limiter, *)
(* and one key.                                                            *)
EXTENDS Admission, TLC

CONSTANTS A, C, r1, r2

MCRequests == {r1, r2}
RequestSymmetry == Permutations(MCRequests)
MCModelLimits == (A :> 1) @@ (C :> 0)
================================================================================
