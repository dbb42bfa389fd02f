------------------------------ MODULE MCRecording ------------------------------
(* Recording with three metrics: a success, an error of the same session, and   *)
(* a cache hit without one.                                                     *)
EXTENDS Recording, TLC

CONSTANTS r1, r2, a, b, s1, planning, grep

MCRecorders == {r1, r2}
MCMetrics ==
    {[model |-> a, status |-> 200, cacheHit |-> FALSE, tokens |-> 0, parts |-> 2,
      session |-> s1, phase |-> planning, tool |-> None],
     [model |-> b, status |-> 400, cacheHit |-> FALSE, tokens |-> 0, parts |-> 0,
      session |-> s1, phase |-> None, tool |-> grep],
     [model |-> a, status |-> 200, cacheHit |-> TRUE, tokens |-> 3, parts |-> 2,
      session |-> None, phase |-> None, tool |-> None]}
RecorderSymmetry == Permutations(MCRecorders)
===============================================================================
