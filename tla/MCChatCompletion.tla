--------------------------- MODULE MCChatCompletion ---------------------------
(* ChatCompletion with a model that falls back to another, a policy that      *)
(* routes a step to that other, and two prompts of one meaning.               *)
EXTENDS ChatCompletion, TLC

CONSTANTS r1, r2, a, b, p1, p2, planning

MCRequests == {r1, r2}
MCPolicy == planning :> b
MCChain == a :> {a, b} @@ b :> {b}
MCMeaning == p1 :> 1 @@ p2 :> 1
Ask(model, step, prompt) == [model |-> model, step |-> step, prompt |-> prompt]
MCQuestions == {Ask(a, None, p1), Ask(a, planning, p1), Ask(a, None, p2),
                Ask(None, planning, p2), Ask(None, None, p1)}
MCUpstream == {[status |-> 404, open |-> FALSE], [status |-> 502, open |-> FALSE],
               [status |-> 503, open |-> TRUE]}
RequestSymmetry == Permutations(MCRequests)
===============================================================================
