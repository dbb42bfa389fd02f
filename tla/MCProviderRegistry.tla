-------------------------- MODULE MCProviderRegistry --------------------------
(* Instances of ProviderRegistry: model A, with two providers, falls back to  *)
(* model B.                                                                   *)
EXTENDS ProviderRegistry

CONSTANTS A, B, openai, retired, r1, r2

MCRequests == {r1, r2}
RequestSymmetry == Permutations(MCRequests)

MCModels == {A, B}
MCDetectProvider == [m \in MCModels |-> openai]

LOCAL Entry(m, p, f) == [name |-> m, provider |-> p, weight |-> 1,
                         fallback |-> f, isActive |-> TRUE]

\* One of A's providers has no client, and B is not configured.
Unconfigured == <<Entry(A, openai, B), Entry(A, retired, NoName)>>

OpenAI_A == <<openai, A>>
OpenAI_B == <<openai, B>>
HealthyB == {OpenAI_B}
NoRoutes == {}

LOCAL Err(s, w) == [status |-> s, wrapped |-> w]
TwoErrors == {Err(400, FALSE), Err(429, FALSE)}
===============================================================================
