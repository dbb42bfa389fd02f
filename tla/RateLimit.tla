------------------------------- MODULE RateLimit -------------------------------
(***************************************************************************)
(* The RateLimit middleware of internal/middleware/ratelimit.go under      *)
(* concurrent requests: first the limiter of the requested model, if it    *)
(* has one, then the global limiter, each under its own mutex.  The global *)
(* limiter is the bucket of TokenBucket.                                   *)
(***************************************************************************)
EXTENDS TokenBucket, FiniteSets

CONSTANTS Requests,     \* goroutines, each serving one request after the other
          Models,       \* model names; one of them may be "default"
          ModelLimits,  \* cfg.ModelLimits: a function from some models to Int
          Watched       \* a limited model, for the refinement

\* Models without a positive limit get no limiter.
Limited == {m \in DOMAIN ModelLimits : ModelLimits[m] > 0}

ASSUME LimitsAssumption == /\ Watched \in Limited
                           /\ DOMAIN ModelLimits \subseteq Models
                           /\ \A m \in DOMAIN ModelLimits : ModelLimits[m] \in Int
ASSUME RequestsAssumption == IsFiniteSet(Requests)

VARIABLES modelLimiters,
          checking,    \* per request, its model while it is between the two limiters
          modelTaken,  \* history: tokens of each limiter handed out in the window
          served       \* history: requests per model passed on in the window

limits == <<modelLimiters, checking, modelTaken, served>>

LimitInit == /\ Init
             /\ modelLimiters = [m \in Limited |-> NewRateLimiter(ModelLimits[m], 0)]
             /\ checking = [r \in Requests |-> {}]
             /\ modelTaken = [m \in Limited |-> 0]
             /\ served = [m \in Models |-> 0]

InWindow == IF clock >= windowStart THEN 1 ELSE 0

Passing == Tick /\ UNCHANGED limits

\* Faulty variants: the model's limiter is not asked; it refills at the global
\* rate.
AllowModelAlways(m) == TRUE
UseModelAtGlobalRate(m) ==
    modelLimiters' = [modelLimiters EXCEPT ![m] = AfterToken(@, QPS, Burst, clock)]

AllowModel(m) == AllowToken(modelLimiters[m], ModelLimits[m], ModelLimits[m], clock)
UseModel(m) ==
    modelLimiters' = [modelLimiters EXCEPT
                        ![m] = AfterToken(@, ModelLimits[m], ModelLimits[m], clock)]

\* A request for a model without a limiter goes straight to the global one.
EnterUnlimited(r, m) ==
    /\ checking[r] = {} /\ m \notin Limited
    /\ checking' = [checking EXCEPT ![r] = {m}]
    /\ UNCHANGED <<vars, modelLimiters, modelTaken, served>>

PassModel(r, m) ==
    /\ checking[r] = {} /\ m \in Limited
    /\ AllowModel(m)
    /\ UseModel(m)
    /\ modelTaken' = [modelTaken EXCEPT ![m] = @ + InWindow]
    /\ checking' = [checking EXCEPT ![r] = {m}]
    /\ UNCHANGED <<vars, served>>

\* 429 "Rate limit exceeded for model"; the global limiter is not asked.
RefuseModel(r, m) ==
    /\ checking[r] = {} /\ m \in Limited
    /\ ~ AllowModel(m)
    /\ UseModel(m)
    /\ UNCHANGED <<vars, checking, modelTaken, served>>

PassGlobal(r) ==
    \E m \in checking[r] :
        /\ Take
        /\ served' = [served EXCEPT ![m] = @ + InWindow]
        /\ checking' = [checking EXCEPT ![r] = {}]
        /\ UNCHANGED <<modelLimiters, modelTaken>>

\* 429; the model's token stays spent.
RefuseGlobal(r) ==
    /\ checking[r] # {}
    /\ Refuse
    /\ checking' = [checking EXCEPT ![r] = {}]
    /\ UNCHANGED <<modelLimiters, modelTaken, served>>

LimitNext == \/ Passing
             \/ \E r \in Requests :
                  \/ PassGlobal(r) \/ RefuseGlobal(r)
                  \/ \E m \in Models :
                       EnterUnlimited(r, m) \/ PassModel(r, m) \/ RefuseModel(r, m)

LimitSpec == LimitInit /\ [][LimitNext]_<<vars, limits>>
-------------------------------------------------------------------------------
\* config.go:84 per-model QPS limit: over every window a limited model gets at
\* most its limit as a burst and its limit per second, and the requests that
\* were between the two limiters when the window began.
ModelRateBounded ==
    \A m \in Limited :
        (served[m] - Cardinality(Requests)) * Cost
            <= ModelLimits[m] * Cost
                 + (IF clock >= windowStart THEN ModelLimits[m] * (clock - windowStart)
                                            ELSE 0)

\* A model's limiter works as a token bucket with the model's limit as rate and
\* burst, whatever the global limiter says to the requests it let pass
\* (ratelimit.go:110-118).
OfWatched ==
    INSTANCE TokenBucket WITH QPS <- ModelLimits[Watched],
                              Burst <- ModelLimits[Watched],
                              bucket <- modelLimiters[Watched],
                              taken <- modelTaken[Watched]
ModelIsTokenBucket == OfWatched!Spec
===============================================================================
