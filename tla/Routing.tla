------------------------------- MODULE Routing -------------------------------
(***************************************************************************)
(* How provider/registry.go turns the configured models into the queue of  *)
(* routes a request tries: NewRegistry, resolveModelChain, routesForModel, *)
(* weightedOrder and buildRouteQueue.  Everything here is a function of    *)
(* cfg, the sequence of model entries                                      *)
(*   [name, provider, weight, fallback, isActive]                          *)
(* in which an empty provider or fallback is NoName.  Names are taken as   *)
(* trimmed.  The registry is never written after NewRegistry.              *)
(***************************************************************************)
EXTENDS Integers, SequencesExt

CONSTANTS Models,          \* every model name, configured or not
          DetectProvider,  \* detectProvider: the provider a name stands for
          NoName           \* the empty string

\* Names are finitely many: those of the configuration and of the requests.
ASSUME ModelsAssumption == IsFiniteSet(Models) /\ Models # {} /\ NoName \notin Models

\* cfg, as far as the routes depend on it; entries without a name are passed
\* over by NewRegistry.
IsConfig(cfg) == /\ cfg \in Seq(ToSet(cfg))
                 /\ \A e \in ToSet(cfg) : /\ e.name \in Models
                                          /\ e.fallback \in Models \cup {NoName}
                                          /\ e.weight \in Int

\* The active entries of m, as NewRegistry appends them one by one.
Entered(cfg, m) ==
    LET entries[i \in 0..Len(cfg)] ==
          IF i = 0 THEN <<>>
          ELSE LET sofar == entries[i - 1]
               IN  IF cfg[i].isActive /\ cfg[i].name = m
                   THEN Append(sofar, cfg[i]) ELSE sofar
    IN  entries

Entries(cfg, m) == Entered(cfg, m)[Len(cfg)]

Candidate(e, m) ==
    [model    |-> m,
     provider |-> IF e.provider = NoName THEN DetectProvider[m] ELSE e.provider,
     weight   |-> IF e.weight <= 0 THEN 1 ELSE e.weight]

ModelRoutes(cfg, m) ==
    [i \in DOMAIN Entries(cfg, m) |-> Candidate(Entries(cfg, m)[i], m)]

\* The first entry of the model that names a fallback decides.
ModelFallback(cfg, m) ==
    LET named == {i \in DOMAIN Entries(cfg, m) : Entries(cfg, m)[i].fallback # NoName}
    IN  IF named = {} THEN NoName
        ELSE Entries(cfg, m)[CHOOSE i \in named : \A j \in named : i <= j].fallback

\* A model that is not configured still gets one route, to the provider its
\* name suggests.
RoutesForModel(cfg, m) ==
    IF ModelRoutes(cfg, m) # <<>>
    THEN ModelRoutes(cfg, m)
    ELSE <<[model |-> m, provider |-> DetectProvider[m], weight |-> 1]>>

CircuitKey(c) == <<c.provider, c.model>>

\* Faulty variant: the provider is not detected.
InitialCircuitsRaw(cfg) ==
    {<<e.provider, e.name>> : e \in {x \in ToSet(cfg) : x.isActive}}

\* The keys for which NewRegistry creates a breaker.
InitialCircuits(cfg) ==
    {CircuitKey(c) : c \in UNION {ToSet(ModelRoutes(cfg, m)) : m \in Models}}

\* The models met on the way from m, the i-th after i fallbacks.
Hops(cfg, m) ==
    LET hop[i \in 0..Cardinality(Models)] ==
          IF i = 0 THEN m
          ELSE LET current == hop[i - 1]
               IN  IF current = NoName THEN NoName ELSE ModelFallback(cfg, current)
    IN  hop

\* Follow the fallbacks until there is none or a model comes up again.
ResolveModelChain(cfg, m) ==
    LET hop == Hops(cfg, m)
        Stop(i) == hop[i] = NoName \/ \E j \in 0..(i - 1) : hop[j] = hop[i]
        len == CHOOSE i \in 1..Cardinality(Models) :
                  Stop(i) /\ \A j \in 1..(i - 1) : ~ Stop(j)
    IN  [i \in 1..len |-> hop[i - 1]]

\* The sum of the weights of the first i candidates.
Weighed(cands) ==
    LET total[i \in 0..Len(cands)] ==
          IF i = 0 THEN 0 ELSE total[i - 1] + cands[i].weight
    IN  total

TotalWeight(cands) == Weighed(cands)[Len(cands)]

\* The draw after i candidates have been passed over: weights are subtracted
\* from it until the next one exceeds what is left.
Remaining(cands, pick) ==
    LET left[i \in 0..Len(cands)] ==
          IF i = 0 THEN pick ELSE left[i - 1] - cands[i].weight
    IN  left

\* Faulty variant: the boundary of the draw is off by one.
WeightedPickInclusive(cands, pick) ==
    LET Hit(i) == Remaining(cands, pick)[i - 1] <= cands[i].weight
    IN  IF \E i \in DOMAIN cands : Hit(i)
        THEN CHOOSE i \in DOMAIN cands : Hit(i) /\ \A j \in 1..(i - 1) : ~ Hit(j)
        ELSE Len(cands)

\* The index a draw in 0 .. TotalWeight - 1 selects.
WeightedPickIndex(cands, pick) ==
    LET Hit(i) == Remaining(cands, pick)[i - 1] < cands[i].weight
    IN  IF \E i \in DOMAIN cands : Hit(i)
        THEN CHOOSE i \in DOMAIN cands : Hit(i) /\ \A j \in 1..(i - 1) : ~ Hit(j)
        ELSE Len(cands)

\* What repeated draws without replacement can produce: weights are positive
\* (NewRegistry), so every order.
WeightedOrders(cands) ==
    LET n == Len(cands)
    IN  {[i \in 1..n |-> cands[p[i]]] :
            p \in {f \in [1..n -> 1..n] : IsInjective(f)}}

\* Faulty variant: a route comes up as often as it is configured.
WithAll(queue, cands) ==
    queue \o [j \in DOMAIN cands |-> CircuitKey(cands[j])]

\* The queue and the keys of the first j of cands that it has not seen.
Unseen(queue, cands) ==
    LET kept[j \in 0..Len(cands)] ==
          IF j = 0 THEN queue
          ELSE LET sofar == kept[j - 1]
                   key == CircuitKey(cands[j])
               IN  IF key \in ToSet(sofar) THEN sofar ELSE Append(sofar, key)
    IN  kept

WithUnseen(queue, cands) == Unseen(queue, cands)[Len(cands)]

\* The queue after i models whose candidates are ordered as o says.
Queued(o) ==
    LET queue[i \in 0..Len(o)] ==
          IF i = 0 THEN <<>> ELSE WithUnseen(queue[i - 1], o[i])
    IN  queue

\* The queues buildRouteQueue can return, as circuit keys.
RouteQueues(cfg, m) ==
    LET chain == ResolveModelChain(cfg, m)
        orders == [i \in DOMAIN chain |-> WeightedOrders(RoutesForModel(cfg, chain[i]))]
    IN  {Queued(o)[Len(o)] :
            o \in {f \in [DOMAIN chain -> UNION {orders[i] : i \in DOMAIN chain}] :
                      \A i \in DOMAIN chain : f[i] \in orders[i]}}
==============================================================================
