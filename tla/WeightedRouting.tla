--------------------------- MODULE WeightedRouting ---------------------------
(***************************************************************************)
(* The draws of weightedOrder for one request, over every small            *)
(* configuration: pool holds the candidates not yet ordered.               *)
(***************************************************************************)
EXTENDS Routing

CONSTANTS Providers, Weights, MaxEntries

ASSUME WeightsAssumption == Weights \subseteq Int /\ MaxEntries \in Nat

VARIABLES cfg, model, pool, ordered

drawn == <<cfg, model, pool, ordered>>

Entry == [name : Models, provider : Providers \cup {NoName}, weight : Weights,
          fallback : Models \cup {NoName}, isActive : BOOLEAN]

DrawInit == /\ cfg \in UNION {[1..n -> Entry] : n \in 0..MaxEntries}
            /\ model \in Models
            /\ pool = RoutesForModel(cfg, model)
            /\ ordered = <<>>

Draw(pick) == LET i == WeightedPickIndex(pool, pick)
              IN  /\ ordered' = Append(ordered, pool[i])
                  /\ pool' = RemoveAt(pool, i)
                  /\ UNCHANGED <<cfg, model>>

DrawNext == /\ pool # <<>>
            /\ \E pick \in 0..(TotalWeight(pool) - 1) : Draw(pick)

DrawSpec == DrawInit /\ [][DrawNext]_drawn
-------------------------------------------------------------------------------
\* weightedPickIndex gives each candidate as many draws as its weight, and so
\* none of them is left out (docs/SPEC.md weighted routing), at every stage of
\* the draws without replacement.
PickProportional == \A i \in DOMAIN pool :
    /\ pool[i].weight > 0
    /\ pool[i].weight
         = Cardinality({pick \in 0..(TotalWeight(pool) - 1) :
                            WeightedPickIndex(pool, pick) = i})

\* buildRouteQueue: every queue is non-empty, tries no breaker twice, holds the
\* routes of the requested model and of every fallback of it, cyclic or not,
\* and none of a fallback before all those of the models it replaces.
QueueComplete == ordered = <<>> =>
    \A queue \in RouteQueues(cfg, model) :
        LET Reach == {m \in Models : \E i \in DOMAIN queue : queue[i][2] = m}
            First(m) == CHOOSE i \in DOMAIN queue :
                            queue[i][2] = m /\ \A j \in 1..(i - 1) : queue[j][2] # m
        IN  /\ queue # <<>> /\ queue[1][2] = model /\ IsInjective(queue)
            /\ \A m \in Reach :
                 LET next == ModelFallback(cfg, m)
                 IN  /\ {CircuitKey(c) : c \in ToSet(RoutesForModel(cfg, m))}
                          \subseteq ToSet(queue)
                     /\ next # NoName => next \in Reach
                     /\ First(m) > 1 => ModelFallback(cfg, queue[First(m) - 1][2]) = m

\* ensureCircuit writes its map only for a model without an active entry: when
\* every model a request can reach is configured, NewRegistry has created all
\* the breakers it meets.
ConfiguredNeverCreates == ordered = <<>> =>
    \A queue \in RouteQueues(cfg, model) :
        (\A i \in DOMAIN queue : Entries(cfg, queue[i][2]) # <<>>)
            => ToSet(queue) \subseteq InitialCircuits(cfg)
===============================================================================
