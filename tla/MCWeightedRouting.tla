-------------------------- MODULE MCWeightedRouting --------------------------
(* WeightedRouting with a prefix rule that sends every name to one provider. *)
EXTENDS WeightedRouting

MCDetectProvider == [m \in Models |-> CHOOSE p \in Providers : TRUE]
===============================================================================
