--------------------------- MODULE MCMissedEvidence ---------------------------
(* Two producers with two vectors, one retained place and one plan. *)
EXTENDS ObservationHistory, TLC

CONSTANTS p1, p2, v1, v2, x1

TwoProducers == {p1, p2}
TwoValues == {v1, v2}
OnePlan == {x1}
One == {1}
OneByte == [v \in Values |-> 1]
OneHandle == {[observation_bytes |-> 1, observations_per_producer |-> 1,
               observation_relation_bytes |-> 1]}

Symmetry == Permutations(Producers) \cup Permutations(Values) \cup Permutations(Plans)
=============================================================================
