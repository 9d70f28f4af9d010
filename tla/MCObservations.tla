---------------------------- MODULE MCObservations ----------------------------
(* The queue of observations and the tables they end in, which share no state:  *)
(* a behaviour is one of either.  In the tables, two producers compete for one   *)
(* place while a plan is in use, and two handles record: one keeps two rows in   *)
(* three bytes, one has a byte limit that the second vector does not fit.  In the *)
(* queue, the second of two vectors fills three bytes with another one.          *)
EXTENDS ObservationLedger, ObservationHistory, TLC

CONSTANTS p1, p2, v1, v2, x1, q1, q2, w1, w2, s1, r1, f1

TwoProducers == {p1, p2}
TwoValues == {v1, v2}
OnePlan == {x1}
One == {1}
OneOrTwo == {1, 2}
QueueTwoProducers == {q1, q2}
TwoVectors == {w1, w2}
OneScope == {s1}
OneRecorder == {r1}
OneFlusher == {f1}
SecondOversized == {w2}
MCSize == [v \in Vectors |-> IF v = w2 THEN 2 ELSE 1]

Handle(vector, rows, bytes) ==
    [observation_bytes |-> vector, observations_per_producer |-> rows,
     observation_relation_bytes |-> bytes]
SecondLarger == [v \in Values |-> IF v = v2 THEN 2 ELSE 1]
TwoHandles == {Handle(2, 2, 3), Handle(2, 2, 1)}

Symmetry == Permutations(Producers)

VARIABLE part

ObservationsInit == part \in {"queue", "tables"} /\ LedgerInit /\ Init
ObservationsNext ==
    /\ UNCHANGED part
    /\ \/ part = "queue" /\ LedgerNext /\ UNCHANGED vars
       \/ part = "tables" /\ Next /\ UNCHANGED ledgerVars
ObservationsSpec == ObservationsInit /\ [][ObservationsNext]_<<part, ledgerVars, vars>>

\* The types of both parts.
ObservationsTypeOK == LedgerTypeOK /\ TypeOK
=============================================================================
