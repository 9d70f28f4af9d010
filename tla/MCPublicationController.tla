----------------------- MODULE MCPublicationController -----------------------
(* An application with one key, or with two keys of one group at two routes. *)
EXTENDS PublicationController, TLC

CONSTANTS k1, k2, g1, r1, r2, i1, i2

OneKey == {k1}
TwoKeys == {k1, k2}
MCGroups == {g1}
MCRoutes == {r1, r2}
OneInstance == {i1}
TwoInstances == {i1, i2}

MCGroup == [k \in Keys |-> g1]
MCRoute == [k \in Keys |-> IF k = k2 THEN r2 ELSE r1]

Symmetry == Permutations(Instances)
=============================================================================
