------------------------ MODULE MCReservationFence ------------------------
(* Two repositories preparing the same identity. *)
EXTENDS ReservationFence, TLC

CONSTANTS o1, o2, i1, v1

MCOwners == {o1, o2}
OneIdentity == {i1}
OneInstance == {v1}
NoInstance == {}

Symmetry == Permutations(Owners) \cup Permutations(Instances)
=============================================================================
