------------------------- MODULE MCArtifactLeases -------------------------
(* Two repositories over one artifact. *)
EXTENDS ArtifactLeases, TLC

CONSTANTS o1, o2, a1

MCOwners == {o1, o2}
OneOwner == {o1}
OneArtifact == {a1}

Symmetry == Permutations(Owners) \cup Permutations(Artifacts)
=============================================================================
