---------------------------- MODULE PinnedArtifacts ----------------------------
(***************************************************************************)
(* What an artifact lease promises: an artifact that some owner has pinned *)
(* is neither evicted nor lost, and only an available artifact is pinned.  *)
(***************************************************************************)
CONSTANTS Owners, Artifacts

VARIABLES
    available,  \* artifacts that can be read
    pins        \* pairs of an owner and the artifact it has open

vars == <<available, pins>>

Init == available = {} /\ pins = {}

Pinned == {pin[2] : pin \in pins}

\* A commit or a recovery makes artifacts available.
Publish ==
    /\ available \subseteq available' /\ available' \subseteq Artifacts
    /\ UNCHANGED pins

\* Retention takes away artifacts that nobody has open.
Evict ==
    /\ available' \subseteq available /\ available \cap Pinned \subseteq available'
    /\ UNCHANGED pins

Pin ==
    /\ pins \subseteq pins' /\ pins' \ pins \subseteq Owners \X available
    /\ UNCHANGED available

\* Handles are closed, or their lease expires or its owner dies.
Unpin ==
    /\ pins' \subseteq pins
    /\ UNCHANGED available

Next == Publish \/ Evict \/ Pin \/ Unpin

Spec == Init /\ [][Next]_vars
=============================================================================
