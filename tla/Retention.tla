------------------------------ MODULE Retention ------------------------------
(***************************************************************************)
(* Which artifacts an export repository gives up, and whether the one that *)
(* is about to be committed fits.                                          *)
(*                                                                         *)
(* A prune chooses its victims in one transaction, moves their trees away, *)
(* and removes in a second one those that are victims still.  It holds the *)
(* maintenance lock, so no artifact is opened or committed in between; but *)
(* leases end and are renewed, and identities are reserved, all the time.  *)
(* A commit prunes for its candidate, and admits it with its own arithmetic *)
(* in the transaction that writes the row.                                 *)
(*                                                                         *)
(* The trees are in module ArtifactStore, the leases in ArtifactLeases and *)
(* the fences in ReservationFence.                                         *)
(***************************************************************************)
EXTENDS Integers, Sequences, FiniteSets, SequencesExt, Sums

CONSTANTS
    KeptGenerations, KeptStates,  \* artifacts: export generations, prepared states
    Scopes,                       \* identities of generations, scopes of states
    ScopeOf,                      \* of each artifact
    Pinned,                       \* of each generation: the states it contains
    ContentBytes, MetaBytes,      \* of each artifact
    Limits,                       \* RepositoryLimits
    MaxLeased,                    \* bound: artifacts leased at a time
    MaxUndeleted,                 \* bound: bytes that a failed deletion leaves
    NoArtifact

Artifacts == KeptGenerations \cup KeptStates
Identities == {ScopeOf[g] : g \in KeptGenerations}

ASSUME RetentionAssumption ==
    /\ KeptGenerations \cap KeptStates = {}
    /\ NoArtifact \notin Artifacts
    /\ ScopeOf \in [Artifacts -> Scopes]
    /\ \A g \in KeptGenerations, s \in KeptStates : ScopeOf[g] # ScopeOf[s]
    /\ Pinned \in [KeptGenerations -> SUBSET KeptStates]
    /\ ContentBytes \in [Artifacts -> Nat] /\ MetaBytes \in [Artifacts -> Nat]
    /\ Limits \in [{"retained_identities", "retained_generations",
                    "retained_generations_per_identity", "retained_prepared_states",
                    "metadata_bytes", "prepared_state_bytes", "generation_bytes",
                    "repository_bytes"} -> Nat]

VARIABLES
    generations, \* rows of generations, last accessed first
    states,      \* rows of prepared_states, last accessed first
    touched,     \* rows of identities, last touched first
    current,     \* current_instance of each identity and state scope
    leased,      \* artifacts with a row in artifact_leases
    preparing,   \* identities with a row in preparation_reservations
    retiredBytes, \* content_bytes in retired_artifacts
    prune        \* the prune under way: its victims, its candidate

retentionVars == <<generations, states, touched, current, leased, preparing, retiredBytes, prune>>

NoPrune == [pc |-> "none", victims |-> {}, candidate |-> NoArtifact, replaced |-> NoArtifact,
            disturbed |-> FALSE]

RetentionTypeOK ==
    /\ generations \in Seq(KeptGenerations) /\ IsInjective(generations)
    /\ states \in Seq(KeptStates) /\ IsInjective(states)
    /\ touched \in Seq(Identities) /\ IsInjective(touched)
    /\ current \in [Scopes -> Artifacts \cup {NoArtifact}]
    /\ leased \subseteq Artifacts
    /\ preparing \subseteq Identities
    /\ retiredBytes \in Nat
    /\ prune.pc \in {"none", "chosen", "admit"}
    /\ prune.victims \subseteq Artifacts
    /\ {prune.candidate, prune.replaced} \subseteq Artifacts \cup {NoArtifact}

RetentionInit ==
    /\ generations = <<>>
    /\ states = <<>>
    /\ touched = <<>>
    /\ current = [k \in Scopes |-> NoArtifact]
    /\ leased = {}
    /\ preparing = {}
    /\ retiredBytes = 0
    /\ prune = NoPrune

-----------------------------------------------------------------------------
(* _Retained: what is kept so far and the bytes that are left *)

Indexed == ToSet(generations) \cup ToSet(states)
StateBytes(arts) == SumOf(ContentBytes, arts \cap KeptStates)
GenerationBytes(arts) == SumOf(ContentBytes, arts \cap KeptGenerations)

Spend(kept, metadata, stateBytes, generationBytes) ==
    [kept EXCEPT !.metadata = @ - metadata, !.states = @ - stateBytes,
                 !.generations = @ - generationBytes]

Keep(kept, wanted, force) ==
    LET added == wanted \ kept.artifacts
        after == Spend(kept, SumOf(MetaBytes, added), StateBytes(added), GenerationBytes(added))
    IN  IF force \/ (after.metadata >= 0 /\ after.states >= 0 /\ after.generations >= 0)
        THEN [after EXCEPT !.artifacts = @ \cup added]
        ELSE kept

\* A generation is charged together with the states it pins.
KeepGeneration(kept, g, force) ==
    IF g \in kept.artifacts THEN kept ELSE Keep(kept, {g} \cup Pinned[g], force)

KeepArtifact(kept, a, force) ==
    IF a \in KeptGenerations THEN KeepGeneration(kept, a, force) ELSE Keep(kept, {a}, force)

KeepAll(kept, arts) == FoldSet(LAMBDA a, k : KeepArtifact(k, a, TRUE), kept, arts)

\* _make_room: what admission will charge the candidate, and the rows whose
\* bytes it will credit.
ChargeOf(size, candidate, replaced) ==
    size[candidate] - (IF replaced \in Indexed THEN size[replaced] ELSE 0)

\* Mutation of MakeRoom: the row whose bytes are credited is not kept.
MakeRoomOnly(kept, candidate, replaced) ==
    IF candidate = NoArtifact \/ candidate \in Indexed THEN kept
    ELSE LET content == ChargeOf(ContentBytes, candidate, replaced) IN
         Spend(kept, ChargeOf(MetaBytes, candidate, replaced),
               IF candidate \in KeptStates THEN content ELSE 0,
               IF candidate \in KeptGenerations THEN content ELSE 0)

MakeRoom(kept, candidate, replaced) ==
    LET matched == KeepAll(kept, {candidate, replaced} \cap Indexed)
        content == ChargeOf(ContentBytes, candidate, replaced)
    IN  IF candidate = NoArtifact \/ candidate \in Indexed THEN matched
        ELSE Spend(matched, ChargeOf(MetaBytes, candidate, replaced),
                   IF candidate \in KeptStates THEN content ELSE 0,
                   IF candidate \in KeptGenerations THEN content ELSE 0)

\* Leases, and the current generations of leased and of reserved identities.
ProtectedIdentities ==
    {ScopeOf[g] : g \in leased \cap KeptGenerations} \cup (preparing \cap ToSet(touched))
Protected ==
    (leased \cap Indexed)
        \cup ({current[i] : i \in ProtectedIdentities \cap ToSet(touched)} \ {NoArtifact})

KeepIdentity(kept, i) ==
    IF i \in kept.identities \/ Cardinality(kept.identities) >= Limits.retained_identities
    THEN kept
    ELSE LET after == IF current[i] = NoArtifact THEN kept
                      ELSE KeepGeneration(kept, current[i], FALSE)
         IN  IF current[i] = NoArtifact \/ current[i] \in after.artifacts
             THEN [after EXCEPT !.identities = @ \cup {i}] ELSE kept

KeepOlder(kept, g) ==
    LET keptGenerations == kept.artifacts \cap KeptGenerations
    IN  IF \/ ScopeOf[g] \notin kept.identities
           \/ Cardinality(keptGenerations) >= Limits.retained_generations
           \/ Cardinality({h \in keptGenerations : ScopeOf[h] = ScopeOf[g]})
                  >= Limits.retained_generations_per_identity
        THEN kept ELSE KeepGeneration(kept, g, FALSE)

KeepLoose(kept, s) ==
    IF Cardinality(kept.artifacts \cap KeptStates) >= Limits.retained_prepared_states
    THEN kept ELSE Keep(kept, {s}, FALSE)

Retained(candidate, replaced) ==
    LET budget == [metadata |-> Limits.metadata_bytes, states |-> Limits.prepared_state_bytes,
                   generations |-> Limits.generation_bytes, artifacts |-> {},
                   identities |-> ProtectedIdentities]
        forced == KeepAll(MakeRoom(budget, candidate, replaced), Protected)
        recent == FoldLeft(KeepIdentity, forced, touched)
        older  == FoldLeft(KeepOlder, recent, generations)
    IN  FoldLeft(KeepLoose, older, states)

\* retention_candidates
Victims(candidate, replaced) == Indexed \ Retained(candidate, replaced).artifacts

-----------------------------------------------------------------------------
(* prune *)

Unlocked == prune = NoPrune
Without(seq, gone) == FoldLeft(LAMBDA s, x : IF x \in gone THEN s ELSE Append(s, x), <<>>, seq)

\* Mutation of ToFront: what is touched again is listed again.
ToFrontAgain(x, seq) == <<x>> \o seq

ToFront(x, seq) == <<x>> \o Without(seq, {x})

\* An artifact and its identity become the last accessed.
Touch(a) ==
    IF a \in KeptGenerations
    THEN /\ generations' = ToFront(a, generations)
         /\ touched' = ToFront(ScopeOf[a], touched)
         /\ UNCHANGED states
    ELSE states' = ToFront(a, states) /\ UNCHANGED <<generations, touched>>

\* Leases and reservations come and go whoever has the lock (bounds: one change
\* during a prune, one reservation).
ChangeLeases ==
    /\ ~prune.disturbed
    /\ \/ \E a \in leased : leased' = leased \ {a} /\ UNCHANGED preparing
       \/ \E a \in Indexed \ leased :
              /\ ~Unlocked /\ Cardinality(leased) < MaxLeased
              /\ leased' = leased \cup {a} /\ UNCHANGED preparing
       \/ \E i \in Identities :
              /\ preparing' \in {{}, {i}} \ {preparing}
              /\ UNCHANGED leased
    /\ prune' = IF Unlocked THEN prune ELSE [prune EXCEPT !.disturbed = TRUE]
    /\ UNCHANGED <<generations, states, touched, current, retiredBytes>>

\* current and lookup_prepared_states: the artifact is touched and leased.
OpenArtifact(a) ==
    /\ Unlocked
    /\ current[ScopeOf[a]] = a
    /\ Cardinality(leased \cup {a}) <= MaxLeased
    /\ leased' = leased \cup {a}
    /\ Touch(a)
    /\ UNCHANGED <<current, preparing, retiredBytes, prune>>

\* The first transaction; a candidate replaces what is current in its scope.
ChooseVictims(candidate) ==
    /\ Unlocked
    /\ candidate # NoArtifact => Cardinality(leased \cup {candidate}) <= MaxLeased
    /\ candidate \in KeptGenerations =>
           /\ ScopeOf[candidate] \in preparing
           /\ Pinned[candidate] \subseteq leased \cap Indexed
    /\ LET replaced == IF candidate = NoArtifact THEN NoArtifact
                       ELSE current[ScopeOf[candidate]]
       IN  prune' = [pc |-> "chosen", victims |-> Victims(candidate, replaced),
                     candidate |-> candidate, replaced |-> replaced, disturbed |-> FALSE]
    /\ UNCHANGED <<generations, states, touched, current, leased, preparing, retiredBytes>>

\* Mutation of StillVictims: only the generations are looked at again.
StillChosen ==
    prune.victims \ (Retained(prune.candidate, prune.replaced).artifacts \cap KeptGenerations)

\* apply_retention: victims then and now.
StillVictims == prune.victims \cap Victims(prune.candidate, prune.replaced)

\* The rows go; an identity goes with its last generation.  A tree that cannot
\* be deleted stays accounted, and the call ends with its error.
RemoveVictims(deleted) ==
    /\ prune.pc = "chosen"
    /\ \E gone \in {StillVictims} :
           /\ generations' = Without(generations, gone)
           /\ states' = Without(states, gone)
           /\ current' = [k \in Scopes |-> IF current[k] \in gone THEN NoArtifact ELSE current[k]]
           /\ touched' = Without(touched, {i \in Identities :
                              /\ current'[i] = NoArtifact
                              /\ \A g \in ToSet(generations') : ScopeOf[g] # i})
           /\ retiredBytes' = IF deleted THEN retiredBytes
                              ELSE retiredBytes + StateBytes(gone) + GenerationBytes(gone)
           /\ ~deleted => gone # {} /\ retiredBytes' <= MaxUndeleted
           /\ prune' = IF deleted /\ prune.candidate # NoArtifact
                       THEN [prune EXCEPT !.pc = "admit", !.victims = {}] ELSE NoPrune
    /\ UNCHANGED <<leased, preparing>>

\* recover deletes what is retired.
CleanupRetired ==
    /\ Unlocked
    /\ retiredBytes > 0
    /\ retiredBytes' = 0
    /\ UNCHANGED <<generations, states, touched, current, leased, preparing, prune>>

-----------------------------------------------------------------------------
(* admit_artifact, in the transaction of commit_state or commit_generation *)

Credit(size) == IF prune.replaced \in Indexed \ {prune.candidate} THEN size[prune.replaced] ELSE 0
Charge(size) == size[prune.candidate] - Credit(size)

WithinKind ==
    IF prune.candidate \in KeptStates
    THEN StateBytes(Indexed) + Charge(ContentBytes) <= Limits.prepared_state_bytes
    ELSE GenerationBytes(Indexed) + Charge(ContentBytes) <= Limits.generation_bytes
WithinRepository ==
    StateBytes(Indexed) + GenerationBytes(Indexed) + retiredBytes + Charge(ContentBytes)
        <= Limits.repository_bytes
WithinMetadata == SumOf(MetaBytes, Indexed) + Charge(MetaBytes) <= Limits.metadata_bytes

Fits == prune.candidate \in Indexed \/ (WithinKind /\ WithinRepository /\ WithinMetadata)

\* The transaction also needs the fence and the rows of the pinned states.
Admissible ==
    prune.candidate \in KeptGenerations =>
        /\ ScopeOf[prune.candidate] \in preparing
        /\ Pinned[prune.candidate] \subseteq Indexed

Admit ==
    /\ prune.pc = "admit"
    /\ Fits /\ Admissible
    /\ LET c == prune.candidate IN
       /\ Touch(c)
       /\ current' = [current EXCEPT ![ScopeOf[c]] = c]
       /\ leased' = leased \cup {c}
    /\ prune' = NoPrune
    /\ UNCHANGED <<preparing, retiredBytes>>

\* repository_limit_exceeded, a lost fence or a missing state.
Refuse ==
    /\ prune.pc = "admit"
    /\ ~(Fits /\ Admissible)
    /\ prune' = NoPrune
    /\ UNCHANGED <<generations, states, touched, current, leased, preparing, retiredBytes>>

RetentionNext ==
    \/ ChangeLeases
    \/ \E a \in Artifacts : OpenArtifact(a)
    \/ \E c \in Artifacts \cup {NoArtifact} : ChooseVictims(c)
    \/ \E deleted \in BOOLEAN : RemoveVictims(deleted)
    \/ CleanupRetired
    \/ Admit
    \/ Refuse

RetentionSpec == RetentionInit /\ [][RetentionNext]_retentionVars

-----------------------------------------------------------------------------
(* Properties *)

\* The foreign keys hold through every prune and commit: a generation keeps the
\* states it contains, an identity that is listed has a generation or is new,
\* and every pointer is to a row.
RetainedIsClosed ==
    /\ \A g \in Indexed \cap KeptGenerations :
           /\ Pinned[g] \subseteq Indexed
           /\ ScopeOf[g] \in ToSet(touched)
    /\ \A k \in Scopes : current[k] \in Indexed \cup {NoArtifact}

\* Unless leases or reservations changed under it, a prune leaves room for its
\* candidate whenever what is protected, or credited, leaves any
\* (repository.md:297-303; what is retired counts only for repository_bytes).
NeededRows ==
    LET seen == Protected \cup ({prune.candidate, prune.replaced} \cap Indexed)
    IN  seen \cup UNION {Pinned[g] : g \in seen \cap KeptGenerations}
RoomBesideNeeded ==
    /\ SumOf(MetaBytes, NeededRows) + Charge(MetaBytes) <= Limits.metadata_bytes
    /\ StateBytes(NeededRows) + (IF prune.candidate \in KeptStates THEN Charge(ContentBytes) ELSE 0)
           <= Limits.prepared_state_bytes
    /\ GenerationBytes(NeededRows)
           + (IF prune.candidate \in KeptGenerations THEN Charge(ContentBytes) ELSE 0)
           <= Limits.generation_bytes
RoomIsMade ==
    prune.pc = "admit" /\ ~prune.disturbed /\ RoomBesideNeeded =>
        prune.candidate \in Indexed \/ (WithinKind /\ WithinMetadata)

\* A prune makes the room it has to, and only that: what stays needs nothing
\* that went.  repository.md:297-303 promises this for the candidate's size; two
\* other pages deny it, and the code sides with the first (see the next property).
AdmissionMakesRoom == RetainedIsClosed /\ RoomIsMade

\* "The candidate size does not select additional least-recently-used victims"
\* (repository-and-observations.md:150-152): as long as leases and reservations
\* are what they were, the victims of the prune for a candidate that is new in a
\* new scope are those of a prune without one.  So says also
\* manage-repository.md:167-171.  The code has it otherwise (retention.py:292).
SizeSelectsNoVictims ==
    prune.pc = "chosen" /\ ~prune.disturbed /\ prune.replaced = NoArtifact =>
        prune.victims \subseteq Victims(NoArtifact, NoArtifact)

\* The rows of an artifact that is leased, that a leased generation contains,
\* or that is current in a reserved identity are not removed, whenever the lease
\* or the reservation came (repository.md:307-309).
ProtectedRows == Protected \cup UNION {Pinned[g] : g \in Protected \cap KeptGenerations}
ProtectedIsKept == [][ProtectedRows \subseteq ToSet(generations') \cup ToSet(states')]_retentionVars
=============================================================================
