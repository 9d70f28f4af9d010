------------------------- MODULE ObservationHistory --------------------------
(***************************************************************************)
(* The observation tables of the catalog (_repository/sqlite/observations) *)
(* together with what else decides about them: ledgers and applications    *)
(* that record, plans that capture a revision, the preparations of these   *)
(* plans, and the retention that removes producers.  Processes share the   *)
(* catalog, and each step is one of its transactions.                      *)
(***************************************************************************)
EXTENDS Integers, Sequences, FiniteSets, SequencesExt, Sums

CONSTANTS
    Producers,          \* producer identities
    Values,             \* fingerprints of observed input vectors
    Plans,              \* plans in use, with the preparation and export of each
    None,
    Occurrences,        \* how many occurrences one write may stand for
    ByteCount,          \* byte_count of the canonical form of each vector
    Limits,             \* RepositoryLimits of the handles that record
    RetainedProducers,  \* retained_producers
    Corruptible,        \* bound: orders of the rows that may be damaged
    MaxRevision         \* MAX_SQLITE_INTEGER

ASSUME HistoryAssumption ==
    /\ None \notin Producers \cup Values
    /\ Occurrences \subseteq Nat \ {0}
    /\ ByteCount \in [Values -> Nat \ {0}]
    /\ Limits \subseteq [observation_bytes : Nat \ {0}, observations_per_producer : Nat \ {0},
                        observation_relation_bytes : Nat \ {0}]
    /\ RetainedProducers \in Nat \ {0}
    /\ Corruptible \subseteq Nat
    /\ MaxRevision \in Nat

VARIABLES
    touched,       \* the rows of producers, in the order of touched_at_us
    revision,      \* observation_revision
    observations,  \* one row for each vector
    events,        \* observation_events: one row for each occurrence that was written
    plan,          \* how far each plan has come
    evidence,      \* history: something was recorded since the plan was made, and
                   \* has not been removed with its producer
    pruned,        \* history: the producer was removed before the plan used it
    disturbed      \* history: since a record last fitted the byte limit, one did not and
                   \* found rows that do not either, or corrupt rows were removed

vars == <<touched, revision, observations, events, plan, evidence, pruned, disturbed>>
tables == <<touched, revision, observations, events, disturbed>>
history == <<evidence, pruned>>

Revisions == 0..MaxRevision
Row == [order : Revisions \ {0}, value : Values]
NoPlan == [pc |-> "idle", producer |-> None, captured |-> 0]

TypeOK ==
    /\ touched \in Seq(Producers) /\ IsInjective(touched)
    /\ revision \in [Producers -> Revisions]
    /\ observations \in [Producers -> SUBSET Row]
    /\ events \in [Producers -> SUBSET Row]
    /\ plan \in [Plans -> [pc : {"idle", "planned", "prepared", "published", "kept"},
                           producer : Producers \cup {None}, captured : Revisions]]
    /\ evidence \in [Plans -> BOOLEAN]
    /\ pruned \in [Plans -> BOOLEAN]
    /\ disturbed \in [Producers -> BOOLEAN]

Init ==
    /\ touched = <<>>
    /\ revision = [p \in Producers |-> 0]
    /\ observations = [p \in Producers |-> {}]
    /\ events = [p \in Producers |-> {}]
    /\ plan = [x \in Plans |-> NoPlan]
    /\ evidence = [x \in Plans |-> FALSE]
    /\ pruned = [x \in Plans |-> FALSE]
    /\ disturbed = [p \in Producers |-> FALSE]

-----------------------------------------------------------------------------
(* Shared definitions *)

Touch(p) == touched' = Append(SelectSeq(touched, LAMBDA q : q # p), p)

NewRow(v, order) == [order |-> order, value |-> v]

\* Mutation of Upsert: a vector that is known keeps its order.
UpsertKeepsOrder(rows, v, order) ==
    IF \E r \in rows : r.value = v THEN rows ELSE rows \cup {NewRow(v, order)}

Upsert(rows, v, order) == {r \in rows : r.value # v} \cup {NewRow(v, order)}

Newer(rows, r) == {q \in rows : q.order > r.order}
RowBytes(rows) == SumOf([r \in rows |-> ByteCount[r.value]], rows)
FitsBytes(v, limits) == ByteCount[v] <= limits.observation_relation_bytes

\* _prune_observation_table: from the newest row on, a row stays if it is one of
\* the first and fits beside the newer rows that stay.
StaysAfterPrune(rows, kept, limits) ==
    \A r \in rows :
        r \in kept <=> /\ Cardinality(Newer(rows, r)) < limits.observations_per_producer
                      /\ RowBytes(Newer(kept, r)) + ByteCount[r.value]
                             <= limits.observation_relation_bytes

\* Artifacts of the producer are in the repository, or are leased.
Holding(p, pcs) == \E x \in Plans : plan[x].producer = p /\ plan[x].pc \in pcs
Used(p) == Holding(p, {"prepared", "published", "kept"})
Leased(p) == Holding(p, {"prepared", "published"})

Evidence(p) ==
    evidence' = [x \in Plans |-> evidence[x] \/ (plan[x].producer = p /\ plan[x].pc # "idle")]

-----------------------------------------------------------------------------
(* Observations *)

\* Rows that a handle with a larger byte limit left.
Disturbing(p, limits) == \E r \in observations[p] \cup events[p] : ~FitsBytes(r.value, limits)

\* One handle records: the vector is written to both tables, and each is pruned
\* by the limits of this handle, which the catalog does not keep.
Record(p, v, n, limits) ==
    /\ ByteCount[v] <= limits.observation_bytes
    /\ revision[p] + n <= MaxRevision
    /\ Touch(p)
    /\ revision' = [revision EXCEPT ![p] = @ + n]
    /\ \E kept \in SUBSET Upsert(observations[p], v, revision[p] + n) :
          /\ StaysAfterPrune(Upsert(observations[p], v, revision[p] + n), kept, limits)
          /\ observations' = [observations EXCEPT ![p] = kept]
    /\ \E kept \in SUBSET (events[p] \cup {NewRow(v, revision[p] + n)}) :
          /\ StaysAfterPrune(events[p] \cup {NewRow(v, revision[p] + n)}, kept, limits)
          /\ events' = [events EXCEPT ![p] = kept]
    /\ disturbed' = [disturbed EXCEPT ![p] = ~FitsBytes(v, limits) /\ (@ \/ Disturbing(p, limits))]
    /\ Evidence(p)
    /\ UNCHANGED <<plan, pruned>>

Advance(p, n) ==
    /\ revision[p] + n <= MaxRevision
    /\ Touch(p)
    /\ revision' = [revision EXCEPT ![p] = @ + n]
    /\ Evidence(p)
    /\ UNCHANGED <<observations, events, plan, pruned, disturbed>>

\* Mutation of Clear: the revision starts over.
ClearRevision(p) ==
    /\ revision' = [revision EXCEPT ![p] = 0]
    /\ observations' = [observations EXCEPT ![p] = {}]
    /\ events' = [events EXCEPT ![p] = {}]
    /\ disturbed' = [disturbed EXCEPT ![p] = FALSE]
    /\ UNCHANGED <<touched, plan, history>>

Clear(p) ==
    /\ observations' = [observations EXCEPT ![p] = {}]
    /\ events' = [events EXCEPT ![p] = {}]
    /\ disturbed' = [disturbed EXCEPT ![p] = FALSE]
    /\ UNCHANGED <<touched, revision, plan, history>>

CorruptIn(table) == {r \in table : r.order \in Corruptible}

\* Reading removes the rows that fail validation (_validated_rows): from either
\* table, and with a row of observations the events that have its order or its
\* vector.  What damages a row is outside the program.
RemoveCorrupt(p, rows, gone) ==
    /\ rows \cup gone # {}
    /\ observations' = [observations EXCEPT ![p] = @ \ rows]
    /\ events' = [events EXCEPT ![p] =
           {e \in @ \ gone : \A r \in rows : e.order # r.order /\ e.value # r.value}]
    /\ disturbed' = [disturbed EXCEPT ![p] = TRUE]
    /\ UNCHANGED <<touched, revision, plan, history>>

-----------------------------------------------------------------------------
(* Plans *)

\* The plan captures the revision of its producer (plan_export.py:174).
Capture(x, p) ==
    /\ plan[x].pc = "idle"
    /\ plan' = [plan EXCEPT ![x] = [pc |-> "planned", producer |-> p, captured |-> revision[p]]]
    /\ evidence' = [evidence EXCEPT ![x] = FALSE]
    /\ pruned' = [pruned EXCEPT ![x] = FALSE]
    /\ UNCHANGED tables

\* The preparation commits the states of the plan, and holds their leases.
CommitStates(x) ==
    /\ plan[x].pc = "planned"
    /\ plan' = [plan EXCEPT ![x].pc = "prepared"]
    /\ Touch(plan[x].producer)
    /\ UNCHANGED <<revision, observations, events, disturbed, history>>

CapturedKnown(x) == plan[x].captured <= revision[plan[x].producer]

\* It commits the generation, if the captured revision exists (generations.py:91).
CommitGeneration(x) ==
    /\ plan[x].pc = "prepared"
    /\ CapturedKnown(x)
    /\ plan' = [plan EXCEPT ![x].pc = "published"]
    /\ Touch(plan[x].producer)
    /\ UNCHANGED <<revision, observations, events, disturbed, history>>

\* The plan is dropped, its preparation fails, or its export is closed: the
\* artifacts that it has stay without leases.
Release(x) ==
    /\ plan[x].pc \in {"planned", "prepared", "published"}
    /\ plan' = [plan EXCEPT ![x] = IF @.pc = "planned" THEN NoPlan ELSE [@ EXCEPT !.pc = "kept"]]
    /\ UNCHANGED <<tables, history>>

-----------------------------------------------------------------------------
(* Retention *)

TouchedBefore(p, q) ==
    \E m, n \in 1..Len(touched) : m < n /\ touched[m] = p /\ touched[n] = q

Room == RetainedProducers - Cardinality({p \in Producers : Leased(p)})
OldestOf(rows) ==
    {p \in rows : Cardinality({q \in rows : TouchedBefore(p, q)}) >= Room}

\* Mutation of Forgotten: only leased producers are kept.
ForgottenUnleased(xs) == OldestOf({p \in ToSet(touched) : ~Leased(p)})

\* Producers that _prune_producers removes once the artifacts of the plans xs
\* are gone: leased producers count, and the most recently touched ones of
\* those without any artifact fill what is left.
Forgotten(xs) ==
    OldestOf({p \in ToSet(touched) :
                  \A x \in Plans \ xs : plan[x].producer = p => plan[x].pc = "planned"})

\* apply_retention (or a pass without victims): artifacts that no one leases,
\* then producers, whose observations go with them.
Retain(xs) ==
    /\ \A x \in xs : plan[x].pc = "kept"
    /\ LET gone == Forgotten(xs)
       IN  /\ touched' = SelectSeq(touched, LAMBDA p : p \notin gone)
           /\ revision' = [p \in Producers |-> IF p \in gone THEN 0 ELSE revision[p]]
           /\ observations' = [p \in Producers |->
                  IF p \in gone THEN {} ELSE observations[p]]
           /\ events' = [p \in Producers |-> IF p \in gone THEN {} ELSE events[p]]
           /\ evidence' = [x \in Plans |-> evidence[x] /\ plan[x].producer \notin gone]
           /\ pruned' = [x \in Plans |-> pruned[x] \/ plan[x].producer \in gone]
           /\ disturbed' = [p \in Producers |-> disturbed[p] /\ p \notin gone]
    /\ plan' = [x \in Plans |-> IF x \in xs THEN NoPlan ELSE plan[x]]

-----------------------------------------------------------------------------
Next ==
    \/ \E p \in Producers, v \in Values, n \in Occurrences, limits \in Limits :
          Record(p, v, n, limits)
    \/ \E p \in Producers, n \in Occurrences : Advance(p, n)
    \/ \E p \in Producers : Clear(p)
    \/ \E p \in Producers :
          \E rows \in SUBSET CorruptIn(observations[p]), gone \in SUBSET CorruptIn(events[p]) :
              RemoveCorrupt(p, rows, gone)
    \/ \E x \in Plans, p \in Producers : Capture(x, p)
    \/ \E x \in Plans : CommitStates(x) \/ CommitGeneration(x) \/ Release(x)
    \/ \E xs \in SUBSET Plans : Retain(xs)

Spec == Init /\ [][Next]_vars

-----------------------------------------------------------------------------
(* Properties *)

\* An order names one vector in both tables, and none is ahead of the revision
\* (the primary key of observation_events, _validate_row).
OrdersNameOneVector ==
    \A p \in Producers : \A r, q \in observations[p] \cup events[p] :
        r.order <= revision[p] /\ (r.order = q.order => r = q)

\* A vector has one row, and no event of the vector is newer.
RowsAreCurrent ==
    \A p \in Producers : \A r \in observations[p], q \in observations[p] \cup events[p] :
        q.value = r.value => q.order <= r.order

Newest(rows) == {r \in rows : \A q \in rows : q.order <= r.order}

\* Both say the same of the newest vector, or neither has any.
NewestAgree == \A p \in Producers : ~disturbed[p] => Newest(observations[p]) = Newest(events[p])

\* The two tables are written and pruned one after the other, by handles with
\* different limits, and agree on what was observed last: "a bounded event
\* history used to resolve the latest vector" (repository.md:170-171).  They may
\* part only while nothing that was recorded fits the byte limit beside rows
\* that a larger limit had let in, or after corrupt rows were removed.
TablesAgree == OrdersNameOneVector /\ RowsAreCurrent /\ NewestAgree

\* While the repository has artifacts of a producer, nothing takes the revision
\* of the producer back, whatever is pruned around it.
RevisionKeptInUse ==
    [][\A p \in Producers : Used(p) /\ Used(p)' => revision'[p] >= revision[p]]_vars

Detects(x) == evidence[x] <=> revision[plan[x].producer] > plan[x].captured

\* An application compares the revision with the one its publication captured
\* (guide/prepared-publications.md:164): it is larger exactly when something
\* was observed since, unless the producer was removed before its first commit.
EvidenceDetected == \A x \in Plans : plan[x].pc = "published" /\ ~pruned[x] => Detects(x)

\* The same without the exception: "The monotonically increasing repository
\* revision for a producer's observations.  Hosts can use it to detect new
\* authoring evidence." (terminology.md:40)
EvidenceAlwaysDetected == \A x \in Plans : plan[x].pc = "published" => Detects(x)
=============================================================================
