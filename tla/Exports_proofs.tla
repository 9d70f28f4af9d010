------------------------------ MODULE Exports_proofs ------------------------------
(***************************************************************************)
(* Proofs about an export from its preparation to its replacement.  First  *)
(* the calls that turn a notebook and a spec into an export                *)
(* (PrepareExport), for any number of calls, states and versions; then the *)
(* controller that publishes exports and replaces them                     *)
(* (PublicationController), for any number of keys, groups, routes,        *)
(* prepared exports and works.                                             *)
(***************************************************************************)
EXTENDS PublicationController, PrepareExport, Sums_proofs

-----------------------------------------------------------------------------
(* The export of a build: an inductive invariant *)

PrepareKinds == {"file", "session", "plan", "plan_session"}
PreparePcs ==
    {"idle", "inspect", "current", "reserve", "reserved", "match", "exact", "open", "plan",
     "states", "missing", "capturing", "guard", "commit", "install",
     "returned", "closed", "failed"}
PrepareFailures ==
    {"none", "spec_budget", "cancelled", "raised", "changed", "budget", "mismatch", "fence"}
Relations == [Aliases -> Values]
Exports == [producer : Versions, relation : Relations, versions : SUBSET Versions]
PreparedStates == [producer : Versions, value : Values, version : Versions, by : PrepareCalls]

\* The type of each field of a call.
CallTypes ==
    [kind |-> PrepareKinds, pc |-> PreparePcs, repository |-> {"none", "open", "closed"},
     producer |-> Versions \cup {0}, opened |-> Versions \cup {0},
     relation |-> Relations \cup {<<>>}, reusable |-> SUBSET Values,
     captured |-> SUBSET Values, leased |-> SUBSET Values, target |-> Values \cup {0},
     artifact |-> SUBSET Exports, prior |-> SUBSET Exports, reused |-> BOOLEAN,
     cancelled |-> BOOLEAN, failure |-> PrepareFailures, loose |-> SUBSET Values,
     seen |-> SUBSET Versions]
CallFields ==
    {"kind", "pc", "repository", "producer", "opened", "relation", "reusable", "captured",
     "leased", "target", "artifact", "prior", "reused", "cancelled", "failure", "loose", "seen"}

IsCall(C) ==
    /\ DOMAIN C = CallFields
    /\ \A f \in CallFields : C[f] \in CallTypes[f]

NotebookTypes ==
    [saved : Versions, live : Versions, ui : Values, limit : IndexLimits,
     edits : 0..MaxNotebookEdits, troubles : 0..MaxCallTroubles]
SharedTypes ==
    [states : SUBSET PreparedStates, exports : SUBSET Exports,
     holder : [Versions -> PrepareCalls \cup {NoCall}]]

\* An export of one version that fits a limit.
SoundExport(e, limit) ==
    /\ e \in Exports
    /\ e.versions = {e.producer}
    /\ IndexBytes(e.relation) <= limit

RepositoryIsSound ==
    /\ \A s \in shared.states : s.version = s.producer
    /\ \A e \in shared.exports : SoundExport(e, notebook.limit)
    /\ \A e, f \in shared.exports : e.producer = f.producer => e = f

\* Where a call is: with the states it has leased, under way, with a reservation.
WithStates == {"missing", "capturing", "guard", "commit", "install"}
UnderWay == {"inspect", "current", "reserve", "reserved", "match", "exact", "open", "plan",
             "states"} \cup WithStates
MayHold == {"reserved", "match", "exact", "open", "plan", "states"} \cup WithStates
HasSeen == {"exact", "plan", "states"} \cup WithStates
LiveKinds == {"session", "plan_session"}
PlanKinds == {"plan", "plan_session"}

IsPrepared(C, S, v) == \E s \in S.states : s.producer = C.producer /\ s.value = v
IsCapturedBy(c, C, S, v) ==
    \E s \in S.states : s.producer = C.producer /\ s.value = v /\ s.by = c

\* A call on its way: what it reserved, and what it knows of the notebook.
CallAdvances(c, C, N, S) ==
    /\ C.pc \in UnderWay \cup {"returned", "closed"} => C.producer \in Versions
    /\ \A v \in Versions : S.holder[v] = c => C.pc \in MayHold /\ C.kind \notin PlanKinds
    /\ C.kind \in PlanKinds => C.pc \notin {"reserve", "reserved", "states"} \cup WithStates
    /\ C.kind \in LiveKinds => C.pc \notin {"current", "open", "plan"}
    /\ C.kind \notin LiveKinds => C.pc \notin {"inspect", "match"}
    /\ C.seen # {} => (IF C.kind \in LiveKinds THEN N.live ELSE N.saved) \in C.seen
    /\ C.pc \in HasSeen => C.seen # {}
    /\ C.pc = "install" => C.producer \in C.seen
    /\ C.pc = "returned" /\ C.kind \notin PlanKinds => C.producer \in C.seen
    /\ C.pc \in {"match", "exact", "reserve", "reserved"} /\ C.kind \in LiveKinds =>
         C.producer \in C.seen
    /\ C.pc \in UnderWay => C.repository = "open"
    /\ C.pc = "returned" =>
         C.repository = IF C.kind \in PlanKinds THEN RepositoryAfter(c) ELSE "open"
    /\ C.pc \in {"failed", "closed"} => C.repository = RepositoryAfter(c)

\* The states a call has: leased, captured, and about to be.
CallHasStates(c, C, N, S) ==
    /\ C.pc \notin WithStates => C.leased = {}
    /\ C.pc \in ({"idle"} \cup UnderWay) \ WithStates => C.captured = {}
    /\ C.pc \in {"match", "states"} \cup WithStates => C.relation \in Relations
    /\ C.pc = "exact" /\ C.kind \in LiveKinds => C.relation \in Relations
    /\ C.pc \in WithStates =>
         /\ C.leased \subseteq Fingerprints(C.relation)
         /\ \A v \in C.leased : IsPrepared(C, S, v)
         /\ C.captured \subseteq C.leased
         /\ \A v \in C.captured : IsCapturedBy(c, C, S, v)
    /\ C.pc \in {"capturing", "guard", "commit"} => C.target \in Fingerprints(C.relation)
    /\ C.pc \in {"guard", "commit"} => C.opened = C.producer
    /\ C.pc = "install" =>
         Fingerprints(C.relation) \subseteq C.leased
    /\ C.pc \in {"missing", "install"} /\ Fingerprints(C.relation) \subseteq C.leased =>
         IndexBytes(C.relation) <= N.limit

\* The export a call has.
CallHasExport(c, C, N, S) ==
    /\ C.pc \notin {"exact", "returned"} => C.artifact = {}
    /\ C.pc = "returned" /\ C.kind \in PlanKinds => C.artifact = {}
    /\ C.pc = "exact" \/ (C.pc = "returned" /\ C.kind \notin PlanKinds) =>
         \E e \in C.artifact :
            /\ C.artifact = {e} /\ SoundExport(e, N.limit) /\ e.producer = C.producer
            /\ C.pc = "returned" \/ C.kind \in LiveKinds => e.relation = C.relation
    /\ C.pc = "returned" /\ C.kind \notin PlanKinds =>
         /\ C.captured \cup C.reusable = Fingerprints(C.relation)
         /\ C.captured \cap C.reusable = {}
         /\ \A v \in C.captured : IsCapturedBy(c, C, S, v)

\* Why a call failed, and what its frame holds.
CallFailed(C, N) ==
    /\ C.pc # "failed" => C.failure = "none"
    /\ C.loose # {} => C.failure = "raised"
    /\ C.failure = "spec_budget" => \A v \in Values : IndexBytes(Relation(v)) > N.limit

CallInv(c, C, N, S) ==
    /\ IsCall(C)
    /\ CallAdvances(c, C, N, S)
    /\ CallHasStates(c, C, N, S)
    /\ CallHasExport(c, C, N, S)
    /\ CallFailed(C, N)

PrepareInv ==
    /\ notebook \in NotebookTypes
    /\ shared \in SharedTypes
    /\ RepositoryIsSound
    /\ DOMAIN calls = PrepareCalls
    /\ \A c \in PrepareCalls : CallInv(c, calls[c], notebook, shared)

\* What the fields of a call are after a step that changes some.
LEMMA ChangedCall ==
    ASSUME NEW C, IsCall(C), NEW F
    PROVE  /\ \A f \in CallFields : Changed(C, F)[f] = IF f \in DOMAIN F THEN F[f] ELSE C[f]
           /\ (\A f \in CallFields \cap DOMAIN F : F[f] \in CallTypes[f]) => IsCall(Changed(C, F))
<1>1. \A f \in CallFields : Changed(C, F)[f] = IF f \in DOMAIN F THEN F[f] ELSE C[f]
  BY DEF IsCall, Changed
<1>2. DOMAIN Changed(C, F) = CallFields
  BY DEF IsCall, Changed
<1> QED
  BY <1>1, <1>2 DEF IsCall

\* A call of its type, field by field.
LEMMA CallFieldTypes ==
    ASSUME NEW C, IsCall(C)
    PROVE  /\ C.kind \in PrepareKinds /\ C.pc \in PreparePcs
           /\ C.producer \in Versions \cup {0} /\ C.opened \in Versions \cup {0}
           /\ C.relation \in Relations \cup {<<>>} /\ C.reusable \subseteq Values
           /\ C.captured \subseteq Values /\ C.leased \subseteq Values
           /\ C.target \in Values \cup {0} /\ C.artifact \subseteq Exports
           /\ C.prior \subseteq Exports /\ C.failure \in PrepareFailures
           /\ C.loose \subseteq Values /\ C.seen \subseteq Versions
           /\ C.repository \in {"none", "open", "closed"}
BY DEF IsCall, CallTypes, CallFields

\* A call at rest is not disturbed by what others do.
LEMMA CallRests ==
    ASSUME NEW c \in PrepareCalls, NEW C, NEW N, NEW S, NEW N2, NEW S2, CallInv(c, C, N, S),
           N2.limit = N.limit, N2.saved = N.saved, N2.live = N.live,
           S.states \subseteq S2.states,
           \A v \in Versions : S2.holder[v] = c => S.holder[v] = c
    PROVE  CallInv(c, C, N2, S2)
<1>1. CallAdvances(c, C, N2, S2)
  BY DEF CallInv, CallAdvances
<1>2. CallHasStates(c, C, N2, S2)
  BY DEF CallInv, CallHasStates, IsPrepared, IsCapturedBy
<1>3. CallHasExport(c, C, N2, S2)
  BY DEF CallInv, CallHasExport, IsCapturedBy
<1> QED
  BY <1>1, <1>2, <1>3 DEF CallInv, CallFailed

LEMMA FailedIsSound ==
    ASSUME NEW c \in PrepareCalls, NEW C, NEW N, NEW S, NEW N2, NEW S2, CallInv(c, C, N, S),
           N2.limit = N.limit, N2.saved = N.saved, N2.live = N.live,
           \A v \in Versions : S2.holder[v] # c,
           NEW why \in PrepareFailures, NEW loose \in SUBSET Values, NEW held,
           loose # {} => why = "raised",
           why = "spec_budget" => \A v \in Values : IndexBytes(Relation(v)) > N.limit
    PROVE  CallInv(c, Changed(C, Failed(c, why, loose, held)), N2, S2)
<1> DEFINE F == Failed(c, why, loose, held)
           D == Changed(C, F)
<1>1. F = [pc |-> "failed", failure |-> why, loose |-> loose, leased |-> {},
           artifact |-> {}, repository |-> RepositoryAfter(c)]
  BY DEF Failed, ArtifactAfterFailure
<1>2. IsCall(C)
  BY DEF CallInv
<1>3. RepositoryAfter(c) \in {"open", "closed"}
  BY DEF RepositoryAfter
<1>4. \A f \in CallFields \cap DOMAIN F : F[f] \in CallTypes[f]
  BY <1>1, <1>3 DEF CallTypes, CallFields, PreparePcs
<1> HIDE DEF F
<1>5. IsCall(D) /\ \A f \in CallFields : D[f] = IF f \in DOMAIN F THEN F[f] ELSE C[f]
  BY <1>2, <1>4, ChangedCall
<1> HIDE DEF D
<1>6. /\ D.kind = C.kind /\ D.pc = "failed" /\ D.seen = C.seen /\ D.leased = {}
      /\ D.artifact = {} /\ D.loose = loose /\ D.failure = why
      /\ D.repository = RepositoryAfter(c)
  BY <1>1, <1>5 DEF CallFields
<1>7. CallAdvances(c, D, N2, S2)
  BY <1>6
  DEF CallInv, CallAdvances, UnderWay, WithStates, MayHold, HasSeen, LiveKinds, PlanKinds
<1>8. CallHasStates(c, D, N2, S2)
  BY <1>6 DEF CallHasStates, UnderWay, WithStates
<1>9. CallHasExport(c, D, N2, S2)
  BY <1>6 DEF CallHasExport
<1>10. CallFailed(D, N2)
  BY <1>6 DEF CallFailed
<1> QED
  BY <1>5, <1>7, <1>8, <1>9, <1>10 DEF CallInv, D, F

\* Closing a reservation: what a call held nobody holds.
LEMMA ReleasedFacts ==
    ASSUME shared \in SharedTypes, NEW c \in PrepareCalls
    PROVE  /\ Released(c) \in SharedTypes
           /\ Released(c).states = shared.states /\ Released(c).exports = shared.exports
           /\ \A v \in Versions : Released(c).holder[v] # c
           /\ \A v \in Versions, d \in PrepareCalls :
                Released(c).holder[v] = d => shared.holder[v] = d
<1> DEFINE h == [v \in Versions |-> IF shared.holder[v] = c THEN NoCall ELSE shared.holder[v]]
<1>1. Released(c) = [shared EXCEPT !.holder = h]
  BY DEF Released
<1>2. NoCall \notin PrepareCalls
  BY PrepareAssumption DEF PrepareAssumption
<1>3. h \in [Versions -> PrepareCalls \cup {NoCall}]
  BY DEF SharedTypes
<1>4. \A v \in Versions : h[v] # c /\ \A d \in PrepareCalls : h[v] = d => shared.holder[v] = d
  BY <1>2
<1> HIDE DEF h
<1>5. Released(c) = [states |-> shared.states, exports |-> shared.exports, holder |-> h]
  BY <1>1 DEF SharedTypes
<1> QED
  BY <1>3, <1>4, <1>5 DEF SharedTypes

\* One call moves on; the others rest.
LEMMA CallMoves ==
    ASSUME PrepareInv, NEW c \in PrepareCalls, NEW F, Update(c, F),
           notebook' \in NotebookTypes, notebook'.limit = notebook.limit,
           notebook'.saved = notebook.saved, notebook'.live = notebook.live,
           shared' \in SharedTypes, RepositoryIsSound',
           shared.states \subseteq shared'.states,
           \A d \in PrepareCalls : d # c =>
               \A v \in Versions : shared'.holder[v] = d => shared.holder[v] = d,
           CallInv(c, Changed(calls[c], F), notebook', shared')
    PROVE  PrepareInv'
<1>1. DOMAIN calls = PrepareCalls /\ calls' = [calls EXCEPT ![c] = Changed(calls[c], F)]
  BY DEF PrepareInv, Update
<1>2. DOMAIN calls' = PrepareCalls
  BY <1>1
<1>3. ASSUME NEW d \in PrepareCalls PROVE CallInv(d, calls'[d], notebook', shared')
  <2>1. CASE d = c
    BY <1>1, <2>1
  <2>2. CASE d # c
    <3>1. calls'[d] = calls[d] /\ CallInv(d, calls[d], notebook, shared)
      BY <1>1, <2>2 DEF PrepareInv
    <3>2. CallInv(d, calls[d], notebook', shared')
      BY <2>2, <3>1, CallRests
    <3> QED
      BY <3>1, <3>2
  <2> QED
    BY <2>1, <2>2
<1> QED
  BY <1>2, <1>3 DEF PrepareInv

\* The same for a step that changes nothing else.
LEMMA CallStepMoves ==
    ASSUME PrepareInv, NEW c \in PrepareCalls, NEW F, CallStep(c, F),
           CallInv(c, Changed(calls[c], F), notebook, shared)
    PROVE  PrepareInv'
<1>1. Update(c, F) /\ notebook' = notebook /\ shared' = shared
  BY DEF CallStep
<1>2. notebook \in NotebookTypes /\ shared \in SharedTypes /\ RepositoryIsSound
  BY DEF PrepareInv
<1>3. RepositoryIsSound'
  BY <1>1, <1>2 DEF RepositoryIsSound, SoundExport
<1> QED
  BY <1>1, <1>2, <1>3, CallMoves

\* A trouble is counted, and nothing else of the notebook changes.
LEMMA TroubleFacts ==
    ASSUME notebook \in NotebookTypes, Trouble(notebook')
    PROVE  /\ notebook' \in NotebookTypes /\ notebook'.limit = notebook.limit
           /\ notebook'.saved = notebook.saved /\ notebook'.live = notebook.live
<1>1. /\ notebook' = [notebook EXCEPT !.troubles = notebook.troubles + 1]
      /\ notebook.troubles < MaxCallTroubles
  BY DEF Trouble
<1>2. MaxCallTroubles \in Nat
  BY PrepareAssumption DEF PrepareAssumption
<1>3. notebook.troubles + 1 \in 0..MaxCallTroubles
  BY <1>1, <1>2 DEF NotebookTypes
<1> QED
  BY <1>1, <1>3 DEF NotebookTypes

\* The repository stays sound while its states and exports do.
LEMMA RepositoryStaysSound ==
    ASSUME RepositoryIsSound, notebook'.limit = notebook.limit,
           shared'.states = shared.states, shared'.exports = shared.exports
    PROVE  RepositoryIsSound'
<1>1. \A e : SoundExport(e, notebook.limit) => SoundExport(e, notebook.limit)'
  BY DEF SoundExport, IndexBytes, Fingerprints
<1> QED
  BY <1>1 DEF RepositoryIsSound

\* A call fails: it gives up what it holds.
LEMMA CallFails ==
    ASSUME PrepareInv, NEW c \in PrepareCalls,
           NEW why \in PrepareFailures, NEW loose \in SUBSET Values, NEW held,
           loose # {} => why = "raised",
           why = "spec_budget" => \A v \in Values : IndexBytes(Relation(v)) > notebook.limit,
           Update(c, Failed(c, why, loose, held)), shared' = Released(c),
           Trouble(notebook') \/ notebook' = notebook
    PROVE  PrepareInv'
<1> DEFINE F == Failed(c, why, loose, held)
<1>1. notebook \in NotebookTypes /\ shared \in SharedTypes /\ RepositoryIsSound
      /\ CallInv(c, calls[c], notebook, shared)
  BY DEF PrepareInv
<1>2. /\ notebook' \in NotebookTypes /\ notebook'.limit = notebook.limit
      /\ notebook'.saved = notebook.saved /\ notebook'.live = notebook.live
  BY <1>1, TroubleFacts
<1>3. /\ shared' \in SharedTypes
      /\ shared'.states = shared.states /\ shared'.exports = shared.exports
      /\ \A v \in Versions : shared'.holder[v] # c
      /\ \A v \in Versions, d \in PrepareCalls : shared'.holder[v] = d => shared.holder[v] = d
  BY <1>1, ReleasedFacts
<1>4. RepositoryIsSound'
  BY <1>1, <1>2, <1>3, RepositoryStaysSound
<1>5. CallInv(c, Changed(calls[c], F), notebook', shared')
  BY <1>1, <1>2, <1>3, FailedIsSound
<1> QED
  BY <1>2, <1>3, <1>4, <1>5, CallMoves

LEMMA CallRefused ==
    ASSUME PrepareInv, NEW c \in PrepareCalls,
           NEW why \in PrepareFailures \ {"spec_budget"}, RefuseCall(c, why)
    PROVE  PrepareInv'
BY CallFails DEF RefuseCall

LEMMA CallRaises ==
    ASSUME PrepareInv, NEW c \in PrepareCalls, NEW loose \in SUBSET Values, Raise(c, loose)
    PROVE  PrepareInv'
<1>1. "raised" \in PrepareFailures /\ "raised" # "spec_budget"
  BY DEF PrepareFailures
<1> QED
  BY <1>1, CallFails DEF Raise

-----------------------------------------------------------------------------
(* The index budget *)

\* An authored row and a baseline give every alias a value.
LEMMA RelationTypes ==
    ASSUME NEW v \in Values
    PROVE  Relation(v) \in Relations
BY PrepareAssumption DEF PrepareAssumption, Relation, Relations, Omitted

\* The states of a relation.
LEMMA FingerprintFacts ==
    ASSUME NEW r \in Relations
    PROVE  /\ Fingerprints(r) \subseteq Values /\ Fingerprints(r) # {}
           /\ IsFiniteSet(Fingerprints(r))
<1>1. IsFiniteSet(Aliases) /\ Aliases # {}
  BY PrepareAssumption DEF PrepareAssumption
<1>2. r \in Surjection(Aliases, Fingerprints(r))
  BY DEF Surjection, Fingerprints, Relations
<1>3. IsFiniteSet(Fingerprints(r))
  BY <1>1, <1>2, FS_Surjection
<1> QED
  BY <1>1, <1>3 DEF Fingerprints, Relations

LEMMA SizeFacts ==
    ASSUME NEW r \in Relations
    PROVE  /\ \A v \in Fingerprints(r) : EntryBytes[v] \in Nat /\ EntryBytes[v] >= LeastEntry
           /\ LeastEntry \in Nat
           /\ IndexBytes(r) \in Nat
<1>1. \A v \in Fingerprints(r) : EntryBytes[v] \in Nat /\ EntryBytes[v] >= LeastEntry
  BY FingerprintFacts, PrepareAssumption DEF PrepareAssumption
<1> QED
  BY <1>1, FingerprintFacts, SumNat, PrepareAssumption DEF IndexBytes, PrepareAssumption

\* What a spec counts as states is never more than a plan of it has.
LEMMA SpecEntriesBound ==
    ASSUME NEW v \in Values
    PROVE  SpecEntries \in Nat /\ SpecEntries <= Cardinality(Fingerprints(Relation(v)))
<1> DEFINE named == {a \in Aliases : Rows[a] # Omitted}
           values == {Rows[a] : a \in named}
           sizes == {Cardinality(values)} \cup (IF named = Aliases THEN {} ELSE {1})
           prints == Fingerprints(Relation(v))
<1>1. SpecEntries = Max(sizes)
  BY DEF SpecEntries
<1>2. IsFiniteSet(prints) /\ prints # {} /\ prints \subseteq Values
  BY RelationTypes, FingerprintFacts
<1>3. values \subseteq prints
  BY DEF Fingerprints, Relation
<1>4. Cardinality(values) \in Nat /\ Cardinality(values) <= Cardinality(prints)
  BY <1>2, <1>3, FS_Subset, FS_CardinalityType
<1>5. Cardinality(prints) \in Nat /\ 1 <= Cardinality(prints)
  <2>1. Cardinality(prints) \in Nat /\ Cardinality(prints) # 0
    BY <1>2, FS_CardinalityType, FS_EmptySet
  <2> QED
    BY <2>1
<1> HIDE DEF prints, values, named
<1>6. \A n \in sizes : n \in Nat /\ n <= Cardinality(prints)
  BY <1>4, <1>5
<1>7. \E m \in sizes : \A n \in sizes : m >= n
  BY <1>4
<1>8. Max(sizes) \in sizes
  <2> HIDE DEF sizes
  <2> QED
    BY <1>7 DEF Max
<1> QED
  BY <1>1, <1>6, <1>8 DEF prints

LEMMA SpecRefusalIsRight ==
    ASSUME notebook.limit \in Nat, ~IndexFits(SpecEntries * LeastEntry)
    PROVE  \A v \in Values : IndexBytes(Relation(v)) > notebook.limit
<1> SUFFICES ASSUME NEW v \in Values PROVE IndexBytes(Relation(v)) > notebook.limit
  OBVIOUS
<1> DEFINE r == Relation(v)
<1>1. r \in Relations
  BY RelationTypes
<1>2. SpecEntries \in Nat /\ SpecEntries <= Cardinality(Fingerprints(r))
  BY SpecEntriesBound
<1> HIDE DEF r
<1>3. /\ \A x \in Fingerprints(r) : EntryBytes[x] \in Nat /\ EntryBytes[x] >= LeastEntry
      /\ LeastEntry \in Nat /\ IndexBytes(r) \in Nat
  BY <1>1, SizeFacts
<1>4. SpecEntries * LeastEntry <= IndexBytes(r)
  <2>1. IsFiniteSet(Fingerprints(r))
    BY <1>1, FingerprintFacts
  <2> QED
    BY <1>2, <1>3, <2>1, SumAtLeast DEF IndexBytes
<1>5. SpecEntries * LeastEntry \in Nat
  BY <1>2, <1>3
<1>6. ~(SpecEntries * LeastEntry <= notebook.limit)
  BY DEF IndexFits
<1> DEFINE p == SpecEntries * LeastEntry
<1> HIDE DEF p
<1>7. p \in Nat /\ p <= IndexBytes(r) /\ ~(p <= notebook.limit)
  BY <1>4, <1>5, <1>6 DEF p
<1>8. IndexBytes(r) > notebook.limit
  BY <1>3, <1>7
<1> QED
  BY <1>8 DEF r

\* Once every state of a relation is measured the projection is its size.
LEMMA MeasuredIsExact ==
    ASSUME NEW r \in Relations, NEW measured, Fingerprints(r) \subseteq measured
    PROVE  Projected(Fingerprints(r), measured) = IndexBytes(r)
<1> DEFINE D == Fingerprints(r)
           g == [v \in D |-> IF v \in measured THEN EntryBytes[v] ELSE LeastEntry]
<1>1. IsFiniteSet(D)
  BY FingerprintFacts
<1>2. \A v \in D : EntryBytes[v] \in Nat /\ g[v] = EntryBytes[v]
  BY SizeFacts
<1> HIDE DEF g
<1>3. SumOf(g, D) = SumOf(EntryBytes, D)
  BY <1>1, <1>2, SumAgrees
<1> QED
  BY <1>3 DEF g, Projected, IndexBytes

-----------------------------------------------------------------------------
(* Steps of a call that change the call only *)

\* The parts of the invariant for a call, and what its fields are after a step.
LEMMA CallFacts ==
    ASSUME PrepareInv, NEW c \in PrepareCalls
    PROVE  /\ notebook \in NotebookTypes /\ shared \in SharedTypes /\ RepositoryIsSound
           /\ IsCall(calls[c])
           /\ CallAdvances(c, calls[c], notebook, shared)
           /\ CallHasStates(c, calls[c], notebook, shared)
           /\ CallHasExport(c, calls[c], notebook, shared)
           /\ CallFailed(calls[c], notebook)
           /\ notebook.limit \in Nat
BY PrepareAssumption DEF PrepareInv, CallInv, NotebookTypes, PrepareAssumption

\* A call begins: its spec may be refused before anything is opened.
LEMMA BeginKeeps ==
    ASSUME PrepareInv, NEW c \in PrepareCalls, Begin(c)
    PROVE  PrepareInv'
<1> DEFINE C == calls[c]
           F == [pc |-> IF IsLive(c) THEN "inspect" ELSE "current",
                 producer |-> notebook.saved, repository |-> "open"]
           D == Changed(C, F)
<1>1. /\ IsCall(C) /\ notebook \in NotebookTypes /\ CallAdvances(c, C, notebook, shared)
      /\ CallHasStates(c, C, notebook, shared) /\ CallHasExport(c, C, notebook, shared)
      /\ CallFailed(C, notebook) /\ notebook.limit \in Nat
  BY CallFacts
<1>2. C.pc = "idle"
  BY DEF Begin, CallAt
<1>3. CASE ~IndexFits(SpecEntries * LeastEntry) /\ RefuseCall(c, "spec_budget")
  <2>1. \A v \in Values : IndexBytes(Relation(v)) > notebook.limit
    BY <1>1, <1>3, SpecRefusalIsRight
  <2>2. "spec_budget" \in PrepareFailures /\ {} \in SUBSET Values
    BY DEF PrepareFailures
  <2> QED
    BY <1>3, <2>1, <2>2, CallFails DEF RefuseCall
<1>4. CASE RefuseCall(c, "cancelled")
  BY <1>4, CallRefused DEF PrepareFailures
<1>5. CASE CallStep(c, F)
  <2>1. \A f \in CallFields \cap DOMAIN F : F[f] \in CallTypes[f]
    BY <1>1 DEF CallTypes, CallFields, PreparePcs, NotebookTypes
  <2>2. IsCall(D) /\ \A f \in CallFields : D[f] = IF f \in DOMAIN F THEN F[f] ELSE C[f]
    BY <1>1, <2>1, ChangedCall
  <2> HIDE DEF D
  <2>3. /\ D.kind = C.kind /\ D.pc \in {"inspect", "current"} /\ D.producer \in Versions
        /\ D.pc = (IF C.kind \in LiveKinds THEN "inspect" ELSE "current")
        /\ D.repository = "open" /\ D.captured = C.captured /\ D.leased = C.leased
        /\ D.artifact = C.artifact /\ D.failure = C.failure /\ D.loose = C.loose
        /\ D.seen = C.seen
    BY <1>1, <2>2 DEF CallFields, NotebookTypes, IsLive, LiveKinds
  <2>4. CallAdvances(c, D, notebook, shared)
    BY <1>1, <1>2, <2>3
    DEF CallAdvances, UnderWay, WithStates, MayHold, HasSeen, LiveKinds, PlanKinds
  <2>5. CallHasStates(c, D, notebook, shared)
    BY <1>1, <1>2, <2>3 DEF CallHasStates, UnderWay, WithStates
  <2>6. CallHasExport(c, D, notebook, shared)
    BY <1>1, <1>2, <2>3 DEF CallHasExport
  <2>7. CallFailed(D, notebook)
    BY <1>1, <1>2, <2>3 DEF CallFailed
  <2>8. CallInv(c, Changed(C, F), notebook, shared)
    BY <2>2, <2>4, <2>5, <2>6, <2>7 DEF CallInv, D
  <2> QED
    BY <1>5, <2>8, CallStepMoves
<1> QED
  BY <1>3, <1>4, <1>5 DEF Begin

\* What a live plan puts into a call.
LEMMA LivePlanFacts ==
    ASSUME notebook \in NotebookTypes, NEW pc \in PreparePcs
    PROVE  /\ DOMAIN LivePlan(pc) = {"pc", "producer", "relation", "seen", "reusable"}
           /\ LivePlan(pc).pc = pc /\ LivePlan(pc).producer = notebook.live
           /\ LivePlan(pc).relation \in Relations /\ LivePlan(pc).seen = {notebook.live}
           /\ LivePlan(pc).reusable \subseteq Values
           /\ \A f \in CallFields \cap DOMAIN LivePlan(pc) : LivePlan(pc)[f] \in CallTypes[f]
<1>1. notebook.ui \in Values /\ notebook.live \in Versions
  BY DEF NotebookTypes
<1>2. Relation(notebook.ui) \in Relations /\ Fingerprints(Relation(notebook.ui)) \subseteq Values
  BY <1>1, RelationTypes, FingerprintFacts
<1>3. Reusable(notebook.live, Fingerprints(Relation(notebook.ui))) \subseteq Values
  BY <1>2 DEF Reusable
<1>4. /\ DOMAIN LivePlan(pc) = {"pc", "producer", "relation", "seen", "reusable"}
      /\ LivePlan(pc).pc = pc /\ LivePlan(pc).producer = notebook.live
      /\ LivePlan(pc).relation \in Relations /\ LivePlan(pc).seen = {notebook.live}
      /\ LivePlan(pc).reusable \subseteq Values
  BY <1>2, <1>3 DEF LivePlan
<1> QED
  BY <1>1, <1>4 DEF CallTypes, CallFields

\* A live call is planned before it reserves.
LEMMA InspectKeeps ==
    ASSUME PrepareInv, NEW c \in PrepareCalls, Inspect(c)
    PROVE  PrepareInv'
<1> DEFINE C == calls[c]
<1>1. /\ IsCall(C) /\ notebook \in NotebookTypes /\ CallAdvances(c, C, notebook, shared)
      /\ CallHasStates(c, C, notebook, shared) /\ CallHasExport(c, C, notebook, shared)
      /\ CallFailed(C, notebook) /\ notebook.limit \in Nat
      /\ shared \in SharedTypes /\ RepositoryIsSound
  BY CallFacts
<1>2. C.pc = "inspect" /\ C.kind \in LiveKinds /\ C.kind \in PrepareKinds
  BY <1>1, CallFieldTypes DEF Inspect, CallAt, CallAdvances, PrepareKinds, LiveKinds
<1>3. CASE Raise(c, {})
  BY <1>3, CallRaises
<1>4. CASE RefuseCall(c, "changed")
  BY <1>4, CallRefused DEF PrepareFailures
<1>5. CASE RefuseCall(c, "budget")
  BY <1>5, CallRefused DEF PrepareFailures
<1>6. CASE CallStep(c, LivePlan(IF Plans(c) THEN "match" ELSE "reserve"))
  <2> DEFINE F == LivePlan(IF Plans(c) THEN "match" ELSE "reserve")
             D == Changed(C, F)
  <2>1. \A f \in CallFields \cap DOMAIN F : F[f] \in CallTypes[f]
    BY <1>1, LivePlanFacts DEF PreparePcs
  <2>2. IsCall(D) /\ \A f \in CallFields : D[f] = IF f \in DOMAIN F THEN F[f] ELSE C[f]
    BY <1>1, <2>1, ChangedCall
  <2> HIDE DEF D
  <2>3. /\ D.kind = C.kind /\ D.pc = (IF C.kind \in PlanKinds THEN "match" ELSE "reserve")
        /\ D.producer = notebook.live
        /\ D.relation \in Relations /\ D.seen = {notebook.live}
        /\ D.repository = C.repository /\ D.captured = C.captured /\ D.leased = C.leased
        /\ D.artifact = C.artifact /\ D.failure = C.failure /\ D.loose = C.loose
        /\ notebook.live \in Versions
    BY <1>1, <2>2, LivePlanFacts DEF CallFields, NotebookTypes, PreparePcs, Plans, PlanKinds
  <2>4. CallAdvances(c, D, notebook, shared)
    BY <1>1, <1>2, <2>3
    DEF CallAdvances, UnderWay, WithStates, MayHold, HasSeen, LiveKinds, PlanKinds
  <2>5. CallHasStates(c, D, notebook, shared)
    BY <1>1, <1>2, <2>3 DEF CallHasStates, UnderWay, WithStates, LiveKinds
  <2>6. CallHasExport(c, D, notebook, shared)
    BY <1>1, <1>2, <2>3 DEF CallHasExport
  <2>7. CallFailed(D, notebook)
    BY <1>1, <1>2, <2>3 DEF CallFailed
  <2>8. CallInv(c, Changed(C, F), notebook, shared)
    BY <2>2, <2>4, <2>5, <2>6, <2>7 DEF CallInv, D
  <2> QED
    BY <1>6, <2>8, CallStepMoves
<1> QED
  BY <1>3, <1>4, <1>5, <1>6 DEF Inspect

\* It is planned again under its reservation.
LEMMA ReplanKeeps ==
    ASSUME PrepareInv, NEW c \in PrepareCalls, ReplanSession(c)
    PROVE  PrepareInv'
<1> DEFINE C == calls[c]
<1>1. /\ IsCall(C) /\ notebook \in NotebookTypes /\ CallAdvances(c, C, notebook, shared)
      /\ CallHasStates(c, C, notebook, shared) /\ CallHasExport(c, C, notebook, shared)
      /\ CallFailed(C, notebook) /\ notebook.limit \in Nat
      /\ shared \in SharedTypes /\ RepositoryIsSound
  BY CallFacts
<1>2. C.pc = "reserved" /\ C.kind \in LiveKinds /\ C.kind \notin PlanKinds
  BY <1>1 DEF ReplanSession, CallAt, CallAdvances, IsLive, LiveKinds
<1>3. CASE RefuseCall(c, "cancelled") \/ RefuseCall(c, "changed") \/ RefuseCall(c, "budget")
  BY <1>3, CallRefused DEF PrepareFailures
<1>4. CASE CallStep(c, LivePlan("match"))
  <2> DEFINE F == LivePlan("match")
             D == Changed(C, F)
  <2>1. \A f \in CallFields \cap DOMAIN F : F[f] \in CallTypes[f]
    BY <1>1, LivePlanFacts DEF PreparePcs
  <2>2. IsCall(D) /\ \A f \in CallFields : D[f] = IF f \in DOMAIN F THEN F[f] ELSE C[f]
    BY <1>1, <2>1, ChangedCall
  <2> HIDE DEF D
  <2>3. /\ D.kind = C.kind /\ D.pc = "match" /\ D.producer = notebook.live
        /\ D.relation \in Relations /\ D.seen = {notebook.live}
        /\ D.repository = C.repository /\ D.captured = C.captured /\ D.leased = C.leased
        /\ D.artifact = C.artifact /\ D.failure = C.failure /\ D.loose = C.loose
        /\ notebook.live \in Versions
    BY <1>1, <2>2, LivePlanFacts DEF CallFields, NotebookTypes, PreparePcs
  <2>4. CallAdvances(c, D, notebook, shared)
    BY <1>1, <1>2, <2>3
    DEF CallAdvances, UnderWay, WithStates, MayHold, HasSeen, LiveKinds, PlanKinds
  <2>5. CallHasStates(c, D, notebook, shared)
    BY <1>1, <1>2, <2>3 DEF CallHasStates, UnderWay, WithStates, LiveKinds
  <2>6. CallHasExport(c, D, notebook, shared)
    BY <1>1, <1>2, <2>3 DEF CallHasExport
  <2>7. CallFailed(D, notebook)
    BY <1>1, <1>2, <2>3 DEF CallFailed
  <2>8. CallInv(c, Changed(C, F), notebook, shared)
    BY <2>2, <2>4, <2>5, <2>6, <2>7 DEF CallInv, D
  <2> QED
    BY <1>4, <2>8, CallStepMoves
<1> QED
  BY <1>3, <1>4 DEF ReplanSession

\* The current export of an identity is one sound export, or none.
LEMMA CurrentExportFacts ==
    ASSUME RepositoryIsSound, shared \in SharedTypes, NEW p
    PROVE  /\ CurrentExport(p) \subseteq Exports
           /\ CurrentExport(p) # {} =>
                \E e \in CurrentExport(p) : /\ CurrentExport(p) = {e} /\ e.producer = p
                                            /\ SoundExport(e, notebook.limit)
BY DEF RepositoryIsSound, CurrentExport, SharedTypes

\* A file call looks for the export of its identity, before and under the reservation.
LEMMA LookUpKeeps ==
    ASSUME PrepareInv, NEW c \in PrepareCalls, LookUpExport(c), ~IsLive(c),
           CallAt(c, "current") \/ CallAt(c, "reserved")
    PROVE  PrepareInv'
<1> DEFINE C == calls[c]
<1>1. /\ IsCall(C) /\ notebook \in NotebookTypes /\ CallAdvances(c, C, notebook, shared)
      /\ CallHasStates(c, C, notebook, shared) /\ CallHasExport(c, C, notebook, shared)
      /\ CallFailed(C, notebook) /\ notebook.limit \in Nat
      /\ shared \in SharedTypes /\ RepositoryIsSound
  BY CallFacts
<1>2. C.pc \in {"current", "reserved"} /\ C.kind \notin LiveKinds
  BY <1>1 DEF CallAt, CallAdvances, LiveKinds, IsLive
<1> DEFINE exact == CurrentExport(C.producer)
           other == IF Plans(c) \/ CallAt(c, "reserved") THEN "open" ELSE "reserve"
<1>3. CASE exact = {} /\ CallStep(c, [pc |-> other])
  <2> DEFINE F == [pc |-> other]
             D == Changed(C, F)
  <2>1. \A f \in CallFields \cap DOMAIN F : F[f] \in CallTypes[f]
    BY DEF CallTypes, CallFields, PreparePcs
  <2>2. IsCall(D) /\ \A f \in CallFields : D[f] = IF f \in DOMAIN F THEN F[f] ELSE C[f]
    BY <1>1, <2>1, ChangedCall
  <2> HIDE DEF D
  <2>3. /\ D.kind = C.kind /\ D.producer = C.producer /\ D.repository = C.repository
        /\ D.pc = IF C.kind \in PlanKinds \/ C.pc = "reserved" THEN "open" ELSE "reserve"
        /\ D.captured = C.captured /\ D.leased = C.leased /\ D.artifact = C.artifact
        /\ D.failure = C.failure /\ D.loose = C.loose /\ D.seen = C.seen
    BY <2>2 DEF CallFields, Plans, PlanKinds, CallAt
  <2>4. CallAdvances(c, D, notebook, shared)
    BY <1>1, <1>2, <2>3
    DEF CallAdvances, UnderWay, WithStates, MayHold, HasSeen, LiveKinds, PlanKinds
  <2>5. CallHasStates(c, D, notebook, shared)
    BY <1>1, <1>2, <2>3 DEF CallHasStates, UnderWay, WithStates, LiveKinds
  <2>6. CallHasExport(c, D, notebook, shared)
    BY <1>1, <1>2, <2>3 DEF CallHasExport
  <2>7. CallFailed(D, notebook)
    BY <1>1, <1>2, <2>3 DEF CallFailed
  <2>8. CallInv(c, Changed(C, F), notebook, shared)
    BY <2>2, <2>4, <2>5, <2>6, <2>7 DEF CallInv, D
  <2> QED
    BY <1>3, <2>8, CallStepMoves
<1>4. CASE /\ exact # {}
           /\ CallStep(c, [pc |-> "exact", artifact |-> exact, seen |-> {notebook.saved}])
  <2>1. /\ exact \subseteq Exports
        /\ \E e \in exact : /\ exact = {e} /\ e.producer = C.producer
                             /\ SoundExport(e, notebook.limit)
    BY <1>1, <1>4, CurrentExportFacts
  <2> HIDE DEF exact
  <2> DEFINE F == [pc |-> "exact", artifact |-> exact, seen |-> {notebook.saved}]
             D == Changed(C, F)
  <2>2. \A f \in CallFields \cap DOMAIN F : F[f] \in CallTypes[f]
    BY <1>1, <2>1 DEF CallTypes, CallFields, PreparePcs, NotebookTypes
  <2>3. IsCall(D) /\ \A f \in CallFields : D[f] = IF f \in DOMAIN F THEN F[f] ELSE C[f]
    BY <1>1, <2>2, ChangedCall
  <2> HIDE DEF D
  <2>4. /\ D.kind = C.kind /\ D.producer = C.producer /\ D.repository = C.repository
        /\ D.pc = "exact" /\ D.artifact = exact /\ D.seen = {notebook.saved}
        /\ D.captured = C.captured /\ D.leased = C.leased
        /\ D.failure = C.failure /\ D.loose = C.loose
    BY <2>3 DEF CallFields
  <2>5. CallAdvances(c, D, notebook, shared)
    BY <1>1, <1>2, <2>4
    DEF CallAdvances, UnderWay, WithStates, MayHold, HasSeen, LiveKinds, PlanKinds
  <2>6. CallHasStates(c, D, notebook, shared)
    BY <1>1, <1>2, <2>4 DEF CallHasStates, UnderWay, WithStates, LiveKinds
  <2>7. CallHasExport(c, D, notebook, shared)
    BY <1>1, <1>2, <2>4, <2>1 DEF CallHasExport, LiveKinds
  <2>8. CallFailed(D, notebook)
    BY <1>1, <1>2, <2>4 DEF CallFailed
  <2>9. CallInv(c, Changed(C, F), notebook, shared)
    BY <2>3, <2>5, <2>6, <2>7, <2>8 DEF CallInv, D
  <2> QED
    BY <1>4, <2>9, CallStepMoves
<1> QED
  BY <1>3, <1>4 DEF LookUpExport

LEMMA RecheckKeeps ==
    ASSUME PrepareInv, NEW c \in PrepareCalls, RecheckFile(c)
    PROVE  PrepareInv'
<1>1. CASE RefuseCall(c, "cancelled")
  BY <1>1, CallRefused DEF PrepareFailures
<1> QED
  BY <1>1, LookUpKeeps DEF RecheckFile

LEMMA CurrentKeeps ==
    ASSUME PrepareInv, NEW c \in PrepareCalls, Current(c)
    PROVE  PrepareInv'
<1>1. calls[c].pc = "current" /\ CallAdvances(c, calls[c], notebook, shared)
  BY CallFacts DEF Current, CallAt
<1>2. ~IsLive(c)
  BY <1>1 DEF CallAdvances, LiveKinds, IsLive
<1> QED
  BY <1>2, LookUpKeeps DEF Current

\* A live call takes an export of the relation it planned, or plans its states.
LEMMA MatchKeeps ==
    ASSUME PrepareInv, NEW c \in PrepareCalls, MatchSession(c)
    PROVE  PrepareInv'
<1> DEFINE C == calls[c]
<1>1. /\ IsCall(C) /\ notebook \in NotebookTypes /\ CallAdvances(c, C, notebook, shared)
      /\ CallHasStates(c, C, notebook, shared) /\ CallHasExport(c, C, notebook, shared)
      /\ CallFailed(C, notebook) /\ notebook.limit \in Nat
      /\ shared \in SharedTypes /\ RepositoryIsSound
  BY CallFacts
<1>2. C.pc = "match" /\ C.kind \in LiveKinds
  BY <1>1, CallFieldTypes DEF MatchSession, CallAt, CallAdvances, PrepareKinds, LiveKinds
<1> DEFINE exact == CurrentExport(C.producer)
           same == {e \in exact : ArtifactMatches(e, C.relation)}
<1>3. /\ exact \subseteq Exports
      /\ same # {} => \E e \in same : /\ same = {e} /\ e.producer = C.producer
                                      /\ SoundExport(e, notebook.limit) /\ e.relation = C.relation
  <2> DEFINE p == C.producer
  <2>1. /\ CurrentExport(p) \subseteq Exports
        /\ CurrentExport(p) # {} =>
             \E e \in CurrentExport(p) : /\ CurrentExport(p) = {e} /\ e.producer = p
                                         /\ SoundExport(e, notebook.limit)
    BY <1>1, CurrentExportFacts
  <2> QED
    BY <2>1 DEF ArtifactMatches
<1>4. CASE Raise(c, {})
  BY <1>4, CallRaises
<1>5. CASE Plans(c) /\ CallStep(c, [pc |-> "returned", reused |-> same # {},
                                   repository |-> RepositoryAfter(c)])
  <2> DEFINE taken == same # {}
  <2>1. taken \in BOOLEAN
    OBVIOUS
  <2> HIDE DEF same, taken
  <2> DEFINE F == [pc |-> "returned", reused |-> taken, repository |-> RepositoryAfter(c)]
             D == Changed(C, F)
  <2>2. \A f \in CallFields \cap DOMAIN F : F[f] \in CallTypes[f]
    BY <2>1 DEF CallTypes, CallFields, PreparePcs, RepositoryAfter
  <2>3. IsCall(D) /\ \A f \in CallFields : D[f] = IF f \in DOMAIN F THEN F[f] ELSE C[f]
    BY <1>1, <2>2, ChangedCall
  <2> HIDE DEF D
  <2>4. /\ D.kind = C.kind /\ D.producer = C.producer /\ D.repository = RepositoryAfter(c)
        /\ D.pc = "returned" /\ D.kind \in PlanKinds
        /\ D.leased = C.leased /\ D.artifact = C.artifact /\ D.seen = C.seen
        /\ D.failure = C.failure /\ D.loose = C.loose
    BY <1>5, <2>3 DEF CallFields, Plans, PlanKinds
  <2>5. CallAdvances(c, D, notebook, shared)
    BY <1>1, <1>2, <2>4
    DEF CallAdvances, UnderWay, WithStates, MayHold, HasSeen, LiveKinds, PlanKinds
  <2>6. CallHasStates(c, D, notebook, shared)
    BY <1>1, <1>2, <2>4 DEF CallHasStates, UnderWay, WithStates, LiveKinds
  <2>7. CallHasExport(c, D, notebook, shared)
    BY <1>1, <1>2, <2>4 DEF CallHasExport
  <2>8. CallFailed(D, notebook)
    BY <1>1, <1>2, <2>4 DEF CallFailed
  <2>9. CallInv(c, Changed(C, F), notebook, shared)
    BY <2>3, <2>5, <2>6, <2>7, <2>8 DEF CallInv, D
  <2> QED
    BY <1>5, <2>9, CallStepMoves DEF taken
<1>6. CASE ~Plans(c) /\ same # {} /\ CallStep(c, [pc |-> "exact", artifact |-> same])
  <2>1. \E e \in same : /\ same = {e} /\ e.producer = C.producer
                        /\ SoundExport(e, notebook.limit) /\ e.relation = C.relation
    BY <1>3, <1>6
  <2> HIDE DEF same
  <2> DEFINE F == [pc |-> "exact", artifact |-> same]
             D == Changed(C, F)
  <2>2. \A f \in CallFields \cap DOMAIN F : F[f] \in CallTypes[f]
    BY <1>3, <2>1 DEF CallTypes, CallFields, PreparePcs, SoundExport
  <2>3. IsCall(D) /\ \A f \in CallFields : D[f] = IF f \in DOMAIN F THEN F[f] ELSE C[f]
    BY <1>1, <2>2, ChangedCall
  <2> HIDE DEF D
  <2>4. /\ D.kind = C.kind /\ D.producer = C.producer /\ D.repository = C.repository
        /\ D.pc = "exact" /\ D.artifact = same /\ D.seen = C.seen /\ D.relation = C.relation
        /\ D.captured = C.captured /\ D.leased = C.leased
        /\ D.failure = C.failure /\ D.loose = C.loose
    BY <2>3 DEF CallFields
  <2>5. CallAdvances(c, D, notebook, shared)
    BY <1>1, <1>2, <2>4
    DEF CallAdvances, UnderWay, WithStates, MayHold, HasSeen, LiveKinds, PlanKinds
  <2>6. CallHasStates(c, D, notebook, shared)
    BY <1>1, <1>2, <2>4 DEF CallHasStates, UnderWay, WithStates, LiveKinds
  <2>7. CallHasExport(c, D, notebook, shared)
    BY <1>1, <1>2, <2>4, <2>1 DEF CallHasExport
  <2>8. CallFailed(D, notebook)
    BY <1>1, <1>2, <2>4 DEF CallFailed
  <2>9. CallInv(c, Changed(C, F), notebook, shared)
    BY <2>3, <2>5, <2>6, <2>7, <2>8 DEF CallInv, D
  <2> QED
    BY <1>6, <2>9, CallStepMoves
<1>7. CASE ~Plans(c) /\ CallStep(c, [pc |-> "states", prior |-> exact])
  <2> HIDE DEF exact
  <2> DEFINE F == [pc |-> "states", prior |-> exact]
             D == Changed(C, F)
  <2>1. \A f \in CallFields \cap DOMAIN F : F[f] \in CallTypes[f]
    BY <1>3 DEF CallTypes, CallFields, PreparePcs
  <2>2. IsCall(D) /\ \A f \in CallFields : D[f] = IF f \in DOMAIN F THEN F[f] ELSE C[f]
    BY <1>1, <2>1, ChangedCall
  <2> HIDE DEF D
  <2>3. /\ D.kind = C.kind /\ D.producer = C.producer /\ D.repository = C.repository
        /\ D.pc = "states" /\ D.artifact = C.artifact /\ D.seen = C.seen
        /\ D.relation = C.relation /\ D.captured = C.captured /\ D.leased = C.leased
        /\ C.kind \notin PlanKinds
        /\ D.failure = C.failure /\ D.loose = C.loose
    BY <1>7, <2>2 DEF CallFields, Plans, PlanKinds
  <2>4. CallAdvances(c, D, notebook, shared)
    BY <1>1, <1>2, <2>3
    DEF CallAdvances, UnderWay, WithStates, MayHold, HasSeen, LiveKinds, PlanKinds
  <2>5. CallHasStates(c, D, notebook, shared)
    BY <1>1, <1>2, <2>3 DEF CallHasStates, UnderWay, WithStates, LiveKinds
  <2>6. CallHasExport(c, D, notebook, shared)
    BY <1>1, <1>2, <2>3 DEF CallHasExport
  <2>7. CallFailed(D, notebook)
    BY <1>1, <1>2, <2>3 DEF CallFailed
  <2>8. CallInv(c, Changed(C, F), notebook, shared)
    BY <2>2, <2>4, <2>5, <2>6, <2>7 DEF CallInv, D
  <2> QED
    BY <1>7, <2>8, CallStepMoves
<1> QED
  BY <1>4, <1>5, <1>6, <1>7 DEF MatchSession

\* A file call opens its notebook.
LEMMA OpenKeeps ==
    ASSUME PrepareInv, NEW c \in PrepareCalls, OpenNotebook(c)
    PROVE  PrepareInv'
<1> DEFINE C == calls[c]
<1>1. /\ IsCall(C) /\ notebook \in NotebookTypes /\ CallAdvances(c, C, notebook, shared)
      /\ CallHasStates(c, C, notebook, shared) /\ CallHasExport(c, C, notebook, shared)
      /\ CallFailed(C, notebook) /\ notebook.limit \in Nat
      /\ shared \in SharedTypes /\ RepositoryIsSound
  BY CallFacts
<1>2. C.pc = "open" /\ C.kind \notin LiveKinds /\ notebook.saved \in Versions
  BY <1>1 DEF OpenNotebook, CallAt, CallAdvances, LiveKinds, NotebookTypes
<1>3. CASE Raise(c, {})
  BY <1>3, CallRaises
<1>4. CASE CallStep(c, [pc |-> "plan", opened |-> notebook.saved, seen |-> {notebook.saved}])
  <2> DEFINE F == [pc |-> "plan", opened |-> notebook.saved, seen |-> {notebook.saved}]
             D == Changed(C, F)
  <2>1. \A f \in CallFields \cap DOMAIN F : F[f] \in CallTypes[f]
    BY <1>2 DEF CallTypes, CallFields, PreparePcs
  <2>2. IsCall(D) /\ \A f \in CallFields : D[f] = IF f \in DOMAIN F THEN F[f] ELSE C[f]
    BY <1>1, <2>1, ChangedCall
  <2> HIDE DEF D
  <2>3. /\ D.kind = C.kind /\ D.producer = C.producer /\ D.repository = C.repository
        /\ D.pc = "plan" /\ D.artifact = C.artifact /\ D.seen = {notebook.saved}
        /\ D.captured = C.captured /\ D.leased = C.leased
        /\ D.failure = C.failure /\ D.loose = C.loose
    BY <2>2 DEF CallFields
  <2>4. CallAdvances(c, D, notebook, shared)
    BY <1>1, <1>2, <2>3
    DEF CallAdvances, UnderWay, WithStates, MayHold, HasSeen, LiveKinds, PlanKinds
  <2>5. CallHasStates(c, D, notebook, shared)
    BY <1>1, <1>2, <2>3 DEF CallHasStates, UnderWay, WithStates, LiveKinds
  <2>6. CallHasExport(c, D, notebook, shared)
    BY <1>1, <1>2, <2>3 DEF CallHasExport
  <2>7. CallFailed(D, notebook)
    BY <1>1, <1>2, <2>3 DEF CallFailed
  <2>8. CallInv(c, Changed(C, F), notebook, shared)
    BY <2>2, <2>4, <2>5, <2>6, <2>7 DEF CallInv, D
  <2> QED
    BY <1>4, <2>8, CallStepMoves
<1> QED
  BY <1>3, <1>4 DEF OpenNotebook

\* It plans the states of its spec.
LEMMA PlanFileKeeps ==
    ASSUME PrepareInv, NEW c \in PrepareCalls, PlanFile(c)
    PROVE  PrepareInv'
<1> DEFINE C == calls[c]
<1>1. /\ IsCall(C) /\ notebook \in NotebookTypes /\ CallAdvances(c, C, notebook, shared)
      /\ CallHasStates(c, C, notebook, shared) /\ CallHasExport(c, C, notebook, shared)
      /\ CallFailed(C, notebook) /\ notebook.limit \in Nat
      /\ shared \in SharedTypes /\ RepositoryIsSound
  BY CallFacts
<1>2. C.pc = "plan" /\ C.kind \notin LiveKinds
  BY <1>1 DEF PlanFile, CallAt, CallAdvances, LiveKinds
<1> DEFINE relation == Relation(Autorun)
<1>3. relation \in Relations
  BY RelationTypes, PrepareAssumption DEF PrepareAssumption
<1> HIDE DEF relation
<1>4. CASE RefuseCall(c, "changed") \/ RefuseCall(c, "budget") \/ RefuseCall(c, "cancelled")
  BY <1>4, CallRefused DEF PrepareFailures
<1>5. CASE Plans(c) /\ CallStep(c, [pc |-> "returned", relation |-> relation,
                                   repository |-> RepositoryAfter(c)])
  <2> DEFINE F == [pc |-> "returned", relation |-> relation, repository |-> RepositoryAfter(c)]
             D == Changed(C, F)
  <2>1. \A f \in CallFields \cap DOMAIN F : F[f] \in CallTypes[f]
    BY <1>3 DEF CallTypes, CallFields, PreparePcs, RepositoryAfter
  <2>2. IsCall(D) /\ \A f \in CallFields : D[f] = IF f \in DOMAIN F THEN F[f] ELSE C[f]
    BY <1>1, <2>1, ChangedCall
  <2> HIDE DEF D
  <2>3. /\ D.kind = C.kind /\ D.producer = C.producer /\ D.repository = RepositoryAfter(c)
        /\ D.pc = "returned" /\ D.kind \in PlanKinds
        /\ D.leased = C.leased /\ D.artifact = C.artifact /\ D.seen = C.seen
        /\ D.failure = C.failure /\ D.loose = C.loose
    BY <1>5, <2>2 DEF CallFields, Plans, PlanKinds
  <2>4. CallAdvances(c, D, notebook, shared)
    BY <1>1, <1>2, <2>3
    DEF CallAdvances, UnderWay, WithStates, MayHold, HasSeen, LiveKinds, PlanKinds
  <2>5. CallHasStates(c, D, notebook, shared)
    BY <1>1, <1>2, <2>3 DEF CallHasStates, UnderWay, WithStates, LiveKinds
  <2>6. CallHasExport(c, D, notebook, shared)
    BY <1>1, <1>2, <2>3 DEF CallHasExport
  <2>7. CallFailed(D, notebook)
    BY <1>1, <1>2, <2>3 DEF CallFailed
  <2>8. CallInv(c, Changed(C, F), notebook, shared)
    BY <2>2, <2>4, <2>5, <2>6, <2>7 DEF CallInv, D
  <2> QED
    BY <1>5, <2>8, CallStepMoves
<1>6. CASE ~Plans(c) /\ CallStep(c, [pc |-> "states", relation |-> relation])
  <2> DEFINE F == [pc |-> "states", relation |-> relation]
             D == Changed(C, F)
  <2>1. \A f \in CallFields \cap DOMAIN F : F[f] \in CallTypes[f]
    BY <1>3 DEF CallTypes, CallFields, PreparePcs
  <2>2. IsCall(D) /\ \A f \in CallFields : D[f] = IF f \in DOMAIN F THEN F[f] ELSE C[f]
    BY <1>1, <2>1, ChangedCall
  <2> HIDE DEF D
  <2>3. /\ D.kind = C.kind /\ D.producer = C.producer /\ D.repository = C.repository
        /\ D.pc = "states" /\ D.artifact = C.artifact /\ D.seen = C.seen
        /\ D.relation = relation /\ D.captured = C.captured /\ D.leased = C.leased
        /\ C.kind \notin PlanKinds
        /\ D.failure = C.failure /\ D.loose = C.loose
    BY <1>6, <2>2 DEF CallFields, Plans, PlanKinds
  <2>4. CallAdvances(c, D, notebook, shared)
    BY <1>1, <1>2, <2>3
    DEF CallAdvances, UnderWay, WithStates, MayHold, HasSeen, LiveKinds, PlanKinds
  <2>5. CallHasStates(c, D, notebook, shared)
    BY <1>1, <1>2, <2>3, <1>3 DEF CallHasStates, UnderWay, WithStates, LiveKinds
  <2>6. CallHasExport(c, D, notebook, shared)
    BY <1>1, <1>2, <2>3 DEF CallHasExport
  <2>7. CallFailed(D, notebook)
    BY <1>1, <1>2, <2>3 DEF CallFailed
  <2>8. CallInv(c, Changed(C, F), notebook, shared)
    BY <2>2, <2>4, <2>5, <2>6, <2>7 DEF CallInv, D
  <2> QED
    BY <1>6, <2>8, CallStepMoves
<1> QED
  BY <1>4, <1>5, <1>6 DEF PlanFile, relation

\* The states that are there are leased.
LEMMA LeaseKeeps ==
    ASSUME PrepareInv, NEW c \in PrepareCalls, LeaseStates(c)
    PROVE  PrepareInv'
<1> DEFINE C == calls[c]
<1>1. /\ IsCall(C) /\ notebook \in NotebookTypes /\ CallAdvances(c, C, notebook, shared)
      /\ CallHasStates(c, C, notebook, shared) /\ CallHasExport(c, C, notebook, shared)
      /\ CallFailed(C, notebook) /\ notebook.limit \in Nat
      /\ shared \in SharedTypes /\ RepositoryIsSound
  BY CallFacts
<1>2. C.pc = "states"
  BY DEF LeaseStates, CallAt
<1> DEFINE found == Reusable(C.producer, Wanted(c))
<1>3. C.relation \in Relations /\ Wanted(c) = Fingerprints(C.relation)
  BY <1>1, <1>2 DEF CallHasStates, Wanted
<1>4. found \subseteq Fingerprints(C.relation) /\ found \in SUBSET Values
  BY <1>3, FingerprintFacts DEF Reusable
<1>5. \A v \in found : IsPrepared(C, shared, v)
  BY DEF Reusable, StatesOf, IsPrepared
<1> HIDE DEF found
<1>6. CASE Raise(c, found)
  BY <1>4, <1>6, CallRaises
<1>7. CASE RefuseCall(c, "budget")
  BY <1>7, CallRefused DEF PrepareFailures
<1>8. CASE /\ IndexFits(Projected(Wanted(c), found))
           /\ CallStep(c, [pc |-> "missing", leased |-> found, reusable |-> found])
  <2>1. Fingerprints(C.relation) \subseteq found => IndexBytes(C.relation) <= notebook.limit
    BY <1>3, <1>8, MeasuredIsExact DEF IndexFits
  <2> DEFINE F == [pc |-> "missing", leased |-> found, reusable |-> found]
             D == Changed(C, F)
  <2>2. \A f \in CallFields \cap DOMAIN F : F[f] \in CallTypes[f]
    BY <1>4 DEF CallTypes, CallFields, PreparePcs
  <2>3. IsCall(D) /\ \A f \in CallFields : D[f] = IF f \in DOMAIN F THEN F[f] ELSE C[f]
    BY <1>1, <2>2, ChangedCall
  <2> HIDE DEF D
  <2>4. /\ D.kind = C.kind /\ D.producer = C.producer /\ D.repository = C.repository
        /\ D.pc = "missing" /\ D.artifact = C.artifact /\ D.seen = C.seen
        /\ D.relation = C.relation /\ D.captured = C.captured /\ D.leased = found
        /\ D.failure = C.failure /\ D.loose = C.loose
    BY <2>3 DEF CallFields
  <2>5. CallAdvances(c, D, notebook, shared)
    BY <1>1, <1>2, <2>4
    DEF CallAdvances, UnderWay, WithStates, MayHold, HasSeen, LiveKinds, PlanKinds
  <2>6. CallHasStates(c, D, notebook, shared)
    BY <1>1, <1>2, <2>4, <1>3, <1>4, <1>5, <2>1
    DEF CallHasStates, IsPrepared, UnderWay, WithStates, LiveKinds
  <2>7. CallHasExport(c, D, notebook, shared)
    BY <1>1, <1>2, <2>4 DEF CallHasExport
  <2>8. CallFailed(D, notebook)
    BY <1>1, <1>2, <2>4 DEF CallFailed
  <2>9. CallInv(c, Changed(C, F), notebook, shared)
    BY <2>3, <2>5, <2>6, <2>7, <2>8 DEF CallInv, D
  <2> QED
    BY <1>8, <2>9, CallStepMoves
<1> QED
  BY <1>6, <1>7, <1>8 DEF LeaseStates, found

\* The next state that is missing is started.
LEMMA StartKeeps ==
    ASSUME PrepareInv, NEW c \in PrepareCalls, StartState(c)
    PROVE  PrepareInv'
<1> DEFINE C == calls[c]
<1>1. /\ IsCall(C) /\ notebook \in NotebookTypes /\ CallAdvances(c, C, notebook, shared)
      /\ CallHasStates(c, C, notebook, shared) /\ CallHasExport(c, C, notebook, shared)
      /\ CallFailed(C, notebook) /\ notebook.limit \in Nat
      /\ shared \in SharedTypes /\ RepositoryIsSound
  BY CallFacts
<1>2. C.pc = "missing"
  BY DEF StartState, CallAt
<1>3. CASE RefuseCall(c, "cancelled") \/ Raise(c, {})
  BY <1>3, CallRefused, CallRaises DEF PrepareFailures
<1>4. CASE CallStep(c, [pc |-> "capturing", target |-> Min(Missing(c))])
  <2> DEFINE m == Min(Missing(c))
  <2>1. m \in Fingerprints(C.relation) /\ m \in Values
    <3>1. Missing(c) \subseteq Fingerprints(C.relation) /\ Missing(c) # {}
      BY DEF Missing, Wanted, StartState
    <3>2. Fingerprints(C.relation) \subseteq Values /\ Values \subseteq Nat
      BY <1>1, <1>2, FingerprintFacts, PrepareAssumption
      DEF PrepareAssumption, CallHasStates, WithStates
    <3>3. Missing(c) \subseteq Nat
      BY <3>1, <3>2
    <3>4. \E x \in Missing(c) : \A y \in Missing(c) : x <= y
      BY <3>1, <3>3, LeastMember
    <3>5. m \in Missing(c)
      BY <3>4 DEF Min
    <3> QED
      BY <3>1, <3>2, <3>5
  <2> HIDE DEF m
  <2> DEFINE F == [pc |-> "capturing", target |-> m]
             D == Changed(C, F)
  <2>2. \A f \in CallFields \cap DOMAIN F : F[f] \in CallTypes[f]
    BY <2>1 DEF CallTypes, CallFields, PreparePcs
  <2>3. IsCall(D) /\ \A f \in CallFields : D[f] = IF f \in DOMAIN F THEN F[f] ELSE C[f]
    BY <1>1, <2>2, ChangedCall
  <2> HIDE DEF D
  <2>4. /\ D.kind = C.kind /\ D.producer = C.producer /\ D.repository = C.repository
        /\ D.pc = "capturing" /\ D.artifact = C.artifact /\ D.seen = C.seen /\ D.target = m
        /\ D.relation = C.relation /\ D.captured = C.captured /\ D.leased = C.leased
        /\ D.failure = C.failure /\ D.loose = C.loose
    BY <2>3 DEF CallFields
  <2>5. CallAdvances(c, D, notebook, shared)
    BY <1>1, <1>2, <2>4
    DEF CallAdvances, UnderWay, WithStates, MayHold, HasSeen, LiveKinds, PlanKinds
  <2>6. CallHasStates(c, D, notebook, shared)
    BY <1>1, <1>2, <2>4, <2>1
    DEF CallHasStates, IsPrepared, IsCapturedBy, UnderWay, WithStates, LiveKinds
  <2>7. CallHasExport(c, D, notebook, shared)
    BY <1>1, <1>2, <2>4 DEF CallHasExport
  <2>8. CallFailed(D, notebook)
    BY <1>1, <1>2, <2>4 DEF CallFailed
  <2>9. CallInv(c, Changed(C, F), notebook, shared)
    BY <2>3, <2>5, <2>6, <2>7, <2>8 DEF CallInv, D
  <2> QED
    BY <1>4, <2>9, CallStepMoves DEF m
<1> QED
  BY <1>3, <1>4 DEF StartState

\* It is captured, by a version that matches the plan.
LEMMA CaptureKeeps ==
    ASSUME PrepareInv, NEW c \in PrepareCalls, CaptureState(c)
    PROVE  PrepareInv'
<1> DEFINE C == calls[c]
<1>1. /\ IsCall(C) /\ notebook \in NotebookTypes /\ CallAdvances(c, C, notebook, shared)
      /\ CallHasStates(c, C, notebook, shared) /\ CallHasExport(c, C, notebook, shared)
      /\ CallFailed(C, notebook) /\ notebook.limit \in Nat
      /\ shared \in SharedTypes /\ RepositoryIsSound
  BY CallFacts
<1>2. C.pc = "capturing"
  BY DEF CaptureState, CallAt
<1>3. CASE RefuseCall(c, "cancelled") \/ RefuseCall(c, "mismatch") \/ Raise(c, {})
  BY <1>3, CallRefused, CallRaises DEF PrepareFailures
<1> DEFINE version == ExecutedVersion(c)
           now == VersionNow(c)
<1>4. CASE /\ MatchesPlan(c, version)
           /\ CallStep(c, [pc |-> "guard", opened |-> version, seen |-> {now}])
  <2>1. /\ version = C.producer /\ C.producer \in Versions /\ now \in Versions
        /\ now = IF C.kind \in LiveKinds THEN notebook.live ELSE notebook.saved
    BY <1>1, <1>2, <1>4
    DEF MatchesPlan, CallAdvances, UnderWay, WithStates, VersionNow, IsLive,
        LiveKinds, NotebookTypes
  <2> HIDE DEF version, now
  <2> DEFINE F == [pc |-> "guard", opened |-> version, seen |-> {now}]
             D == Changed(C, F)
  <2>2. \A f \in CallFields \cap DOMAIN F : F[f] \in CallTypes[f]
    BY <2>1 DEF CallTypes, CallFields, PreparePcs
  <2>3. IsCall(D) /\ \A f \in CallFields : D[f] = IF f \in DOMAIN F THEN F[f] ELSE C[f]
    BY <1>1, <2>2, ChangedCall
  <2> HIDE DEF D
  <2>4. /\ D.kind = C.kind /\ D.producer = C.producer /\ D.repository = C.repository
        /\ D.pc = "guard" /\ D.artifact = C.artifact /\ D.seen = {now} /\ D.target = C.target
        /\ D.relation = C.relation /\ D.captured = C.captured /\ D.leased = C.leased
        /\ D.opened = C.producer
        /\ D.failure = C.failure /\ D.loose = C.loose
    BY <2>1, <2>3 DEF CallFields
  <2>5. CallAdvances(c, D, notebook, shared)
    BY <1>1, <1>2, <2>4, <2>1
    DEF CallAdvances, UnderWay, WithStates, MayHold, HasSeen, LiveKinds, PlanKinds
  <2>6. CallHasStates(c, D, notebook, shared)
    BY <1>1, <1>2, <2>4
    DEF CallHasStates, IsPrepared, IsCapturedBy, UnderWay, WithStates, LiveKinds
  <2>7. CallHasExport(c, D, notebook, shared)
    BY <1>1, <1>2, <2>4 DEF CallHasExport
  <2>8. CallFailed(D, notebook)
    BY <1>1, <1>2, <2>4 DEF CallFailed
  <2>9. CallInv(c, Changed(C, F), notebook, shared)
    BY <2>3, <2>5, <2>6, <2>7, <2>8 DEF CallInv, D
  <2> QED
    BY <1>4, <2>9, CallStepMoves
<1> QED
  BY <1>3, <1>4 DEF CaptureState, version, now

\* Before its commit the notebook is looked at.
LEMMA GuardKeeps ==
    ASSUME PrepareInv, NEW c \in PrepareCalls, GuardState(c)
    PROVE  PrepareInv'
<1> DEFINE C == calls[c]
<1>1. /\ IsCall(C) /\ notebook \in NotebookTypes /\ CallAdvances(c, C, notebook, shared)
      /\ CallHasStates(c, C, notebook, shared) /\ CallHasExport(c, C, notebook, shared)
      /\ CallFailed(C, notebook) /\ notebook.limit \in Nat
      /\ shared \in SharedTypes /\ RepositoryIsSound
  BY CallFacts
<1>2. C.pc = "guard"
  BY DEF GuardState, CallAt
<1>3. CASE RefuseCall(c, "cancelled") \/ RefuseCall(c, "changed")
  BY <1>3, CallRefused DEF PrepareFailures
<1>4. CASE CallStep(c, [pc |-> "commit"])
  <2> DEFINE F == [pc |-> "commit"]
             D == Changed(C, F)
  <2>1. \A f \in CallFields \cap DOMAIN F : F[f] \in CallTypes[f]
    BY DEF CallTypes, CallFields, PreparePcs
  <2>2. IsCall(D) /\ \A f \in CallFields : D[f] = IF f \in DOMAIN F THEN F[f] ELSE C[f]
    BY <1>1, <2>1, ChangedCall
  <2> HIDE DEF D
  <2>3. /\ D.kind = C.kind /\ D.producer = C.producer /\ D.repository = C.repository
        /\ D.pc = "commit" /\ D.artifact = C.artifact /\ D.seen = C.seen /\ D.target = C.target
        /\ D.relation = C.relation /\ D.captured = C.captured /\ D.leased = C.leased
        /\ D.opened = C.opened
        /\ D.failure = C.failure /\ D.loose = C.loose
    BY <2>2 DEF CallFields
  <2>4. CallAdvances(c, D, notebook, shared)
    BY <1>1, <1>2, <2>3
    DEF CallAdvances, UnderWay, WithStates, MayHold, HasSeen, LiveKinds, PlanKinds
  <2>5. CallHasStates(c, D, notebook, shared)
    BY <1>1, <1>2, <2>3
    DEF CallHasStates, IsPrepared, IsCapturedBy, UnderWay, WithStates, LiveKinds
  <2>6. CallHasExport(c, D, notebook, shared)
    BY <1>1, <1>2, <2>3 DEF CallHasExport
  <2>7. CallFailed(D, notebook)
    BY <1>1, <1>2, <2>3 DEF CallFailed
  <2>8. CallInv(c, Changed(C, F), notebook, shared)
    BY <2>2, <2>4, <2>5, <2>6, <2>7 DEF CallInv, D
  <2> QED
    BY <1>4, <2>8, CallStepMoves
<1> QED
  BY <1>3, <1>4 DEF GuardState

\* Nothing is missing: the export is assembled and the notebook looked at again.
LEMMA AssembleKeeps ==
    ASSUME PrepareInv, NEW c \in PrepareCalls, Assemble(c)
    PROVE  PrepareInv'
<1> DEFINE C == calls[c]
<1>1. /\ IsCall(C) /\ notebook \in NotebookTypes /\ CallAdvances(c, C, notebook, shared)
      /\ CallHasStates(c, C, notebook, shared) /\ CallHasExport(c, C, notebook, shared)
      /\ CallFailed(C, notebook) /\ notebook.limit \in Nat
      /\ shared \in SharedTypes /\ RepositoryIsSound
  BY CallFacts
<1>2. C.pc = "missing" /\ Fingerprints(C.relation) \subseteq C.leased
  BY DEF Assemble, CallAt, Missing, Wanted
<1>3. CASE RefuseCall(c, "cancelled") \/ RefuseCall(c, "changed") \/ Raise(c, {})
  BY <1>3, CallRefused, CallRaises DEF PrepareFailures
<1>4. CASE ProducerIsCurrent(c) /\ CallStep(c, [pc |-> "install"])
  <2>1. C.producer \in C.seen
    BY <1>1, <1>2, <1>4
    DEF ProducerIsCurrent, CallAdvances, HasSeen, WithStates, IsLive, LiveKinds
  <2> DEFINE F == [pc |-> "install"]
             D == Changed(C, F)
  <2>2. \A f \in CallFields \cap DOMAIN F : F[f] \in CallTypes[f]
    BY DEF CallTypes, CallFields, PreparePcs
  <2>3. IsCall(D) /\ \A f \in CallFields : D[f] = IF f \in DOMAIN F THEN F[f] ELSE C[f]
    BY <1>1, <2>2, ChangedCall
  <2> HIDE DEF D
  <2>4. /\ D.kind = C.kind /\ D.producer = C.producer /\ D.repository = C.repository
        /\ D.pc = "install" /\ D.artifact = C.artifact /\ D.seen = C.seen
        /\ D.relation = C.relation /\ D.captured = C.captured /\ D.leased = C.leased
        /\ D.failure = C.failure /\ D.loose = C.loose
    BY <2>3 DEF CallFields
  <2>5. CallAdvances(c, D, notebook, shared)
    BY <1>1, <1>2, <2>4, <2>1
    DEF CallAdvances, UnderWay, WithStates, MayHold, HasSeen, LiveKinds, PlanKinds
  <2>6. CallHasStates(c, D, notebook, shared)
    BY <1>1, <1>2, <2>4
    DEF CallHasStates, IsPrepared, IsCapturedBy, UnderWay, WithStates, LiveKinds
  <2>7. CallHasExport(c, D, notebook, shared)
    BY <1>1, <1>2, <2>4 DEF CallHasExport
  <2>8. CallFailed(D, notebook)
    BY <1>1, <1>2, <2>4 DEF CallFailed
  <2>9. CallInv(c, Changed(C, F), notebook, shared)
    BY <2>3, <2>5, <2>6, <2>7, <2>8 DEF CallInv, D
  <2> QED
    BY <1>4, <2>9, CallStepMoves
<1> QED
  BY <1>3, <1>4 DEF Assemble

\* The frame of a failed call is collected.
LEMMA CollectKeeps ==
    ASSUME PrepareInv, NEW c \in PrepareCalls, CollectFrame(c)
    PROVE  PrepareInv'
<1> DEFINE C == calls[c]
<1>1. /\ IsCall(C) /\ notebook \in NotebookTypes /\ CallAdvances(c, C, notebook, shared)
      /\ CallHasStates(c, C, notebook, shared) /\ CallHasExport(c, C, notebook, shared)
      /\ CallFailed(C, notebook) /\ notebook.limit \in Nat
      /\ shared \in SharedTypes /\ RepositoryIsSound
  BY CallFacts
<1>2. CallStep(c, [loose |-> {}])
  BY DEF CollectFrame
<1> QED
  <2> DEFINE F == [loose |-> {}]
             D == Changed(C, F)
  <2>1. \A f \in CallFields \cap DOMAIN F : F[f] \in CallTypes[f]
    BY DEF CallTypes, CallFields
  <2>2. IsCall(D) /\ \A f \in CallFields : D[f] = IF f \in DOMAIN F THEN F[f] ELSE C[f]
    BY <1>1, <2>1, ChangedCall
  <2> HIDE DEF D
  <2>3. /\ D.kind = C.kind /\ D.producer = C.producer /\ D.repository = C.repository
        /\ D.pc = C.pc /\ D.artifact = C.artifact /\ D.seen = C.seen /\ D.target = C.target
        /\ D.relation = C.relation /\ D.captured = C.captured /\ D.leased = C.leased
        /\ D.opened = C.opened /\ D.reusable = C.reusable
        /\ D.failure = C.failure /\ D.loose = {}
    BY <2>2 DEF CallFields
  <2>4. CallAdvances(c, D, notebook, shared)
    BY <1>1, <1>2, <2>3
    DEF CallAdvances, UnderWay, WithStates, MayHold, HasSeen, LiveKinds, PlanKinds
  <2>5. CallHasStates(c, D, notebook, shared)
    BY <1>1, <1>2, <2>3
    DEF CallHasStates, IsPrepared, IsCapturedBy, UnderWay, WithStates, LiveKinds
  <2>6. CallHasExport(c, D, notebook, shared)
    BY <1>1, <1>2, <2>3 DEF CallHasExport, IsCapturedBy
  <2>7. CallFailed(D, notebook)
    BY <1>1, <1>2, <2>3 DEF CallFailed
  <2>8. CallInv(c, Changed(C, F), notebook, shared)
    BY <2>2, <2>4, <2>5, <2>6, <2>7 DEF CallInv, D
  <2> QED
    BY <1>2, <2>8, CallStepMoves

\* The export is closed.
LEMMA CloseKeeps ==
    ASSUME PrepareInv, NEW c \in PrepareCalls, ClosePrepared(c)
    PROVE  PrepareInv'
<1> DEFINE C == calls[c]
<1>1. /\ IsCall(C) /\ notebook \in NotebookTypes /\ CallAdvances(c, C, notebook, shared)
      /\ CallHasStates(c, C, notebook, shared) /\ CallHasExport(c, C, notebook, shared)
      /\ CallFailed(C, notebook) /\ notebook.limit \in Nat
      /\ shared \in SharedTypes /\ RepositoryIsSound
  BY CallFacts
<1>2. C.pc = "returned" /\ C.kind \notin PlanKinds
  BY DEF ClosePrepared, CallAt, Plans, PlanKinds
<1>3. CallStep(c, [pc |-> "closed", artifact |-> {}, repository |-> RepositoryAfter(c)])
  BY DEF ClosePrepared
<1> QED
  <2> DEFINE F == [pc |-> "closed", artifact |-> {}, repository |-> RepositoryAfter(c)]
             D == Changed(C, F)
  <2>1. \A f \in CallFields \cap DOMAIN F : F[f] \in CallTypes[f]
    BY DEF CallTypes, CallFields, PreparePcs, RepositoryAfter
  <2>2. IsCall(D) /\ \A f \in CallFields : D[f] = IF f \in DOMAIN F THEN F[f] ELSE C[f]
    BY <1>1, <2>1, ChangedCall
  <2> HIDE DEF D
  <2>3. /\ D.kind = C.kind /\ D.producer = C.producer /\ D.repository = RepositoryAfter(c)
        /\ D.pc = "closed" /\ D.artifact = {} /\ D.seen = C.seen /\ D.leased = C.leased
        /\ D.failure = C.failure /\ D.loose = C.loose
    BY <2>2 DEF CallFields
  <2>4. CallAdvances(c, D, notebook, shared)
    BY <1>1, <1>2, <2>3
    DEF CallAdvances, UnderWay, WithStates, MayHold, HasSeen, LiveKinds, PlanKinds
  <2>5. CallHasStates(c, D, notebook, shared)
    BY <1>1, <1>2, <2>3 DEF CallHasStates, UnderWay, WithStates, LiveKinds
  <2>6. CallHasExport(c, D, notebook, shared)
    BY <1>1, <1>2, <2>3 DEF CallHasExport
  <2>7. CallFailed(D, notebook)
    BY <1>1, <1>2, <2>3 DEF CallFailed
  <2>8. CallInv(c, Changed(C, F), notebook, shared)
    BY <2>2, <2>4, <2>5, <2>6, <2>7 DEF CallInv, D
  <2> QED
    BY <1>3, <2>8, CallStepMoves

\* A call reserves its identity, which nobody holds.
LEMMA ReserveKeeps ==
    ASSUME PrepareInv, NEW c \in PrepareCalls, Reserve(c)
    PROVE  PrepareInv'
<1> DEFINE C == calls[c]
<1>1. /\ IsCall(C) /\ notebook \in NotebookTypes /\ CallAdvances(c, C, notebook, shared)
      /\ CallHasStates(c, C, notebook, shared) /\ CallHasExport(c, C, notebook, shared)
      /\ CallFailed(C, notebook) /\ notebook.limit \in Nat
      /\ shared \in SharedTypes /\ RepositoryIsSound
  BY CallFacts
<1>2. C.pc = "reserve"
  BY DEF Reserve, CallAt
<1>3. CASE RefuseCall(c, "cancelled") \/ Raise(c, {})
  BY <1>3, CallRefused, CallRaises DEF PrepareFailures
<1>4. CASE /\ shared' = [shared EXCEPT !.holder[C.producer] = c]
           /\ shared.holder[C.producer] = NoCall
           /\ Update(c, [pc |-> "reserved"])
           /\ notebook' = notebook
  <2>1. C.producer \in Versions /\ C.kind \notin PlanKinds
    BY <1>1, <1>2 DEF CallAdvances, UnderWay
  <2>2. /\ shared' \in SharedTypes
        /\ shared'.states = shared.states /\ shared'.exports = shared.exports
        /\ \A v \in Versions : shared'.holder[v] = IF v = C.producer THEN c ELSE shared.holder[v]
    BY <1>1, <1>4, <2>1 DEF SharedTypes
  <2> DEFINE F == [pc |-> "reserved"]
             D == Changed(C, F)
  <2>3. \A f \in CallFields \cap DOMAIN F : F[f] \in CallTypes[f]
    BY DEF CallTypes, CallFields, PreparePcs
  <2>4. IsCall(D) /\ \A f \in CallFields : D[f] = IF f \in DOMAIN F THEN F[f] ELSE C[f]
    BY <1>1, <2>3, ChangedCall
  <2> HIDE DEF D
  <2>5. /\ D.kind = C.kind /\ D.producer = C.producer /\ D.repository = C.repository
        /\ D.pc = "reserved" /\ D.artifact = C.artifact /\ D.seen = C.seen
        /\ D.captured = C.captured /\ D.leased = C.leased
        /\ D.failure = C.failure /\ D.loose = C.loose
    BY <2>4 DEF CallFields
  <2>6. CallAdvances(c, D, notebook', shared')
    BY <1>1, <1>2, <2>5, <1>4, <2>1, <2>2
    DEF CallAdvances, UnderWay, WithStates, MayHold, HasSeen, LiveKinds, PlanKinds
  <2>7. CallHasStates(c, D, notebook', shared')
    BY <1>1, <1>2, <2>5, <1>4 DEF CallHasStates, UnderWay, WithStates, LiveKinds
  <2>8. CallHasExport(c, D, notebook', shared')
    BY <1>1, <1>2, <2>5, <1>4 DEF CallHasExport
  <2>9. CallFailed(D, notebook')
    BY <1>1, <1>2, <2>5, <1>4 DEF CallFailed
  <2>10. CallInv(c, Changed(C, F), notebook', shared')
    BY <2>4, <2>6, <2>7, <2>8, <2>9 DEF CallInv, D
  <2>11. RepositoryIsSound'
    BY <1>1, <1>4, <2>2, RepositoryStaysSound
  <2> QED
    BY <1>1, <1>4, <2>10, <2>2, <2>11, CallMoves
<1> QED
  BY <1>3, <1>4 DEF Reserve

\* An exact export is returned, or planned from.
LEMMA TakeExactKeeps ==
    ASSUME PrepareInv, NEW c \in PrepareCalls, TakeExact(c)
    PROVE  PrepareInv'
<1> DEFINE C == calls[c]
<1>1. /\ IsCall(C) /\ notebook \in NotebookTypes /\ CallAdvances(c, C, notebook, shared)
      /\ CallHasStates(c, C, notebook, shared) /\ CallHasExport(c, C, notebook, shared)
      /\ CallFailed(C, notebook) /\ notebook.limit \in Nat
      /\ shared \in SharedTypes /\ RepositoryIsSound
  BY CallFacts
<1>2. C.pc = "exact"
  BY DEF TakeExact, CallAt
<1>3. CASE RefuseCall(c, "changed") \/ Raise(c, {})
  BY <1>3, CallRefused, CallRaises DEF PrepareFailures
<1> DEFINE relation == IF IsLive(c) THEN C.relation ELSE (CHOOSE e \in C.artifact : TRUE).relation
           kept == IF Plans(c) THEN {} ELSE C.artifact
           after == IF Plans(c) THEN RepositoryAfter(c) ELSE "open"
<1>4. CASE /\ ExactIsCurrent(c)
           /\ Update(c, [pc |-> "returned", relation |-> relation, reused |-> TRUE,
                         reusable |-> Fingerprints(relation), captured |-> {},
                         artifact |-> kept, repository |-> after])
           /\ shared' = Released(c)
           /\ notebook' = notebook
  <2>1. /\ shared' \in SharedTypes
        /\ shared'.states = shared.states /\ shared'.exports = shared.exports
        /\ \A v \in Versions : shared'.holder[v] # c
        /\ \A v \in Versions, d \in PrepareCalls : shared'.holder[v] = d => shared.holder[v] = d
    BY <1>1, <1>4, ReleasedFacts
  <2>2. RepositoryIsSound'
    BY <1>1, <1>4, <2>1, RepositoryStaysSound
  <2>3. PICK e \in C.artifact :
           /\ C.artifact = {e} /\ SoundExport(e, notebook.limit) /\ e.producer = C.producer
           /\ C.kind \in LiveKinds => e.relation = C.relation
    BY <1>1, <1>2 DEF CallHasExport
  <2>4. e.relation = relation /\ e.relation \in Relations
    <3>1. e.relation \in Relations
      BY <2>3 DEF SoundExport, Exports
    <3>2. (CHOOSE x \in C.artifact : TRUE) = e
      BY <2>3
    <3> QED
      BY <2>3, <3>1, <3>2 DEF IsLive, LiveKinds
  <2>5. Fingerprints(relation) \subseteq Values
    BY <2>4, FingerprintFacts
  <2>6. C.producer \in C.seen
    BY <1>1, <1>2, <1>4 DEF ExactIsCurrent, CallAdvances, HasSeen, IsLive, LiveKinds
  <2>7. kept \subseteq Exports
    BY <2>3 DEF SoundExport
  <2> DEFINE taken == TRUE
  <2>8. taken \in BOOLEAN
    OBVIOUS
  <2> HIDE DEF relation, kept, after, taken
  <2> DEFINE F == [pc |-> "returned", relation |-> relation, reused |-> taken,
                   reusable |-> Fingerprints(relation), captured |-> {},
                   artifact |-> kept, repository |-> after]
             D == Changed(C, F)
  <2>9. \A f \in CallFields \cap DOMAIN F : F[f] \in CallTypes[f]
    BY <2>4, <2>5, <2>7, <2>8 DEF CallTypes, CallFields, PreparePcs, RepositoryAfter, after
  <2>10. IsCall(D) /\ \A f \in CallFields : D[f] = IF f \in DOMAIN F THEN F[f] ELSE C[f]
    BY <1>1, <2>9, ChangedCall
  <2> HIDE DEF D
  <2>11. /\ D.kind = C.kind /\ D.producer = C.producer /\ D.repository = after
         /\ D.pc = "returned" /\ D.artifact = kept /\ D.seen = C.seen
         /\ D.relation = relation /\ D.reusable = Fingerprints(relation)
         /\ D.captured = {} /\ D.leased = C.leased
         /\ Plans(c) <=> C.kind \in PlanKinds
         /\ D.failure = C.failure /\ D.loose = C.loose
    BY <2>10 DEF CallFields, Plans, PlanKinds
  <2>12. CallAdvances(c, D, notebook', shared')
    BY <1>1, <1>2, <2>11, <1>4, <2>1, <2>6
    DEF CallAdvances, UnderWay, WithStates, MayHold, HasSeen, LiveKinds, PlanKinds, after
  <2>13. CallHasStates(c, D, notebook', shared')
    BY <1>1, <1>2, <2>11, <1>4 DEF CallHasStates, UnderWay, WithStates, LiveKinds
  <2>14. CallHasExport(c, D, notebook', shared')
    BY <1>1, <1>2, <2>11, <1>4, <2>3, <2>4 DEF CallHasExport, kept
  <2>15. CallFailed(D, notebook')
    BY <1>1, <1>2, <2>11, <1>4 DEF CallFailed
  <2>16. CallInv(c, Changed(C, F), notebook', shared')
    BY <2>10, <2>12, <2>13, <2>14, <2>15 DEF CallInv, D
  <2> QED
    BY <1>1, <1>4, <2>16, <2>1, <2>2, CallMoves DEF taken
<1> QED
  BY <1>3, <1>4 DEF TakeExact

\* A call is cancelled.
LEMMA CancelKeeps ==
    ASSUME PrepareInv, NEW c \in PrepareCalls, CancelCall(c)
    PROVE  PrepareInv'
<1> DEFINE C == calls[c]
<1>1. /\ IsCall(C) /\ notebook \in NotebookTypes /\ CallAdvances(c, C, notebook, shared)
      /\ CallHasStates(c, C, notebook, shared) /\ CallHasExport(c, C, notebook, shared)
      /\ CallFailed(C, notebook) /\ notebook.limit \in Nat
      /\ shared \in SharedTypes /\ RepositoryIsSound
  BY CallFacts
<1>2. C.pc \notin {"idle", "failed", "closed", "returned"}
  BY DEF CancelCall, Running
<1>3. /\ notebook' \in NotebookTypes /\ notebook'.limit = notebook.limit
      /\ notebook'.saved = notebook.saved /\ notebook'.live = notebook.live
      /\ shared' = shared /\ Update(c, [cancelled |-> TRUE])
  BY <1>1, TroubleFacts DEF CancelCall
<1> QED
  <2> DEFINE given == TRUE
  <2>1. given \in BOOLEAN
    OBVIOUS
  <2> HIDE DEF given
  <2> DEFINE F == [cancelled |-> given]
             D == Changed(C, F)
  <2>2. \A f \in CallFields \cap DOMAIN F : F[f] \in CallTypes[f]
    BY <2>1 DEF CallTypes, CallFields
  <2>3. IsCall(D) /\ \A f \in CallFields : D[f] = IF f \in DOMAIN F THEN F[f] ELSE C[f]
    BY <1>1, <2>2, ChangedCall
  <2> HIDE DEF D
  <2>4. /\ D.kind = C.kind /\ D.producer = C.producer /\ D.repository = C.repository
        /\ D.pc = C.pc /\ D.artifact = C.artifact /\ D.seen = C.seen /\ D.target = C.target
        /\ D.relation = C.relation /\ D.captured = C.captured /\ D.leased = C.leased
        /\ D.opened = C.opened /\ D.reusable = C.reusable
        /\ D.failure = C.failure /\ D.loose = C.loose
    BY <2>3 DEF CallFields
  <2>5. CallAdvances(c, D, notebook', shared)
    BY <1>1, <1>2, <2>4, <1>3
    DEF CallAdvances, UnderWay, WithStates, MayHold, HasSeen, LiveKinds, PlanKinds
  <2>6. CallHasStates(c, D, notebook', shared)
    BY <1>1, <1>2, <2>4, <1>3
    DEF CallHasStates, UnderWay, WithStates, LiveKinds, IsPrepared, IsCapturedBy
  <2>7. CallHasExport(c, D, notebook', shared)
    BY <1>1, <1>2, <2>4, <1>3 DEF CallHasExport, IsCapturedBy
  <2>8. CallFailed(D, notebook')
    BY <1>1, <1>2, <2>4, <1>3 DEF CallFailed
  <2>9. CallInv(c, Changed(C, F), notebook', shared)
    BY <2>3, <2>5, <2>6, <2>7, <2>8 DEF CallInv, D
  <2>10. RepositoryIsSound'
    BY <1>1, <1>3, RepositoryStaysSound
  <2> QED
    BY <1>1, <1>3, <2>9, <2>10, CallMoves DEF given

\* A call loses its reservation.
LEMMA LoseKeeps ==
    ASSUME PrepareInv, NEW c \in PrepareCalls, LoseReservation(c)
    PROVE  PrepareInv'
<1>1. notebook \in NotebookTypes /\ shared \in SharedTypes /\ RepositoryIsSound
      /\ DOMAIN calls = PrepareCalls
  BY DEF PrepareInv
<1>2. /\ notebook' \in NotebookTypes /\ notebook'.limit = notebook.limit
      /\ notebook'.saved = notebook.saved /\ notebook'.live = notebook.live
      /\ shared' = Released(c) /\ calls' = calls
  BY <1>1, TroubleFacts DEF LoseReservation
<1>3. /\ shared' \in SharedTypes
      /\ shared'.states = shared.states /\ shared'.exports = shared.exports
      /\ \A v \in Versions, d \in PrepareCalls : shared'.holder[v] = d => shared.holder[v] = d
  BY <1>1, <1>2, ReleasedFacts
<1>4. ASSUME NEW d \in PrepareCalls PROVE CallInv(d, calls[d], notebook', shared')
  <2>1. CallInv(d, calls[d], notebook, shared)
    BY DEF PrepareInv
  <2> QED
    BY <1>2, <1>3, <2>1, CallRests
<1>5. RepositoryIsSound'
  BY <1>1, <1>2, <1>3, RepositoryStaysSound
<1> QED
  BY <1>1, <1>2, <1>3, <1>4, <1>5 DEF PrepareInv

\* A captured state is committed, of the version that executed it.
LEMMA CommitKeeps ==
    ASSUME PrepareInv, NEW c \in PrepareCalls, CommitState(c)
    PROVE  PrepareInv'
<1> DEFINE C == calls[c]
<1>1. /\ IsCall(C) /\ notebook \in NotebookTypes /\ CallAdvances(c, C, notebook, shared)
      /\ CallHasStates(c, C, notebook, shared) /\ CallHasExport(c, C, notebook, shared)
      /\ CallFailed(C, notebook) /\ notebook.limit \in Nat
      /\ shared \in SharedTypes /\ RepositoryIsSound
  BY CallFacts
<1>2. C.pc = "commit"
  BY DEF CommitState, CallAt
<1> DEFINE new == shared.states \cup {NewState(c)}
           leased == C.leased \cup {C.target}
           captured == C.captured \cup {C.target}
<1>3. /\ C.target \in Fingerprints(C.relation) /\ C.opened = C.producer
      /\ C.producer \in Versions /\ C.relation \in Relations
      /\ C.target \in Values /\ C.leased \subseteq Values /\ C.captured \subseteq Values
  <2>1. /\ C.target \in Fingerprints(C.relation) /\ C.opened = C.producer
        /\ C.producer \in Versions /\ C.relation \in Relations
    BY <1>1, <1>2 DEF CallHasStates, CallAdvances, UnderWay, WithStates
  <2>2. C.leased \subseteq Values /\ C.captured \subseteq Values
    BY <1>1, CallFieldTypes
  <2> QED
    BY <2>1, <2>2, FingerprintFacts
<1>4. NewState(c) \in PreparedStates /\ NewState(c).version = NewState(c).producer
  BY <1>3 DEF NewState, PreparedStates
<1>5. /\ NewState(c).producer = C.producer /\ NewState(c).value = C.target
      /\ NewState(c).by = c
  BY DEF NewState
<1> HIDE DEF new
<1>6. /\ shared.states \subseteq new /\ NewState(c) \in new /\ new \subseteq PreparedStates
      /\ \A s \in new : s.version = s.producer
  BY <1>1, <1>4 DEF new, SharedTypes, RepositoryIsSound
<1>7. CASE RefuseCall(c, "fence")
  BY <1>7, CallRefused DEF PrepareFailures
<1>8. ASSUME NEW why \in {"raised", "budget"}, Update(c, Failed(c, why, {}, {})),
             shared' = [Released(c) EXCEPT !.states = new],
             Trouble(notebook') \/ notebook' = notebook
      PROVE  PrepareInv'
  <2>1. /\ notebook' \in NotebookTypes /\ notebook'.limit = notebook.limit
        /\ notebook'.saved = notebook.saved /\ notebook'.live = notebook.live
    BY <1>1, <1>8, TroubleFacts
  <2>2. /\ Released(c) \in SharedTypes /\ Released(c).exports = shared.exports
        /\ \A v \in Versions : Released(c).holder[v] # c
        /\ \A v \in Versions, d \in PrepareCalls : Released(c).holder[v] = d => shared.holder[v] = d
    BY <1>1, ReleasedFacts
  <2>3. /\ shared' \in SharedTypes /\ shared'.states = new
        /\ shared'.exports = shared.exports /\ shared'.holder = Released(c).holder
    BY <1>6, <1>8, <2>2 DEF SharedTypes
  <2>4. RepositoryIsSound'
    BY <1>1, <1>6, <2>1, <2>3 DEF RepositoryIsSound, SoundExport
  <2>5. CallInv(c, C, notebook, shared)
    BY DEF PrepareInv
  <2>6. CallInv(c, Changed(C, Failed(c, why, {}, {})), notebook', shared')
    <3>1. why \in PrepareFailures /\ why # "spec_budget" /\ {} \in SUBSET Values
      BY DEF PrepareFailures
    <3>2. \A v \in Versions : shared'.holder[v] # c
      BY <2>2, <2>3
    <3> QED
      BY <2>1, <2>5, <3>1, <3>2, FailedIsSound
  <2> QED
    BY <1>6, <1>8, <2>1, <2>2, <2>3, <2>4, <2>6, CallMoves
<1>9. CASE /\ IndexFits(Projected(Wanted(c), leased))
           /\ Update(c, [pc |-> "missing", leased |-> leased, target |-> 0, captured |-> captured])
           /\ shared' = [shared EXCEPT !.states = new]
           /\ notebook' = notebook
  <2>1. /\ shared' \in SharedTypes /\ shared'.states = new
        /\ shared'.exports = shared.exports /\ shared'.holder = shared.holder
    BY <1>1, <1>6, <1>9 DEF SharedTypes
  <2>2. RepositoryIsSound'
    BY <1>1, <1>6, <1>9, <2>1 DEF RepositoryIsSound, SoundExport
  <2>3. Fingerprints(C.relation) \subseteq leased => IndexBytes(C.relation) <= notebook.limit
    BY <1>3, <1>9, MeasuredIsExact DEF IndexFits, Wanted
  <2>4. leased \subseteq Fingerprints(C.relation) /\ captured \subseteq leased
    BY <1>1, <1>2, <1>3 DEF CallHasStates, WithStates
  <2>5. \A v \in leased : IsPrepared(C, shared', v)
    BY <1>1, <1>2, <1>5, <1>6, <2>1 DEF CallHasStates, WithStates, IsPrepared
  <2>6. \A v \in captured : IsCapturedBy(c, C, shared', v)
    BY <1>1, <1>2, <1>5, <1>6, <2>1 DEF CallHasStates, WithStates, IsCapturedBy
  <2>7. leased \subseteq Values /\ captured \subseteq Values
    BY <1>3
  <2> HIDE DEF leased, captured
  <2> DEFINE F == [pc |-> "missing", leased |-> leased, target |-> 0, captured |-> captured]
             D == Changed(C, F)
  <2>8. \A f \in CallFields \cap DOMAIN F : F[f] \in CallTypes[f]
    BY <2>7 DEF CallTypes, CallFields, PreparePcs
  <2>9. IsCall(D) /\ \A f \in CallFields : D[f] = IF f \in DOMAIN F THEN F[f] ELSE C[f]
    BY <1>1, <2>8, ChangedCall
  <2> HIDE DEF D
  <2>10. /\ D.kind = C.kind /\ D.producer = C.producer /\ D.repository = C.repository
         /\ D.pc = "missing" /\ D.artifact = C.artifact /\ D.seen = C.seen
         /\ D.relation = C.relation /\ D.captured = captured /\ D.leased = leased
         /\ D.failure = C.failure /\ D.loose = C.loose
    BY <2>9 DEF CallFields
  <2>11. CallAdvances(c, D, notebook', shared')
    BY <1>1, <1>2, <2>10, <1>9, <2>1
    DEF CallAdvances, UnderWay, WithStates, MayHold, HasSeen, LiveKinds, PlanKinds
  <2>12. CallHasStates(c, D, notebook', shared')
    BY <1>1, <1>2, <2>10, <1>3, <1>9, <2>3, <2>4, <2>5, <2>6
    DEF CallHasStates, UnderWay, WithStates, LiveKinds, IsPrepared, IsCapturedBy
  <2>13. CallHasExport(c, D, notebook', shared')
    BY <1>1, <1>2, <2>10, <1>9 DEF CallHasExport
  <2>14. CallFailed(D, notebook')
    BY <1>1, <1>2, <2>10, <1>9 DEF CallFailed
  <2>15. CallInv(c, Changed(C, F), notebook', shared')
    BY <2>9, <2>11, <2>12, <2>13, <2>14 DEF CallInv, D
  <2> QED
    BY <1>1, <1>6, <1>9, <2>15, <2>1, <2>2, CallMoves
<1> QED
  BY <1>7, <1>8, <1>9 DEF CommitState, new, leased, captured

\* The export is installed: of one version, that of its identity.
LEMMA InstallKeeps ==
    ASSUME PrepareInv, NEW c \in PrepareCalls, InstallExport(c)
    PROVE  PrepareInv'
<1> DEFINE C == calls[c]
<1>1. /\ IsCall(C) /\ notebook \in NotebookTypes /\ CallAdvances(c, C, notebook, shared)
      /\ CallHasStates(c, C, notebook, shared) /\ CallHasExport(c, C, notebook, shared)
      /\ CallFailed(C, notebook) /\ notebook.limit \in Nat
      /\ shared \in SharedTypes /\ RepositoryIsSound
  BY CallFacts
<1>2. C.pc = "install"
  BY DEF InstallExport, CallAt
<1> DEFINE export == NewExport(c)
           exports == (shared.exports \ CurrentExport(C.producer)) \cup {export}
           reusable == ReusedStates(c)
<1>3. /\ C.producer \in Versions /\ C.relation \in Relations /\ C.producer \in C.seen
      /\ Fingerprints(C.relation) \subseteq C.leased /\ C.captured \subseteq C.leased
      /\ C.leased \subseteq Fingerprints(C.relation)
      /\ IndexBytes(C.relation) <= notebook.limit
      /\ C.kind \notin PlanKinds
      /\ \A v \in C.leased : IsPrepared(C, shared, v)
      /\ \A v \in C.captured : IsCapturedBy(c, C, shared, v)
  BY <1>1, <1>2 DEF CallHasStates, CallAdvances, UnderWay, WithStates
<1>4. reusable \subseteq Values /\ C.captured \cup reusable = Fingerprints(C.relation)
      /\ C.captured \cap reusable = {}
  BY <1>3, FingerprintFacts DEF ReusedStates, Wanted
<1>5. export.producer = C.producer /\ export.relation = C.relation
  BY DEF NewExport
<1>6. export.versions = {C.producer}
  <2> DEFINE T == {t \in StatesOf(C.producer) : t.value \in Wanted(c)}
  <2>1. export.versions = {s.version : s \in T}
    BY DEF NewExport
  <2>2. \A s \in T : s.version = C.producer
    BY <1>1 DEF StatesOf, RepositoryIsSound
  <2>3. T # {}
    <3>1. PICK v : v \in Fingerprints(C.relation)
      BY <1>3, FingerprintFacts
    <3>2. PICK s \in shared.states : s.producer = C.producer /\ s.value = v
      BY <1>3, <3>1 DEF IsPrepared
    <3> QED
      BY <3>1, <3>2 DEF StatesOf, Wanted
  <2> QED
    BY <2>1, <2>2, <2>3
<1>7. SoundExport(export, notebook.limit)
  <2>1. export = [producer |-> C.producer, relation |-> C.relation, versions |-> export.versions]
    BY DEF NewExport
  <2>2. export \in Exports
    BY <1>3, <1>6, <2>1 DEF Exports
  <2> QED
    BY <1>3, <1>5, <1>6, <2>2 DEF SoundExport
<1> HIDE DEF export
<1>8. /\ \A e \in exports : SoundExport(e, notebook.limit)
      /\ \A e, f \in exports : e.producer = f.producer => e = f
      /\ exports \subseteq Exports
  <2>1. \A e \in shared.exports \ CurrentExport(C.producer) : e.producer # C.producer
    BY DEF CurrentExport
  <2>2. exports \subseteq Exports
    BY <1>1, <1>7 DEF SharedTypes, SoundExport
  <2>3. \A e \in exports : SoundExport(e, notebook.limit)
    BY <1>1, <1>7 DEF RepositoryIsSound
  <2> QED
    BY <1>1, <1>5, <2>1, <2>2, <2>3 DEF RepositoryIsSound
<1> HIDE DEF exports, reusable
<1>9. /\ Released(c) \in SharedTypes /\ Released(c).states = shared.states
      /\ Released(c).exports = shared.exports
      /\ \A v \in Versions : Released(c).holder[v] # c
      /\ \A v \in Versions, d \in PrepareCalls : Released(c).holder[v] = d => shared.holder[v] = d
  BY <1>1, ReleasedFacts
<1>10. ASSUME Trouble(notebook') \/ notebook' = notebook,
              shared' = [Released(c) EXCEPT !.exports = exports]
       PROVE  /\ notebook' \in NotebookTypes /\ notebook'.limit = notebook.limit
              /\ notebook'.saved = notebook.saved /\ notebook'.live = notebook.live
              /\ shared' \in SharedTypes /\ shared'.states = shared.states
              /\ shared'.exports = exports /\ shared'.holder = Released(c).holder
              /\ RepositoryIsSound'
  <2>1. /\ notebook' \in NotebookTypes /\ notebook'.limit = notebook.limit
        /\ notebook'.saved = notebook.saved /\ notebook'.live = notebook.live
    BY <1>1, <1>10, TroubleFacts
  <2>2. /\ shared' \in SharedTypes /\ shared'.states = shared.states
        /\ shared'.exports = exports /\ shared'.holder = Released(c).holder
    BY <1>8, <1>9, <1>10 DEF SharedTypes
  <2>3. RepositoryIsSound'
    BY <1>1, <1>8, <2>1, <2>2 DEF RepositoryIsSound, SoundExport
  <2> QED
    BY <2>1, <2>2, <2>3
<1>11. CASE RefuseCall(c, "fence")
  BY <1>11, CallRefused DEF PrepareFailures
<1>12. CASE /\ Trouble(notebook') /\ Update(c, Failed(c, "raised", {}, {export}))
            /\ shared' = [Released(c) EXCEPT !.exports = exports]
  <2>1. CallInv(c, C, notebook, shared)
    BY DEF PrepareInv
  <2>2. "raised" \in PrepareFailures /\ "raised" # "spec_budget" /\ {} \in SUBSET Values
    BY DEF PrepareFailures
  <2>3. \A v \in Versions : shared'.holder[v] # c
    BY <1>9, <1>10, <1>12
  <2>4. CallInv(c, Changed(C, Failed(c, "raised", {}, {export})), notebook', shared')
    BY <1>10, <1>12, <2>1, <2>2, <2>3, FailedIsSound
  <2> QED
    BY <1>9, <1>10, <1>12, <2>4, CallMoves
<1>13. CASE /\ notebook' = notebook
            /\ Update(c, [pc |-> "returned", artifact |-> {export}, leased |-> {},
                          reusable |-> reusable])
            /\ shared' = [Released(c) EXCEPT !.exports = exports]
  <2> DEFINE F == [pc |-> "returned", artifact |-> {export}, leased |-> {}, reusable |-> reusable]
             D == Changed(C, F)
  <2>1. \A f \in CallFields \cap DOMAIN F : F[f] \in CallTypes[f]
    BY <1>4, <1>7 DEF CallTypes, CallFields, PreparePcs, SoundExport
  <2>2. IsCall(D) /\ \A f \in CallFields : D[f] = IF f \in DOMAIN F THEN F[f] ELSE C[f]
    BY <1>1, <2>1, ChangedCall
  <2> HIDE DEF D
  <2>3. /\ D.kind = C.kind /\ D.producer = C.producer /\ D.repository = C.repository
        /\ D.pc = "returned" /\ D.artifact = {export} /\ D.seen = C.seen
        /\ D.relation = C.relation /\ D.reusable = reusable
        /\ D.captured = C.captured /\ D.leased = {}
        /\ D.failure = C.failure /\ D.loose = C.loose
    BY <2>2 DEF CallFields
  <2>4. CallAdvances(c, D, notebook', shared')
    BY <1>1, <1>2, <2>3, <1>3, <1>9, <1>10, <1>13
    DEF CallAdvances, UnderWay, WithStates, MayHold, HasSeen, LiveKinds, PlanKinds
  <2>5. CallHasStates(c, D, notebook', shared')
    BY <1>1, <1>2, <2>3, <1>13 DEF CallHasStates, UnderWay, WithStates, LiveKinds
  <2>6. CallHasExport(c, D, notebook', shared')
    BY <1>1, <1>2, <2>3, <1>3, <1>4, <1>5, <1>7, <1>10, <1>13
    DEF CallHasExport, IsCapturedBy
  <2>7. CallFailed(D, notebook')
    BY <1>1, <1>2, <2>3, <1>13 DEF CallFailed
  <2>8. CallInv(c, Changed(C, F), notebook', shared')
    BY <2>2, <2>4, <2>5, <2>6, <2>7 DEF CallInv, D
  <2> QED
    BY <1>9, <1>10, <1>13, <2>8, CallMoves
<1> QED
  BY <1>9, <1>11, <1>12, <1>13 DEF InstallExport, export, exports, reusable

\* The notebook is edited: what each call has seen of it grows.
LEMMA EditKeeps ==
    ASSUME PrepareInv, EditNotebook
    PROVE  PrepareInv'
<1>1. PICK saved \in Versions, live \in Versions, ui \in Values : Edited(saved, live, ui)
  <2>1. notebook.saved \in Versions /\ notebook.live \in Versions /\ notebook.ui \in Values
    BY DEF PrepareInv, NotebookTypes
  <2> QED
    BY <2>1 DEF EditNotebook
<1>2. notebook \in NotebookTypes /\ shared \in SharedTypes /\ RepositoryIsSound
      /\ DOMAIN calls = PrepareCalls
  BY DEF PrepareInv
<1>3. /\ notebook' = [notebook EXCEPT !.saved = saved, !.live = live, !.ui = ui,
                                      !.edits = notebook.edits + 1]
      /\ notebook.edits < MaxNotebookEdits /\ shared' = shared
  BY <1>1 DEF Edited
<1>4. /\ notebook' \in NotebookTypes /\ notebook'.limit = notebook.limit
      /\ notebook'.saved = saved /\ notebook'.live = live
  <2>1. MaxNotebookEdits \in Nat
    BY PrepareAssumption DEF PrepareAssumption
  <2>2. notebook.edits + 1 \in 0..MaxNotebookEdits
    BY <1>2, <1>3, <2>1 DEF NotebookTypes
  <2> QED
    BY <1>2, <1>3, <2>2 DEF NotebookTypes
<1>5. RepositoryIsSound'
  BY <1>2, <1>3, <1>4, RepositoryStaysSound
<1>6. DOMAIN calls' = PrepareCalls
  BY <1>1 DEF Edited
<1>7. ASSUME NEW c \in PrepareCalls PROVE CallInv(c, calls'[c], notebook', shared')
  <2> DEFINE C == calls[c]
             now == IF C.kind \in LiveKinds THEN live ELSE saved
             seen == IF C.seen = {} THEN C.seen ELSE C.seen \cup {now}
             D == [C EXCEPT !.seen = seen]
  <2>1. calls'[c] = D
    BY <1>1 DEF Edited, IsLive, LiveKinds
  <2>2. /\ IsCall(C) /\ CallAdvances(c, C, notebook, shared)
        /\ CallHasStates(c, C, notebook, shared) /\ CallHasExport(c, C, notebook, shared)
        /\ CallFailed(C, notebook)
    BY CallFacts, <1>7
  <2>3. seen \subseteq Versions
    BY <2>2, CallFieldTypes
  <2>4. /\ C.seen \subseteq seen /\ (seen # {} => C.seen # {} /\ now \in seen)
    OBVIOUS
  <2>5. now = IF C.kind \in LiveKinds THEN notebook'.live ELSE notebook'.saved
    BY <1>4
  <2> HIDE DEF seen, now
  <2>6. /\ DOMAIN D = CallFields /\ D.seen = seen
        /\ \A f \in CallFields \ {"seen"} : D[f] = C[f]
    BY <2>2 DEF IsCall, CallFields
  <2> HIDE DEF D
  <2>7. IsCall(D)
    BY <2>2, <2>3, <2>6 DEF IsCall, CallTypes, CallFields
  <2>8. /\ D.kind = C.kind /\ D.producer = C.producer /\ D.repository = C.repository
        /\ D.pc = C.pc /\ D.artifact = C.artifact /\ D.target = C.target
        /\ D.relation = C.relation /\ D.captured = C.captured /\ D.leased = C.leased
        /\ D.opened = C.opened /\ D.reusable = C.reusable
        /\ D.failure = C.failure /\ D.loose = C.loose
    BY <2>6 DEF CallFields
  <2>9. CallAdvances(c, D, notebook', shared')
    BY <1>3, <2>2, <2>4, <2>5, <2>6, <2>8 DEF CallAdvances
  <2>10. CallHasStates(c, D, notebook', shared')
    BY <1>3, <1>4, <2>2, <2>8 DEF CallHasStates, IsPrepared, IsCapturedBy
  <2>11. CallHasExport(c, D, notebook', shared')
    BY <1>3, <1>4, <2>2, <2>8 DEF CallHasExport, IsCapturedBy
  <2>12. CallFailed(D, notebook')
    BY <1>4, <2>2, <2>8 DEF CallFailed
  <2> QED
    BY <2>1, <2>7, <2>9, <2>10, <2>11, <2>12 DEF CallInv
<1> QED
  BY <1>2, <1>3, <1>4, <1>5, <1>6, <1>7 DEF PrepareInv

LEMMA PrepareInvInit == PrepareInit => PrepareInv
<1> SUFFICES ASSUME PrepareInit PROVE PrepareInv
  OBVIOUS
<1>1. /\ CallKinds \subseteq [PrepareCalls -> PrepareKinds] /\ NoCall \notin PrepareCalls
      /\ Autorun \in Values /\ 1 \in Versions /\ IndexLimits \subseteq Nat
      /\ MaxNotebookEdits \in Nat /\ MaxCallTroubles \in Nat
  BY PrepareAssumption DEF PrepareAssumption, PrepareKinds
<1>2. notebook \in NotebookTypes
  BY <1>1 DEF PrepareInit, NotebookTypes
<1>3. /\ shared = [states |-> {}, exports |-> {}, holder |-> [v \in Versions |-> NoCall]]
      /\ shared \in SharedTypes
  BY DEF PrepareInit, SharedTypes
<1>4. RepositoryIsSound
  BY <1>3 DEF RepositoryIsSound
<1>5. PICK kind \in CallKinds : calls = [c \in PrepareCalls |-> NewCall(kind[c])]
  BY DEF PrepareInit
<1>6. ASSUME NEW c \in PrepareCalls PROVE CallInv(c, calls[c], notebook, shared)
  <2> DEFINE C == calls[c]
             k == kind[c]
  <2>1. C = NewCall(k) /\ k \in PrepareKinds
    BY <1>1, <1>5, <1>6
  <2> DEFINE no == FALSE
  <2>2. no \in BOOLEAN
    OBVIOUS
  <2>3. NewCall(k) =
          [kind |-> k, pc |-> "idle", repository |-> "none", producer |-> 0, opened |-> 0,
           relation |-> <<>>, reusable |-> {}, captured |-> {}, leased |-> {}, target |-> 0,
           artifact |-> {}, prior |-> {}, reused |-> no, cancelled |-> no,
           failure |-> "none", loose |-> {}, seen |-> {}]
    BY Zenon DEF NewCall
  <2> HIDE DEF no, k, C
  <2>4. IsCall(C)
    BY <2>1, <2>2, <2>3 DEF IsCall, CallTypes, CallFields, PreparePcs, PrepareFailures
  <2>5. /\ C.pc = "idle" /\ C.leased = {} /\ C.captured = {} /\ C.artifact = {} /\ C.seen = {}
        /\ C.failure = "none" /\ C.loose = {}
    BY <2>1, <2>3
  <2>6. \A v \in Versions : shared.holder[v] # c
    BY <1>1, <1>3, <1>6
  <2>7. CallAdvances(c, C, notebook, shared)
    BY <2>5, <2>6 DEF CallAdvances, UnderWay, WithStates, HasSeen
  <2>8. CallHasStates(c, C, notebook, shared)
    BY <2>5 DEF CallHasStates, WithStates
  <2>9. CallHasExport(c, C, notebook, shared)
    BY <2>5 DEF CallHasExport
  <2>10. CallFailed(C, notebook)
    BY <2>5 DEF CallFailed
  <2> QED
    BY <2>4, <2>7, <2>8, <2>9, <2>10 DEF CallInv, C
<1>7. DOMAIN calls = PrepareCalls
  BY <1>5
<1> QED
  BY <1>2, <1>3, <1>4, <1>6, <1>7 DEF PrepareInv

LEMMA PrepareInvNext == PrepareInv /\ [PrepareNext]_prepareVars => PrepareInv'
<1> SUFFICES ASSUME PrepareInv, [PrepareNext]_prepareVars PROVE PrepareInv'
  OBVIOUS
<1>1. ASSUME NEW c \in PrepareCalls,
             \/ Begin(c) \/ Inspect(c) \/ Current(c) \/ Reserve(c) \/ RecheckFile(c)
             \/ ReplanSession(c) \/ MatchSession(c)
      PROVE  PrepareInv'
  BY <1>1, BeginKeeps, InspectKeeps, CurrentKeeps, ReserveKeeps, RecheckKeeps, ReplanKeeps,
     MatchKeeps
<1>2. ASSUME NEW c \in PrepareCalls,
             \/ TakeExact(c) \/ OpenNotebook(c) \/ PlanFile(c) \/ LeaseStates(c)
             \/ StartState(c) \/ CaptureState(c) \/ GuardState(c)
      PROVE  PrepareInv'
  BY <1>2, TakeExactKeeps, OpenKeeps, PlanFileKeeps, LeaseKeeps, StartKeeps, CaptureKeeps,
     GuardKeeps
<1>3. ASSUME NEW c \in PrepareCalls,
             \/ CommitState(c) \/ Assemble(c) \/ InstallExport(c) \/ CancelCall(c)
             \/ LoseReservation(c) \/ CollectFrame(c) \/ ClosePrepared(c)
      PROVE  PrepareInv'
  BY <1>3, CommitKeeps, AssembleKeeps, InstallKeeps, CancelKeeps, LoseKeeps, CollectKeeps,
     CloseKeeps
<1>4. CASE EditNotebook
  BY <1>4, EditKeeps
<1>5. CASE UNCHANGED prepareVars
  BY <1>5 DEF prepareVars, PrepareInv, RepositoryIsSound, SoundExport
<1> QED
  BY <1>1, <1>2, <1>3, <1>4, <1>5 DEF PrepareNext

\* The inductive invariant of the calls that prepare exports: what each has reserved,
\* leased, captured and seen of the notebook (prepare_export.py, capture_export.py).
THEOREM PrepareInvariant == PrepareSpec => []PrepareInv
<1> QED
  BY PrepareInvInit, PrepareInvNext, PTL DEF PrepareSpec

\* The types of the calls, the notebook and the repository.
THEOREM PrepareTypesHold == PrepareSpec => []PrepareTypeOK
<1>1. PrepareInv => PrepareTypeOK
  <2> SUFFICES ASSUME PrepareInv PROVE PrepareTypeOK
    OBVIOUS
  <2>1. notebook \in NotebookTypes /\ shared \in SharedTypes
    BY DEF PrepareInv
  <2>2. /\ {notebook.saved, notebook.live} \subseteq Versions /\ notebook.ui \in Values
        /\ notebook.edits \in 0..MaxNotebookEdits /\ notebook.troubles \in 0..MaxCallTroubles
    BY <2>1 DEF NotebookTypes
  <2>3. /\ shared.holder \in [Versions -> PrepareCalls \cup {NoCall}]
        /\ shared.states \subseteq [producer : Versions, value : Values, version : Versions,
                                    by : PrepareCalls]
    BY <2>1 DEF SharedTypes, PreparedStates
  <2>4. DOMAIN NewCall("file") = CallFields
    BY DEF NewCall, CallFields
  <2>5. ASSUME NEW c \in PrepareCalls
        PROVE  /\ DOMAIN calls[c] = DOMAIN NewCall("file")
               /\ calls[c].producer \in Versions \cup {0}
               /\ calls[c].leased \subseteq Values /\ Cardinality(calls[c].artifact) <= 1
    <3>1. IsCall(calls[c]) /\ CallHasExport(c, calls[c], notebook, shared)
      BY CallFacts
    <3>2. \E e : calls[c].artifact = {} \/ calls[c].artifact = {e}
      BY <3>1 DEF CallHasExport
    <3>3. Cardinality(calls[c].artifact) \in {0, 1}
      <4>1. CASE calls[c].artifact = {}
        BY <4>1, FS_EmptySet
      <4>2. CASE calls[c].artifact # {}
        BY <3>2, <4>2, FS_Singleton
      <4> QED
        BY <4>1, <4>2
    <3>4. DOMAIN calls[c] = CallFields
      BY <3>1 DEF IsCall
    <3> QED
      BY <2>4, <3>1, <3>3, <3>4, CallFieldTypes
  <2> QED
    BY <2>2, <2>3, <2>5 DEF PrepareTypeOK
<1> QED
  BY <1>1, PrepareInvariant, PTL

\* In a state of the invariant.
LEMMA PreparedIsSound == PrepareInv => PreparedExportIsSound
<1> SUFFICES ASSUME PrepareInv PROVE PreparedExportIsSound
  OBVIOUS
<1>1. /\ notebook \in NotebookTypes /\ RepositoryIsSound /\ notebook.limit \in Nat
      /\ \A c \in PrepareCalls :
           /\ IsCall(calls[c]) /\ CallAdvances(c, calls[c], notebook, shared)
           /\ CallHasStates(c, calls[c], notebook, shared)
           /\ CallHasExport(c, calls[c], notebook, shared) /\ CallFailed(calls[c], notebook)
  BY PrepareAssumption DEF PrepareInv, CallInv, NotebookTypes, PrepareAssumption
<1>2. RepositoryHoldsOneVersion
  BY <1>1 DEF RepositoryIsSound, SoundExport, RepositoryHoldsOneVersion
<1>3. ReturnedExportIsCurrent
  <2> SUFFICES ASSUME NEW c \in PrepareCalls, HasReturned(c), NEW e \in calls[c].artifact
               PROVE  /\ e.producer = calls[c].producer /\ e.relation = calls[c].relation
                      /\ calls[c].producer \in calls[c].seen
                      /\ calls[c].captured \cup calls[c].reusable = Wanted(c)
                      /\ calls[c].captured \cap calls[c].reusable = {}
                      /\ \A v \in calls[c].captured :
                           \E s \in shared.states :
                               s.producer = e.producer /\ s.value = v /\ s.by = c
    BY DEF ReturnedExportIsCurrent
  <2>1. calls[c].pc = "returned" /\ calls[c].kind \notin PlanKinds
    BY DEF HasReturned, CallAt, Plans, PlanKinds
  <2>2. /\ e.producer = calls[c].producer /\ e.relation = calls[c].relation
        /\ calls[c].captured \cup calls[c].reusable = Wanted(c)
        /\ calls[c].captured \cap calls[c].reusable = {}
        /\ \A v \in calls[c].captured : IsCapturedBy(c, calls[c], shared, v)
    BY <1>1, <2>1 DEF CallHasExport, Wanted
  <2>3. calls[c].producer \in calls[c].seen
    BY <1>1, <2>1 DEF CallAdvances
  <2> QED
    BY <2>2, <2>3 DEF IsCapturedBy
<1>4. FailedCallKeepsNothing
  <2>1. ASSUME NEW c \in PrepareCalls, calls[c].pc \in {"failed", "returned", "closed"}
        PROVE  /\ calls[c].leased = {}
               /\ \A v \in Versions : shared.holder[v] # c
               /\ calls[c].repository =
                    IF OpensRepository[c] /\ ~HasReturned(c) THEN "closed" ELSE "open"
               /\ Cardinality(calls[c].artifact) = IF HasReturned(c) THEN 1 ELSE 0
    <3>1. HasReturned(c) <=> calls[c].pc = "returned" /\ calls[c].kind \notin PlanKinds
      BY DEF HasReturned, CallAt, Plans, PlanKinds
    <3>2. calls[c].leased = {}
      BY <1>1, <2>1 DEF CallHasStates, WithStates
    <3>3. \A v \in Versions : shared.holder[v] # c
      BY <1>1, <2>1 DEF CallAdvances, MayHold, WithStates
    <3>4. calls[c].repository = IF OpensRepository[c] /\ ~HasReturned(c) THEN "closed" ELSE "open"
      BY <1>1, <2>1, <3>1 DEF CallAdvances, RepositoryAfter
    <3>5. CASE HasReturned(c)
      <4>1. \E e : calls[c].artifact = {e}
        BY <1>1, <3>1, <3>5 DEF CallHasExport
      <4>2. Cardinality(calls[c].artifact) = 1
        BY <4>1, FS_Singleton
      <4> QED
        BY <3>2, <3>3, <3>4, <3>5, <4>2
    <3>6. CASE ~HasReturned(c)
      <4>1. calls[c].artifact = {}
        BY <1>1, <2>1, <3>1, <3>6 DEF CallHasExport
      <4>2. Cardinality(calls[c].artifact) = 0
        BY <4>1, FS_EmptySet
      <4> QED
        BY <3>2, <3>3, <3>4, <3>6, <4>2
    <3> QED
      BY <3>5, <3>6
  <2>2. \A c \in PrepareCalls : calls[c].loose # {} => calls[c].failure = "raised"
    BY <1>1 DEF CallFailed
  <2> QED
    BY <2>1, <2>2 DEF FailedCallKeepsNothing
<1>5. BudgetIsALowerBound
  <2> SUFFICES ASSUME NEW c \in PrepareCalls
               PROVE  /\ calls[c].failure = "spec_budget" =>
                           \A v \in Values : ~IndexFits(IndexBytes(Relation(v)))
                      /\ HasReturned(c) => IndexFits(IndexBytes(calls[c].relation))
    BY DEF BudgetIsALowerBound
  <2>1. ASSUME calls[c].failure = "spec_budget", NEW v \in Values
        PROVE  ~IndexFits(IndexBytes(Relation(v)))
    <3>1. IndexBytes(Relation(v)) > notebook.limit
      BY <1>1, <2>1 DEF CallFailed
    <3>2. IndexBytes(Relation(v)) \in Nat
      BY RelationTypes, SizeFacts
    <3> QED
      BY <1>1, <3>1, <3>2 DEF IndexFits
  <2>2. ASSUME HasReturned(c) PROVE IndexFits(IndexBytes(calls[c].relation))
    <3>1. calls[c].pc = "returned" /\ calls[c].kind \notin PlanKinds
      BY <2>2 DEF HasReturned, CallAt, Plans, PlanKinds
    <3>2. PICK e \in calls[c].artifact :
            SoundExport(e, notebook.limit) /\ e.relation = calls[c].relation
      BY <1>1, <3>1 DEF CallHasExport
    <3> QED
      BY <3>2 DEF SoundExport, IndexFits
  <2> QED
    BY <2>1, <2>2
<1> QED
  BY <1>2, <1>3, <1>4, <1>5 DEF PreparedExportIsSound

\* For any calls, spec, versions, limits, edits and failures: the repository never has
\* a state or an export of another version than its identity's, a returned export is
\* the planned one of a notebook that was that version after its last capture, a call
\* that ended holds nothing else, and the index budget refuses only what cannot fit.
THEOREM PreparedExportHolds == PrepareSpec => []PreparedExportIsSound
<1> QED
  BY PreparedIsSound, PrepareInvariant, PTL

USE PublicationAssumption

-----------------------------------------------------------------------------
(* The controller: the inductive invariants *)

TypeInv == TypeOK /\ (Closed => timer = NoTimer)

\* Works are started in the order of their tokens; each is among those that a
\* newer one cancels until it has ended.
WorksAreKnown ==
    \A t \in Tokens :
        /\ t > nextToken => work[t].pc = "none"
        /\ work[t].pc \notin {"none", "done"} => t \in Working /\ work[t].key \in Keys
        /\ t \in Candidates => publication[t].key = work[t].key

\* What a key shows has been committed, and is not newer than what is desired.
CurrentIsCommitted ==
    \A k \in Keys :
        current[k] # 0 =>
            /\ work[current[k]].pc = "done"
            /\ publication[current[k]].key = k
            /\ current[k] <= desired[Group[k]]

\* A group shows at most one publication.
OneIsShown ==
    \A j, k \in Keys :
        Group[j] = Group[k] /\ current[j] # 0 /\ current[k] # 0 => j = k

\* What is in route grace is no longer shown, and still has its key.
RetiredIsReplaced ==
    \A t \in Retired :
        /\ work[t].pc = "done"
        /\ publication[t].key \in Keys
        /\ \A k \in Keys : current[k] # t

DesiredIsStarted == \A g \in Groups : desired[g] <= nextToken

\* PublicationsAccounted, token by token
OpenIsNeeded ==
    \A t \in Tokens :
        publication[t].state = "open" <=>
            (\E k \in Keys : current[k] = t) \/ t \in Retired \/ t \in Candidates

PublicationInv ==
    /\ WorksAreKnown
    /\ CurrentIsCommitted
    /\ OneIsShown
    /\ RetiredIsReplaced
    /\ DesiredIsStarted
    /\ OpenIsNeeded

\* close waits for every work and refresh that uses the repository, and
\* afterwards there are none, and no publications either.
ClosingIsComplete ==
    /\ closing = "gathering" =>
           /\ \A t \in Tokens : work[t].pc \notin {"none", "done"} => t \in awaited.work
           /\ \A k \in Keys : refresh[k].pc \in {"predicate", "answered", "preparing"}
                                  => k \in awaited.refresh
    /\ closing \in {"repository", "closed"} =>
           /\ \A t \in Tokens : work[t].pc \in {"none", "done"}
           /\ \A k \in Keys : refresh[k].pc = "none"
           /\ Shown = {}
    /\ repository = "closed" => closing = "closed"

\* A refresh knows what its group desired at the poll; what the application
\* decides later is another token, or none.
RefreshIsDated ==
    \A k \in Keys :
        refresh[k].pc \in {"queued", "predicate", "answered"} =>
            /\ refresh[k].desired # 0
            /\ refresh[k].desired <= nextToken
            /\ refresh[k].outdated =>
                   desired[Group[k]] = 0 \/ desired[Group[k]] > refresh[k].desired

-----------------------------------------------------------------------------
(* Operators *)

LEMMA NullRecords ==
    /\ NoPublication \in PublicationSet /\ ClosedPublication \in PublicationSet
    /\ ClosedPublication.state = "closed"
    /\ NoWork \in WorkSet /\ NoWork.pc = "none" /\ NoWork.caller = "none"
    /\ Returned \in WorkSet /\ Returned.pc = "done"
    /\ NoRefresh \in RefreshSet /\ NoRefresh.pc = "none"
<1>1. NoPublication \in PublicationSet
  BY DEF NoPublication, PublicationSet
<1>2. ClosedPublication \in PublicationSet /\ ClosedPublication.state = "closed"
  BY DEF NoPublication, ClosedPublication, PublicationSet
<1>3. NoWork \in WorkSet /\ NoWork.pc = "none" /\ NoWork.caller = "none"
  BY DEF NoWork, WorkSet
<1>4. Returned \in WorkSet /\ Returned.pc = "done"
  BY <1>3 DEF Returned, NoWork, WorkSet
<1>5. NoRefresh \in RefreshSet /\ NoRefresh.pc = "none"
  BY DEF NoRefresh, RefreshSet, TokenOrNone
<1> QED
  BY <1>1, <1>2, <1>3, <1>4, <1>5

LEMMA CancelledFields ==
    ASSUME NEW w \in WorkSet
    PROVE  /\ Cancelled(w) \in WorkSet
           /\ Cancelled(w).pc = w.pc /\ Cancelled(w).key = w.key
           /\ Cancelled(w).caller = w.caller
<1>1. (w.interrupted \/ w.pc = "admission") \in BOOLEAN
  BY DEF WorkSet
<1> QED
  BY <1>1 DEF Cancelled, WorkSet

LEMMA CancelledInFields ==
    ASSUME TypeOK, NEW tokens
    PROVE  /\ CancelledIn(tokens) \in [Tokens -> WorkSet]
           /\ \A t \in Tokens : /\ CancelledIn(tokens)[t].pc = work[t].pc
                                /\ CancelledIn(tokens)[t].key = work[t].key
                                /\ CancelledIn(tokens)[t].caller = work[t].caller
<1>1. \A t \in Tokens : work[t] \in WorkSet
  BY DEF TypeOK
<1> QED
  BY <1>1, CancelledFields DEF CancelledIn

LEMMA ClosedByType ==
    ASSUME TypeOK, NEW tokens
    PROVE  ClosedBy(tokens) \in [Tokens -> PublicationSet]
BY NullRecords DEF ClosedBy, TypeOK

LEMMA OutdatedInFields ==
    ASSUME TypeOK, NEW g
    PROVE  /\ OutdatedIn(g) \in [Keys -> RefreshSet]
           /\ \A k \in Keys :
                  /\ OutdatedIn(g)[k].pc = refresh[k].pc
                  /\ OutdatedIn(g)[k].desired = refresh[k].desired
                  /\ Group[k] # g => OutdatedIn(g)[k] = refresh[k]
<1>1. \A k \in Keys : refresh[k] \in RefreshSet
  BY DEF TypeOK
<1>2. ASSUME NEW r \in RefreshSet
      PROVE  /\ [r EXCEPT !.outdated = TRUE] \in RefreshSet
             /\ [r EXCEPT !.outdated = TRUE].pc = r.pc
             /\ [r EXCEPT !.outdated = TRUE].desired = r.desired
  BY DEF RefreshSet
<1> QED
  BY <1>1, <1>2 DEF OutdatedIn

Deadline == Nat \cup {NotRetired}

LEMMA PruneFields ==
    ASSUME NEW deadlines \in [Tokens -> Deadline],
           NEW publications \in [Tokens -> PublicationSet],
           Prune(deadlines, publications), UNCHANGED closing
    PROVE  /\ publication' \in [Tokens -> PublicationSet]
           /\ deadline' \in [Tokens -> Deadline]
           /\ timer' \in {deadline'[t] : t \in Retired'} \cup {NoTimer}
           /\ Closed' => timer' = NoTimer
           /\ \A t \in Tokens :
                  /\ publication'[t] = IF deadlines[t] = 0 THEN ClosedPublication
                                                           ELSE publications[t]
                  /\ t \in Retired' <=> deadlines[t] \notin {0, NotRetired}
<1>1. publication' \in [Tokens -> PublicationSet]
  BY NullRecords DEF Prune
<1>2. deadline' \in [Tokens -> Deadline]
  BY DEF Prune, Deadline
<1>3. timer' \in {deadline'[t] : t \in Retired'} \cup {NoTimer} /\ (Closed' => timer' = NoTimer)
  BY DEF Prune, Schedule, Closed
<1>4. \A t \in Tokens :
          /\ publication'[t] = IF deadlines[t] = 0 THEN ClosedPublication ELSE publications[t]
          /\ t \in Retired' <=> deadlines[t] \notin {0, NotRetired}
  BY DEF Prune, Retired, NotRetired
<1> QED
  BY <1>1, <1>2, <1>3, <1>4

LEMMA StartWorkFields ==
    ASSUME TypeOK, NEW k \in Keys, NEW by \in {"application", "refresh"}, StartWork(k, by)
    PROVE  /\ work' \in [Tokens -> WorkSet]
           /\ nextToken + 1 \in Tokens /\ nextToken' = nextToken + 1
           /\ desired' \in [Groups -> TokenOrNone]
           /\ desired' = [desired EXCEPT ![Group[k]] = nextToken + 1]
           /\ \A t \in Tokens : t # nextToken + 1 =>
                  /\ work'[t].pc = work[t].pc
                  /\ work'[t].key = work[t].key
                  /\ work'[t].caller = work[t].caller
           /\ work'[nextToken + 1].pc = "queued"
           /\ work'[nextToken + 1].key = k
           /\ work'[nextToken + 1].caller = "waiting"
<1> DEFINE w == [NoWork EXCEPT !.pc = "queued", !.key = k, !.caller = "waiting", !.by = by]
           others == CancelledIn(WorkingOn(Group[k]))
<1>1. nextToken + 1 \in Tokens /\ nextToken' = nextToken + 1
  BY DEF StartWork, TypeOK, TokenOrNone, Tokens
<1>2. w \in WorkSet /\ w.pc = "queued" /\ w.key = k /\ w.caller = "waiting"
  BY DEF WorkSet, NoWork
<1>3. others \in [Tokens -> WorkSet]
  BY CancelledInFields
<1>4. work' = [others EXCEPT ![nextToken + 1] = w]
  BY DEF StartWork
<1>5. \A t \in Tokens : /\ others[t].pc = work[t].pc /\ others[t].key = work[t].key
                        /\ others[t].caller = work[t].caller
  BY CancelledInFields
<1>6. desired' = [desired EXCEPT ![Group[k]] = nextToken + 1]
  BY DEF StartWork
<1>7. desired' \in [Groups -> TokenOrNone]
  BY <1>1, <1>6 DEF TypeOK, Tokens, TokenOrNone
<1> HIDE DEF w, others
<1> QED
  BY <1>1, <1>2, <1>3, <1>4, <1>5, <1>6, <1>7

-----------------------------------------------------------------------------
(* Type correctness *)

LEMMA TypeInit == Init => TypeInv
<1> SUFFICES ASSUME Init PROVE TypeInv
  OBVIOUS
<1>1. TypeOK
  BY NullRecords DEF Init, TypeOK, TokenOrNone
<1> QED
  BY <1>1 DEF Init, TypeInv

LEMMA WorkUpdate ==
    ASSUME TypeOK, NEW t \in Tokens, NEW w \in WorkSet
    PROVE  [work EXCEPT ![t] = w] \in [Tokens -> WorkSet]
BY DEF TypeOK

LEMMA RefreshUpdate ==
    ASSUME TypeOK, NEW k \in Keys, NEW r \in RefreshSet
    PROVE  [refresh EXCEPT ![k] = r] \in [Keys -> RefreshSet]
BY DEF TypeOK

\* A step of a work that leaves the timer alone
LEMMA FinishType ==
    ASSUME TypeOK, NEW t \in Tokens, NEW pc \in {"thread", "answered", "admission", "done"}
    PROVE  [work EXCEPT ![t].pc = pc] \in [Tokens -> WorkSet]
<1>1. [work[t] EXCEPT !.pc = pc] \in WorkSet
  BY SMTT(30) DEF TypeOK, WorkSet
<1>2. [work EXCEPT ![t].pc = pc] = [work EXCEPT ![t] = [work[t] EXCEPT !.pc = pc]]
  OBVIOUS
<1> QED
  BY <1>1, <1>2, WorkUpdate

LEMMA CommitFields ==
    ASSUME TypeOK, NEW t \in Tokens, Commit(t), UNCHANGED closing
    PROVE  /\ publication' \in [Tokens -> PublicationSet]
           /\ deadline' \in [Tokens -> Deadline]
           /\ timer' \in {deadline'[s] : s \in Retired'} \cup {NoTimer}
           /\ Closed' => timer' = NoTimer
           /\ current' \in [Keys -> TokenOrNone]
           /\ \A s \in Tokens :
                  /\ publication'[s] =
                         IF /\ s \notin RetiredFor(t)
                            /\ s \in Expired \cup CurrentOf(GroupOf(t))
                         THEN ClosedPublication ELSE publication[s]
                  /\ s \in Retired' <=> s \in RetiredFor(t) \cup (Retired \ Expired)
<1>1. current' \in [Keys -> TokenOrNone]
  BY DEF Commit, TypeOK, Tokens, TokenOrNone
<1>2. PICK last \in Deadlines :
          /\ \A d \in Deadlines : d <= last
          /\ Prune([s \in Tokens |-> IF s \in RetiredFor(t) THEN last + 1 ELSE deadline[s]],
                   ClosedBy(CurrentOf(GroupOf(t)) \ RetiredFor(t)))
  BY DEF Commit
<1> DEFINE deadlines == [s \in Tokens |-> IF s \in RetiredFor(t) THEN last + 1 ELSE deadline[s]]
           publications == ClosedBy(CurrentOf(GroupOf(t)) \ RetiredFor(t))
<1>3. last \in Nat
  BY <1>2 DEF Deadlines, TypeOK, NotRetired
<1>4. deadlines \in [Tokens -> Deadline]
  BY <1>3 DEF Deadline, TypeOK
<1>5. publications \in [Tokens -> PublicationSet]
  BY ClosedByType
<1>6. Prune(deadlines, publications)
  BY <1>2
<1>7. \A s \in Tokens :
          /\ s \in RetiredFor(t) => deadlines[s] \notin {0, NotRetired}
          /\ s \notin RetiredFor(t) => deadlines[s] = deadline[s]
          /\ publications[s] = IF s \in CurrentOf(GroupOf(t)) \ RetiredFor(t)
                               THEN ClosedPublication ELSE publication[s]
  BY <1>3 DEF ClosedBy, NotRetired
<1> HIDE DEF deadlines, publications
<1>8. /\ publication' \in [Tokens -> PublicationSet]
      /\ deadline' \in [Tokens -> Deadline]
      /\ timer' \in {deadline'[s] : s \in Retired'} \cup {NoTimer}
      /\ Closed' => timer' = NoTimer
      /\ \A s \in Tokens :
             /\ publication'[s] = IF deadlines[s] = 0 THEN ClosedPublication
                                                      ELSE publications[s]
             /\ s \in Retired' <=> deadlines[s] \notin {0, NotRetired}
  BY <1>4, <1>5, <1>6, PruneFields
<1>9. \A s \in Tokens :
          /\ publication'[s] =
                 IF s \notin RetiredFor(t) /\ s \in Expired \cup CurrentOf(GroupOf(t))
                 THEN ClosedPublication ELSE publication[s]
          /\ s \in Retired' <=> s \in RetiredFor(t) \cup (Retired \ Expired)
  BY <1>7, <1>8 DEF Expired, Retired
<1> QED
  BY <1>1, <1>8, <1>9
LEMMA WorkType ==
    ASSUME TypeInv, NEW t \in Tokens, Work(t)
    PROVE  TypeInv'
<1> USE DEF TypeInv, published, Finish
<1>w. work[t] \in WorkSet /\ publication[t] \in PublicationSet
  BY DEF TypeOK
<1>1. CASE WorkOpens(t)
  <2>1. work' \in [Tokens -> WorkSet]
    BY <1>1, FinishType DEF WorkOpens
  <2>2. UNCHANGED <<Retired, Closed>>
    BY <1>1 DEF WorkOpens, Retired, Closed
  <2> QED
    BY <1>1, <2>1, <2>2 DEF WorkOpens, TypeOK
<1>2. ASSUME NEW instance \in Instances, WorkAnswers(t, instance)
      PROVE  TypeInv'
  <2>1. [state |-> "open", key |-> work[t].key, instance |-> instance] \in PublicationSet
    BY <1>w DEF WorkSet, PublicationSet
  <2>2. publication' \in [Tokens -> PublicationSet]
    BY <1>2, <2>1 DEF WorkAnswers, TypeOK
  <2>3. UNCHANGED <<Retired, Closed>>
    BY <1>2 DEF WorkAnswers, Retired, Closed
  <2> QED
    BY <1>2, <2>2, <2>3, FinishType DEF WorkAnswers, TypeOK
<1>3. CASE WorkFails(t)
  BY <1>3, FinishType DEF WorkFails, TypeOK, Retired, Closed
<1>4. CASE StartAdmission(t)
  BY <1>4, FinishType DEF StartAdmission, TypeOK, Retired, Closed
<1>5. CASE CommitWork(t)
  <2>1. Commit(t) /\ UNCHANGED closing
    BY <1>5 DEF CommitWork
  <2>2. /\ publication' \in [Tokens -> PublicationSet]
        /\ deadline' \in [Tokens -> Nat \cup {NotRetired}]
        /\ timer' \in {deadline'[s] : s \in Retired'} \cup {NoTimer}
        /\ Closed' => timer' = NoTimer
        /\ current' \in [Keys -> TokenOrNone]
    BY <2>1, CommitFields DEF Deadline
  <2> QED
    BY <1>5, <2>2, FinishType DEF CommitWork, TypeOK
<1>6. CASE DiscardSuperseded(t) \/ DiscardRejected(t)
  <2>1. publication' \in [Tokens -> PublicationSet]
    BY <1>6, ClosedByType DEF DiscardSuperseded, DiscardRejected, Discard
  <2>2. UNCHANGED <<Retired, Closed>>
    BY <1>6 DEF DiscardSuperseded, DiscardRejected, Discard, Retired, Closed
  <2>3. work' \in [Tokens -> WorkSet]
    BY <1>6, FinishType DEF DiscardSuperseded, DiscardRejected
  <2>4. UNCHANGED <<current, deadline, timer, desired, nextToken, refresh, closing, awaited,
                    repository>>
    BY <1>6 DEF DiscardSuperseded, DiscardRejected, Discard
  <2> QED
    BY <2>1, <2>2, <2>3, <2>4 DEF TypeOK
<1>7. CASE CallerCancelled(t)
  <2>1. [Cancelled(work[t]) EXCEPT !.caller = "settling"] \in WorkSet
    BY <1>w, CancelledFields DEF WorkSet
  <2>2. work' \in [Tokens -> WorkSet]
    BY <1>7, <2>1, WorkUpdate DEF CallerCancelled
  <2> QED
    BY <1>7, <2>2 DEF CallerCancelled, TypeOK, Retired, Closed
<1>8. CASE CallerReturns(t)
  <2>1. work' \in [Tokens -> WorkSet]
    BY <1>8, NullRecords, WorkUpdate DEF CallerReturns
  <2>2. refresh' \in [Keys -> RefreshSet]
    <3>1. \A k \in Keys : [refresh[k] EXCEPT !.pc = "finished"] \in RefreshSet
      BY DEF TypeOK, RefreshSet
    <3> QED
      BY <1>8, <3>1 DEF CallerReturns, TypeOK
  <2> QED
    BY <1>8, <2>1, <2>2 DEF CallerReturns, TypeOK, Retired, Closed
<1> QED
  BY <1>1, <1>2, <1>3, <1>4, <1>5, <1>6, <1>7, <1>8 DEF Work

\* current, asset, poll and the timer prune what has expired.
LEMMA LookFields ==
    ASSUME TypeOK, Prune(deadline, publication), UNCHANGED closing
    PROVE  /\ publication' \in [Tokens -> PublicationSet]
           /\ deadline' \in [Tokens -> Nat \cup {NotRetired}]
           /\ timer' \in {deadline'[t] : t \in Retired'} \cup {NoTimer}
           /\ Closed' => timer' = NoTimer
           /\ \A t \in Tokens :
                  /\ publication'[t] = IF t \in Expired THEN ClosedPublication ELSE publication[t]
                  /\ t \in Retired' <=> t \in Retired \ Expired
<1>1. deadline \in [Tokens -> Deadline] /\ publication \in [Tokens -> PublicationSet]
  BY DEF TypeOK, Deadline
<1> QED
  BY <1>1, PruneFields DEF Deadline, Expired, Retired

LEMMA RefreshType ==
    ASSUME TypeInv, NEW k \in Keys, Refresh(k) \/ Prepare(k)
    PROVE  TypeInv'
<1> USE DEF TypeInv, published
<1>r. refresh[k] \in RefreshSet
  BY DEF TypeOK
<1>1. CASE Poll(k)
  <2>1. [NoRefresh EXCEPT !.pc = "queued", !.selected = current[k], !.desired = desired[Group[k]]]
            \in RefreshSet
    <3>1. current[k] \in TokenOrNone /\ desired[Group[k]] \in TokenOrNone
      BY DEF TypeOK
    <3>2. ASSUME NEW s \in TokenOrNone, NEW d \in TokenOrNone
          PROVE  [NoRefresh EXCEPT !.pc = "queued", !.selected = s, !.desired = d] \in RefreshSet
      <4>1. NoRefresh \in RefreshSet
        BY NullRecords
      <4> QED
        BY <4>1 DEF RefreshSet
    <3> QED
      BY <3>1, <3>2
  <2>2. refresh' \in [Keys -> RefreshSet]
    BY <1>1, <2>1, RefreshUpdate DEF Poll
  <2>3. Prune(deadline, publication) /\ UNCHANGED closing
    BY <1>1 DEF Poll
  <2> QED
    BY <1>1, <2>2, <2>3, LookFields DEF Poll, TypeOK
<1>2. CASE RefreshOpens(k)
  <2>1. [refresh[k] EXCEPT !.pc = "predicate"] \in RefreshSet
    BY <1>r DEF RefreshSet
  <2> QED
    BY <1>2, <2>1 DEF RefreshOpens, TypeOK, Retired, Closed
<1>3. CASE RefreshAnswers(k)
  <2>1. PICK stale \in BOOLEAN :
            refresh' = [refresh EXCEPT ![k] = [@ EXCEPT !.pc = "answered", !.stale = stale]]
    BY <1>3 DEF RefreshAnswers
  <2>2. [refresh[k] EXCEPT !.pc = "answered", !.stale = stale] \in RefreshSet
    BY <1>r DEF RefreshSet
  <2>3. refresh' \in [Keys -> RefreshSet]
    BY <2>1, <2>2, RefreshUpdate
  <2> QED
    BY <1>3, <2>3 DEF RefreshAnswers, TypeOK, Retired, Closed
<1>4. CASE RefreshPrepares(k)
  <2>1. StartWork(k, "refresh")
    BY <1>4 DEF RefreshPrepares
  <2>2. /\ work' \in [Tokens -> WorkSet] /\ desired' \in [Groups -> TokenOrNone]
        /\ nextToken' = nextToken + 1 /\ nextToken + 1 \in TokenOrNone
    BY <2>1, StartWorkFields, SMTT(30) DEF Tokens, TokenOrNone
  <2>3. [refresh[k] EXCEPT !.pc = "preparing", !.token = nextToken + 1] \in RefreshSet
    BY <1>r, <2>2 DEF RefreshSet
  <2>4. refresh' \in [Keys -> RefreshSet]
    BY <1>4, <2>3, RefreshUpdate DEF RefreshPrepares
  <2> QED
    BY <1>4, <2>2, <2>4 DEF RefreshPrepares, TypeOK, Retired, Closed
<1>5. CASE RefreshEnds(k)
  <2>1. [refresh[k] EXCEPT !.pc = "finished"] \in RefreshSet
    BY <1>r DEF RefreshSet
  <2> QED
    BY <1>5, <2>1 DEF RefreshEnds, TypeOK, Retired, Closed
<1>6. CASE RefreshFinished(k)
  <2>1. refresh' \in [Keys -> RefreshSet]
    BY <1>6, NullRecords, RefreshUpdate DEF RefreshFinished
  <2> QED
    BY <1>6, <2>1 DEF RefreshFinished, TypeOK, Retired, Closed
<1>7. CASE Prepare(k)
  <2>1. StartWork(k, "application")
    BY <1>7 DEF Prepare
  <2>2. /\ work' \in [Tokens -> WorkSet] /\ desired' \in [Groups -> TokenOrNone]
        /\ nextToken' = nextToken + 1 /\ nextToken + 1 \in TokenOrNone
    BY <2>1, StartWorkFields DEF Tokens, TokenOrNone
  <2>3. refresh' \in [Keys -> RefreshSet]
    BY <1>7, OutdatedInFields DEF Prepare
  <2> QED
    BY <1>7, <2>2, <2>3 DEF Prepare, TypeOK, Retired, Closed
<1> QED
  BY <1>1, <1>2, <1>3, <1>4, <1>5, <1>6, <1>7 DEF Refresh

LEMMA ReleaseFields ==
    ASSUME TypeOK, NEW k \in Keys, Release(k)
    PROVE  /\ publication' \in [Tokens -> PublicationSet]
           /\ deadline' \in [Tokens -> Nat \cup {NotRetired}]
           /\ timer' \in {deadline'[t] : t \in Retired'} \cup {NoTimer}
           /\ Closed' => timer' = NoTimer
           /\ Retired' = Retired \ RetiredOf(Group[k])
<1>1. publication' \in [Tokens -> PublicationSet]
  BY ClosedByType DEF Release
<1>2. deadline' = [t \in Tokens |-> IF t \in RetiredOf(Group[k]) THEN NotRetired ELSE deadline[t]]
  BY DEF Release
<1>3. deadline' \in [Tokens -> Nat \cup {NotRetired}]
  BY <1>2 DEF TypeOK
<1>4. timer' \in {deadline'[t] : t \in Retired'} \cup {NoTimer} /\ (Closed' => timer' = NoTimer)
  BY DEF Release, Schedule, Closed
<1>5. Retired' = Retired \ RetiredOf(Group[k])
  BY <1>2 DEF Retired, NotRetired, RetiredOf
<1> QED
  BY <1>1, <1>3, <1>4, <1>5

LEMMA GraceFields ==
    ASSUME TypeInv, GracePasses
    PROVE  /\ deadline' \in [Tokens -> Nat \cup {NotRetired}]
           /\ Retired' = Retired
           /\ timer' \in {deadline'[t] : t \in Retired'} \cup {NoTimer}
           /\ Closed' => timer' = NoTimer
<1>1. \A d \in Nat \cup {NotRetired} :
          /\ Sooner(d) \in Nat \cup {NotRetired}
          /\ Sooner(d) = NotRetired <=> d = NotRetired
  BY DEF Sooner, NotRetired
<1>2. Sooner(NoTimer) = NoTimer
  BY DEF Sooner, NoTimer
<1>3. /\ deadline' = [t \in Tokens |-> Sooner(deadline[t])]
      /\ timer' = Sooner(timer) /\ UNCHANGED closing
  BY DEF GracePasses
<1> HIDE DEF Sooner
<1>4. deadline \in [Tokens -> Nat \cup {NotRetired}]
  BY DEF TypeInv, TypeOK
<1>5. deadline' \in [Tokens -> Nat \cup {NotRetired}] /\ Retired' = Retired
  BY <1>1, <1>3, <1>4 DEF Retired
<1>6. timer' \in {deadline'[t] : t \in Retired'} \cup {NoTimer}
  <2>1. timer \in {deadline[t] : t \in Retired} \cup {NoTimer}
    BY DEF TypeInv, TypeOK
  <2>2. \A t \in Retired : t \in Tokens
    BY DEF Retired
  <2> QED
    BY <1>2, <1>3, <1>5, <2>1, <2>2
<1>7. Closed' => timer' = NoTimer
  BY <1>2, <1>3 DEF TypeInv, Closed
<1> QED
  BY <1>5, <1>6, <1>7

LEMMA CloseType ==
    ASSUME TypeInv, Close
    PROVE  TypeInv'
<1> USE DEF TypeInv, published
<1>1. CASE CloseCalled
  BY <1>1 DEF CloseCalled, TypeOK, Retired, Closed
<1>2. CASE CloseStarts
  <2>1. work' \in [Tokens -> WorkSet]
    BY <1>2, CancelledInFields DEF CloseStarts
  <2>2. awaited' \in [work : SUBSET Tokens, refresh : SUBSET Keys]
    BY <1>2 DEF CloseStarts, Working
  <2> QED
    BY <1>2, <2>1, <2>2 DEF CloseStarts, TypeOK, Retired
<1>3. CASE CloseGathered
  <2>1. publication' \in [Tokens -> PublicationSet]
    BY <1>3, ClosedByType DEF CloseGathered
  <2>2. timer = NoTimer
    BY <1>3 DEF CloseGathered, Closed
  <2>3. refresh' \in [Keys -> RefreshSet]
    BY <1>3, NullRecords DEF CloseGathered
  <2>4. /\ current' \in [Keys -> TokenOrNone] /\ desired' \in [Groups -> TokenOrNone]
        /\ deadline' \in [Tokens -> Nat \cup {NotRetired}]
        /\ awaited' \in [work : SUBSET Tokens, refresh : SUBSET Keys]
        /\ closing' \in {"repository", "closed"}
    BY <1>3 DEF CloseGathered, TokenOrNone
  <2>5. UNCHANGED <<timer, work, nextToken, repository>>
    BY <1>3 DEF CloseGathered
  <2> QED
    BY <2>1, <2>2, <2>3, <2>4, <2>5 DEF TypeOK
<1>4. CASE CloseRepository
  BY <1>4 DEF CloseRepository, TypeOK, Retired, Closed
<1> QED
  BY <1>1, <1>2, <1>3, <1>4 DEF Close

LEMMA TypeStep ==
    ASSUME TypeInv, [Next]_vars
    PROVE  TypeInv'
<1>n. TypeOK
  BY DEF TypeInv
<1>1. ASSUME NEW k \in Keys, Release(k)
      PROVE  TypeInv'
  <2>1. /\ publication' \in [Tokens -> PublicationSet]
        /\ deadline' \in [Tokens -> Nat \cup {NotRetired}]
        /\ timer' \in {deadline'[t] : t \in Retired'} \cup {NoTimer}
        /\ Closed' => timer' = NoTimer
    BY <1>n, <1>1, ReleaseFields
  <2>2. work' \in [Tokens -> WorkSet] /\ refresh' \in [Keys -> RefreshSet]
    BY <1>n, <1>1, CancelledInFields, OutdatedInFields DEF Release
  <2>3. current' \in [Keys -> TokenOrNone] /\ desired' \in [Groups -> TokenOrNone]
    BY <1>n, <1>1 DEF Release, TypeOK, TokenOrNone
  <2> QED
    BY <1>n, <1>1, <2>1, <2>2, <2>3 DEF Release, TypeOK, TypeInv
<1>2. CASE Look \/ RetirementDue
  <2>1. Prune(deadline, publication) /\ UNCHANGED closing
    BY <1>2 DEF Look, RetirementDue
  <2> QED
    BY <1>n, <1>2, <2>1, LookFields DEF Look, RetirementDue, TypeOK, TypeInv
<1>3. CASE GracePasses
  BY <1>n, <1>3, GraceFields DEF GracePasses, TypeOK, TypeInv
<1>4. CASE UNCHANGED vars
  BY <1>4 DEF vars, TypeInv, TypeOK, Retired, Closed
<1> QED
  BY <1>1, <1>2, <1>3, <1>4, WorkType, RefreshType, CloseType DEF Next

\* Every reachable state has its type, and the retirement timer waits for the
\* deadline of a publication that is retired, or is not set
\* (_schedule_retirement), for any number of keys and works.
THEOREM TypeCorrect == Spec => []TypeOK
<1>1. TypeInv => TypeOK
  BY DEF TypeInv
<1> QED
  BY <1>1, TypeInit, TypeStep, PTL DEF Spec
-----------------------------------------------------------------------------
(* Publications: the inductive invariant *)

LEMMA TokenFacts ==
    ASSUME TypeOK
    PROVE  /\ \A t \in Tokens : t \in Nat /\ t # 0
           /\ nextToken \in Nat
           /\ \A g \in Groups : desired[g] \in Nat
           /\ \A k \in Keys : /\ current[k] \in Nat
                              /\ current[k] # 0 => current[k] \in Tokens
           /\ \A t \in Candidates : t \in Tokens
           /\ \A t \in Retired : t \in Tokens
BY DEF TypeOK, Tokens, TokenOrNone, Candidates, Retired

LEMMA PublicationInit == Init => PublicationInv
<1> SUFFICES ASSUME Init PROVE PublicationInv
  OBVIOUS
<1>1. Retired = {} /\ Candidates = {}
  BY NullRecords DEF Init, Retired, Candidates
<1>2. \A t \in Tokens : work[t].pc = "none" /\ publication[t].state # "open"
  BY NullRecords DEF Init, NoPublication
<1>3. /\ \A k \in Keys : current[k] = 0
      /\ \A g \in Groups : desired[g] = 0
      /\ nextToken = 0
  BY DEF Init
<1>4. \A t \in Tokens : t # 0
  BY DEF Tokens
<1> QED
  BY <1>1, <1>2, <1>3, <1>4 DEF PublicationInv, WorksAreKnown, CurrentIsCommitted, OneIsShown,
     RetiredIsReplaced, DesiredIsStarted, OpenIsNeeded

\* Steps that close and show nothing
LEMMA PublicationsStay ==
    ASSUME TypeOK, PublicationInv, UNCHANGED <<publication, current, Retired, Candidates>>,
           WorksAreKnown', TypeOK',
           \A t \in Tokens : work[t].pc = "done" => work'[t].pc = "done",
           \A g \in Groups : desired[g] <= desired'[g] /\ desired'[g] <= nextToken'
    PROVE  PublicationInv'
<1>1. CurrentIsCommitted'
  <2> SUFFICES ASSUME NEW k \in Keys, current[k] # 0
               PROVE  /\ work'[current[k]].pc = "done"
                      /\ publication[current[k]].key = k
                      /\ current[k] <= desired'[Group[k]]
    BY DEF CurrentIsCommitted
  <2>1. /\ work[current[k]].pc = "done" /\ publication[current[k]].key = k
        /\ current[k] <= desired[Group[k]]
    BY DEF PublicationInv, CurrentIsCommitted
  <2>2. current[k] \in Tokens /\ current[k] \in Nat
    BY TokenFacts
  <2>3. desired[Group[k]] \in Nat /\ desired'[Group[k]] \in Nat /\ Group[k] \in Groups
    BY TokenFacts DEF TypeOK, TokenOrNone
  <2> QED
    BY <2>1, <2>2, <2>3
<1>2. OneIsShown'
  BY DEF PublicationInv, OneIsShown
<1>3. RetiredIsReplaced'
  BY TokenFacts DEF PublicationInv, RetiredIsReplaced
<1>4. DesiredIsStarted'
  BY DEF DesiredIsStarted
<1>5. OpenIsNeeded'
  BY DEF PublicationInv, OpenIsNeeded
<1> QED
  BY <1>1, <1>2, <1>3, <1>4, <1>5 DEF PublicationInv

\* Steps after which every work is where it was
LEMMA WorksStay ==
    ASSUME TypeOK, WorksAreKnown, UNCHANGED nextToken,
           \A t \in Tokens : /\ work'[t].pc = work[t].pc
                             /\ work'[t].key = work[t].key
                             /\ work'[t].caller = work[t].caller,
           \A t \in Candidates : publication'[t].key = publication[t].key
    PROVE  /\ WorksAreKnown' /\ UNCHANGED Candidates
           /\ \A t \in Tokens : work[t].pc = "done" => work'[t].pc = "done"
<1>1. UNCHANGED <<Candidates, Working>>
  BY DEF Candidates, Working
<1>2. WorksAreKnown'
  BY <1>1, TokenFacts DEF WorksAreKnown
<1> QED
  BY <1>1, <1>2

\* A step of one work
LEMMA WorkMoves ==
    ASSUME TypeOK, WorksAreKnown, NEW t \in Tokens, NEW pc,
           work' = [work EXCEPT ![t].pc = pc],
           work[t].pc \notin {"none", "done"}, pc # "none", UNCHANGED nextToken,
           \A s \in Tokens : s \in Candidates' => publication'[s].key = work[s].key
    PROVE  /\ WorksAreKnown'
           /\ \A s \in Tokens : work[s].pc = "done" => work'[s].pc = "done"
           /\ Candidates' = IF pc \in {"answered", "admission"} THEN Candidates \cup {t}
                                                               ELSE Candidates \ {t}
<1>1. \A s \in Tokens : /\ work'[s].pc = IF s = t THEN pc ELSE work[s].pc
                        /\ work'[s].key = work[s].key
                        /\ work'[s].caller = work[s].caller
  BY DEF TypeOK, WorkSet
<1>2. Working' = Working
  BY <1>1 DEF Working
<1>3. Candidates' = IF pc \in {"answered", "admission"} THEN Candidates \cup {t}
                                                        ELSE Candidates \ {t}
  BY <1>1 DEF Candidates
<1>4. WorksAreKnown'
  BY <1>1, <1>2 DEF WorksAreKnown
<1> QED
  BY <1>1, <1>3, <1>4

LEMMA SameDesired ==
    ASSUME TypeOK, PublicationInv, UNCHANGED <<desired, nextToken>>
    PROVE  \A g \in Groups : desired[g] <= desired'[g] /\ desired'[g] <= nextToken'
BY TokenFacts DEF PublicationInv, DesiredIsStarted

LEMMA CommitPublishes ==
    ASSUME TypeOK, TypeOK', PublicationInv, NEW t \in Tokens, CommitWork(t)
    PROVE  PublicationInv'
<1> DEFINE key == work[t].key
           g == GroupOf(t)
<1>n. /\ WorksAreKnown /\ CurrentIsCommitted /\ OneIsShown /\ RetiredIsReplaced
      /\ DesiredIsStarted /\ OpenIsNeeded
  BY DEF PublicationInv
<1>1. /\ t \in Candidates /\ Commit(t) /\ RequireCurrent(t)
      /\ work' = [work EXCEPT ![t].pc = "done"]
      /\ UNCHANGED <<desired, nextToken, closing>>
  BY DEF CommitWork, Candidates, Finish
<1>2. publication[t].key = key /\ key \in Keys /\ g = Group[key] /\ desired[g] = t
  <2>1. publication[t].key = key /\ key \in Keys
    BY <1>n, <1>1 DEF WorksAreKnown, Candidates
  <2> QED
    BY <1>1, <2>1 DEF GroupOf, RequireCurrent
<1>3. /\ \A s \in Tokens :
             /\ publication'[s] =
                    IF s \notin RetiredFor(t) /\ s \in Expired \cup CurrentOf(g)
                    THEN ClosedPublication ELSE publication[s]
             /\ s \in Retired' <=> s \in RetiredFor(t) \cup (Retired \ Expired)
      /\ \A k \in Keys : current'[k] = IF k = key THEN t
                                       ELSE IF Group[k] = g THEN 0 ELSE current[k]
  BY <1>1, <1>2, CommitFields DEF Commit
<1>4. \A s \in CurrentOf(g) : \E k \in Keys : Group[k] = g /\ current[k] = s /\ s # 0
  BY DEF CurrentOf, KeysOf
<1>5. \A k \in Keys : Group[k] = g /\ current[k] # 0 => current[k] \in CurrentOf(g)
  BY DEF CurrentOf, KeysOf
<1>6. RetiredFor(t) \subseteq CurrentOf(g) /\ Expired \subseteq Retired
  BY DEF RetiredFor, Expired, Retired, NotRetired
<1>7. \A s \in Retired \cup CurrentOf(g) : s \notin Candidates /\ work[s].pc = "done"
  BY <1>n, <1>4 DEF RetiredIsReplaced, CurrentIsCommitted, Candidates
<1>8. publication'[t] = publication[t]
  BY <1>1, <1>3, <1>6, <1>7
<1> HIDE DEF key, g
<1>9. \A s \in Tokens : s \in Candidates => publication'[s] = publication[s]
  BY <1>3, <1>6, <1>7
<1>10. /\ \A s \in Tokens : work'[s].pc = IF s = t THEN "done" ELSE work[s].pc
       /\ \A s \in Candidates' : s \in Candidates
  <2>1. \A s \in Tokens : work'[s].pc = IF s = t THEN "done" ELSE work[s].pc
    BY <1>1 DEF TypeOK, WorkSet
  <2> QED
    BY <2>1 DEF Candidates
<1>11. /\ WorksAreKnown' /\ Candidates' = Candidates \ {t}
       /\ \A s \in Tokens : work[s].pc = "done" => work'[s].pc = "done"
  <2>1. work[t].pc \notin {"none", "done"}
    BY <1>1 DEF Candidates
  <2>2. \A s \in Tokens : s \in Candidates' => publication'[s].key = work[s].key
    BY <1>n, <1>9, <1>10 DEF WorksAreKnown
  <2>3. work' = [work EXCEPT ![t].pc = "done"] /\ UNCHANGED nextToken
    BY <1>1
  <2> QED
    BY <1>n, <2>1, <2>2, <2>3, WorkMoves
<1>12. CurrentIsCommitted'
  <2> SUFFICES ASSUME NEW k \in Keys, current'[k] # 0
               PROVE  /\ work'[current'[k]].pc = "done"
                      /\ publication'[current'[k]].key = k
                      /\ current'[k] <= desired[Group[k]]
    BY <1>1 DEF CurrentIsCommitted
  <2>1. CASE k = key
    BY <1>2, <1>3, <1>8, <1>10, <2>1, TokenFacts
  <2>2. CASE k # key
    <3>1. current'[k] = current[k] /\ Group[k] # g /\ current[k] \in Tokens
      BY <1>3, <2>2, TokenFacts
    <3>2. /\ work[current[k]].pc = "done" /\ publication[current[k]].key = k
          /\ current[k] <= desired[Group[k]]
      BY <1>n, <3>1 DEF CurrentIsCommitted
    <3>3. current[k] \notin CurrentOf(g) \cup Retired
      BY <1>n, <1>4, <3>1, <3>2 DEF CurrentIsCommitted, RetiredIsReplaced
    <3> QED
      BY <1>3, <1>6, <1>11, <3>1, <3>2, <3>3
  <2> QED
    BY <2>1, <2>2
<1>13. OneIsShown'
  BY <1>n, <1>2, <1>3 DEF OneIsShown
<1>14. RetiredIsReplaced'
  <2> SUFFICES ASSUME NEW s \in Retired'
               PROVE  /\ work'[s].pc = "done" /\ publication'[s].key \in Keys
                      /\ \A k \in Keys : current'[k] # s
    BY DEF RetiredIsReplaced
  <2>1. s \in Tokens /\ s # 0 /\ s # t
    BY <1>1, <1>3, <1>6, <1>7, TokenFacts DEF Retired
  <2>2. CASE s \in RetiredFor(t)
    <3>1. PICK j \in Keys : Group[j] = g /\ current[j] = s
      BY <1>4, <1>6, <2>2
    <3>2. work[s].pc = "done" /\ publication[s].key = j
      BY <1>n, <2>1, <3>1 DEF CurrentIsCommitted
    <3>3. \A k \in Keys : current[k] = s => k = j
      BY <1>n, <2>1, <3>2 DEF CurrentIsCommitted
    <3> QED
      BY <1>3, <1>11, <2>1, <2>2, <3>1, <3>2, <3>3
  <2>3. CASE s \notin RetiredFor(t)
    <3>1. s \in Retired \ Expired
      BY <1>3, <2>1, <2>3
    <3>2. /\ work[s].pc = "done" /\ publication[s].key \in Keys
          /\ \A k \in Keys : current[k] # s
      BY <1>n, <3>1 DEF RetiredIsReplaced
    <3> QED
      BY <1>3, <1>4, <1>11, <2>1, <2>3, <3>1, <3>2
  <2> QED
    BY <2>2, <2>3
<1>15. DesiredIsStarted'
  BY <1>n, <1>1 DEF DesiredIsStarted
<1>16. OpenIsNeeded'
  <2> SUFFICES ASSUME NEW s \in Tokens
               PROVE  publication'[s].state = "open" <=>
                          (\E k \in Keys : current'[k] = s) \/ s \in Retired' \/ s \in Candidates'
    BY DEF OpenIsNeeded
  <2>0. /\ s # 0 /\ ClosedPublication.state # "open"
        /\ publication[s].state = "open" <=>
               (\E k \in Keys : current[k] = s) \/ s \in Retired \/ s \in Candidates
    BY <1>n, TokenFacts, NullRecords DEF OpenIsNeeded
  <2>1. CASE s = t
    BY <1>1, <1>2, <1>3, <1>8, <2>0, <2>1
  <2>2. CASE s # t /\ s \in CurrentOf(g)
    <3>1. PICK j \in Keys : Group[j] = g /\ current[j] = s
      BY <1>4, <2>2
    <3>2. \A k \in Keys : current'[k] # s
      <4>1. \A k \in Keys : current[k] = s => k = j
        BY <1>n, <2>0, <3>1 DEF CurrentIsCommitted
      <4> QED
        BY <1>3, <2>0, <2>2, <3>1, <4>1
    <3>3. s \notin Retired /\ s \notin Candidates
      BY <1>n, <1>7, <2>2, <3>1 DEF RetiredIsReplaced
    <3> QED
      BY <1>3, <1>11, <2>0, <2>2, <3>1, <3>2, <3>3
  <2>3. CASE s # t /\ s \notin CurrentOf(g)
    <3>1. (\E k \in Keys : current'[k] = s) <=> (\E k \in Keys : current[k] = s)
      BY <1>2, <1>3, <1>5, <2>0, <2>3
    <3>2. CASE s \in Expired
      BY <1>n, <1>3, <1>6, <1>7, <1>11, <2>0, <2>3, <3>1, <3>2 DEF RetiredIsReplaced
    <3>3. CASE s \notin Expired
      BY <1>3, <1>6, <1>11, <2>0, <2>3, <3>1, <3>3
    <3> QED
      BY <3>2, <3>3
  <2> QED
    BY <2>1, <2>2, <2>3
<1> QED
  BY <1>11, <1>12, <1>13, <1>14, <1>15, <1>16 DEF PublicationInv
\* A candidate is closed and its work ends.
LEMMA DiscardPublishes ==
    ASSUME TypeOK, PublicationInv, NEW t \in Tokens, DiscardSuperseded(t) \/ DiscardRejected(t)
    PROVE  PublicationInv'
<1>n. /\ WorksAreKnown /\ CurrentIsCommitted /\ OneIsShown /\ RetiredIsReplaced
      /\ DesiredIsStarted /\ OpenIsNeeded
  BY DEF PublicationInv
<1>1. /\ t \in Candidates /\ work' = [work EXCEPT ![t].pc = "done"]
      /\ publication' = ClosedBy({t})
      /\ UNCHANGED <<current, deadline, desired, nextToken>>
  BY DEF DiscardSuperseded, DiscardRejected, Discard, Candidates, Finish
<1>2. /\ publication'[t] = ClosedPublication
      /\ \A s \in Tokens : s # t => publication'[s] = publication[s]
  BY <1>1 DEF ClosedBy
<1>3. Retired' = Retired /\ t \notin Retired /\ (\A k \in Keys : current[k] # t)
  BY <1>n, <1>1, TokenFacts DEF Retired, RetiredIsReplaced, CurrentIsCommitted, Candidates
<1>4. /\ \A s \in Tokens : work'[s].pc = IF s = t THEN "done" ELSE work[s].pc
      /\ \A s \in Candidates' : s \in Candidates /\ s # t
  <2>1. \A s \in Tokens : work'[s].pc = IF s = t THEN "done" ELSE work[s].pc
    BY <1>1 DEF TypeOK, WorkSet
  <2> QED
    BY <2>1 DEF Candidates
<1>5. /\ WorksAreKnown' /\ Candidates' = Candidates \ {t}
      /\ \A s \in Tokens : work[s].pc = "done" => work'[s].pc = "done"
  <2>1. work[t].pc \notin {"none", "done"}
    BY <1>1 DEF Candidates
  <2>2. \A s \in Tokens : s \in Candidates' => publication'[s].key = work[s].key
    BY <1>n, <1>2, <1>4 DEF WorksAreKnown
  <2>3. work' = [work EXCEPT ![t].pc = "done"] /\ UNCHANGED nextToken
    BY <1>1
  <2> QED
    BY <1>n, <2>1, <2>2, <2>3, WorkMoves
<1>6. CurrentIsCommitted'
  <2> SUFFICES ASSUME NEW k \in Keys, current[k] # 0
               PROVE  /\ work'[current[k]].pc = "done"
                      /\ publication'[current[k]].key = k
                      /\ current[k] <= desired[Group[k]]
    BY <1>1 DEF CurrentIsCommitted
  <2>1. current[k] \in Tokens /\ current[k] # t
    BY <1>3, TokenFacts
  <2> QED
    BY <1>n, <1>2, <1>4, <2>1 DEF CurrentIsCommitted
<1>7. OneIsShown' /\ DesiredIsStarted'
  BY <1>n, <1>1 DEF OneIsShown, DesiredIsStarted
<1>8. RetiredIsReplaced'
  <2>1. \A s \in Retired : s \in Tokens /\ s # t
    BY <1>3, TokenFacts
  <2> QED
    BY <1>n, <1>1, <1>2, <1>3, <1>4, <2>1 DEF RetiredIsReplaced
<1>9. OpenIsNeeded'
  BY <1>n, <1>1, <1>2, <1>3, <1>5, NullRecords DEF OpenIsNeeded
<1> QED
  BY <1>5, <1>6, <1>7, <1>8, <1>9 DEF PublicationInv

LEMMA WorkPublishes ==
    ASSUME TypeOK, TypeOK', PublicationInv, NEW t \in Tokens, Work(t)
    PROVE  PublicationInv'
<1>n. /\ WorksAreKnown /\ CurrentIsCommitted /\ OneIsShown /\ RetiredIsReplaced
      /\ DesiredIsStarted /\ OpenIsNeeded
  BY DEF PublicationInv
<1>1. CASE WorkOpens(t) \/ WorkFails(t) \/ StartAdmission(t)
  <2>1. /\ UNCHANGED <<publication, current, deadline, desired, nextToken>>
        /\ work[t].pc \in {"queued", "thread", "answered"}
        /\ \E pc \in {"thread", "done", "admission"} :
               /\ work' = [work EXCEPT ![t].pc = pc]
               /\ pc = "admission" <=> work[t].pc = "answered"
    BY <1>1 DEF WorkOpens, WorkFails, StartAdmission, Finish, published
  <2>2. PICK pc \in {"thread", "done", "admission"} :
            /\ work' = [work EXCEPT ![t].pc = pc]
            /\ pc = "admission" <=> work[t].pc = "answered"
    BY <2>1
  <2>3. \A s \in Tokens : work'[s].pc = IF s = t THEN pc ELSE work[s].pc
    BY <2>2 DEF TypeOK, WorkSet
  <2>4. \A s \in Tokens : s \in Candidates' => publication'[s].key = work[s].key
    BY <1>n, <2>1, <2>2, <2>3 DEF Candidates, WorksAreKnown
  <2>5. /\ WorksAreKnown'
        /\ \A s \in Tokens : work[s].pc = "done" => work'[s].pc = "done"
    BY <1>n, <2>1, <2>2, <2>4, WorkMoves
  <2>6. UNCHANGED <<Retired, Candidates>>
    BY <2>1, <2>2, <2>3 DEF Retired, Candidates
  <2> QED
    BY <2>1, <2>5, <2>6, SameDesired, PublicationsStay
<1>2. ASSUME NEW instance \in Instances, WorkAnswers(t, instance)
      PROVE  PublicationInv'
  <2> DEFINE p == [state |-> "open", key |-> work[t].key, instance |-> instance]
  <2>1. /\ work[t].pc = "thread" /\ work' = [work EXCEPT ![t].pc = "answered"]
        /\ publication' = [publication EXCEPT ![t] = p]
        /\ UNCHANGED <<current, deadline, desired, nextToken>>
    BY <1>2 DEF WorkAnswers
  <2>2. /\ publication'[t].key = work[t].key /\ publication'[t].state = "open"
        /\ \A s \in Tokens : s # t => publication'[s] = publication[s]
    BY <2>1 DEF TypeOK
  <2>3. /\ Retired' = Retired /\ t \notin Retired /\ t \notin Candidates
        /\ \A k \in Keys : current[k] # t
    BY <1>n, <2>1, TokenFacts DEF Retired, RetiredIsReplaced, CurrentIsCommitted, Candidates
  <2>4. \A s \in Tokens : work'[s].pc = IF s = t THEN "answered" ELSE work[s].pc
    BY <2>1 DEF TypeOK, WorkSet
  <2>5. /\ WorksAreKnown' /\ Candidates' = Candidates \cup {t}
        /\ \A s \in Tokens : work[s].pc = "done" => work'[s].pc = "done"
    <3>1. \A s \in Tokens : s \in Candidates' => publication'[s].key = work[s].key
      BY <1>n, <2>2, <2>4 DEF WorksAreKnown, Candidates
    <3>2. work[t].pc \notin {"none", "done"} /\ UNCHANGED nextToken
      BY <2>1
    <3>3. work' = [work EXCEPT ![t].pc = "answered"]
      BY <2>1
    <3> QED
      BY <1>n, <3>1, <3>2, <3>3, WorkMoves
  <2>6. CurrentIsCommitted'
    <3> SUFFICES ASSUME NEW k \in Keys, current[k] # 0
                 PROVE  /\ work'[current[k]].pc = "done"
                        /\ publication'[current[k]].key = k
                        /\ current[k] <= desired[Group[k]]
      BY <2>1 DEF CurrentIsCommitted
    <3>1. current[k] \in Tokens /\ current[k] # t
      BY <2>3, TokenFacts
    <3> QED
      BY <1>n, <2>2, <2>4, <3>1 DEF CurrentIsCommitted
  <2>7. OneIsShown' /\ DesiredIsStarted'
    BY <1>n, <2>1 DEF OneIsShown, DesiredIsStarted
  <2>8. RetiredIsReplaced'
    <3>1. \A s \in Retired : s \in Tokens /\ s # t
      BY <2>3, TokenFacts
    <3> QED
      BY <1>n, <2>1, <2>2, <2>3, <2>4, <3>1 DEF RetiredIsReplaced
  <2>9. OpenIsNeeded'
    BY <1>n, <2>1, <2>2, <2>3, <2>5 DEF OpenIsNeeded
  <2> QED
    BY <2>5, <2>6, <2>7, <2>8, <2>9 DEF PublicationInv
<1>3. CASE CallerCancelled(t) \/ CallerReturns(t)
  <2>1. UNCHANGED <<publication, current, deadline, desired, nextToken>>
    BY <1>3 DEF CallerCancelled, CallerReturns, published
  <2>2. \A s \in Tokens : s # t => work'[s] = work[s]
    BY <1>3 DEF CallerCancelled, CallerReturns, TypeOK
  <2>3. /\ work'[t].pc = work[t].pc
        /\ work[t].pc \notin {"none", "done"} =>
               work'[t].key = work[t].key /\ work'[t].caller \in {"waiting", "settling"}
    <3>1. CASE CallerCancelled(t)
      <4>1. work[t] \in WorkSet /\ Cancelled(work[t]) \in WorkSet
        BY CancelledFields DEF TypeOK
      <4>2. work'[t] = [Cancelled(work[t]) EXCEPT !.caller = "settling"]
        BY <3>1 DEF CallerCancelled, TypeOK
      <4>3. \A w \in WorkSet : /\ [w EXCEPT !.caller = "settling"].pc = w.pc
                               /\ [w EXCEPT !.caller = "settling"].key = w.key
                               /\ [w EXCEPT !.caller = "settling"].caller = "settling"
        BY DEF WorkSet
      <4> QED
        BY <4>1, <4>2, <4>3, CancelledFields
    <3>2. CASE CallerReturns(t)
      BY <3>2, NullRecords DEF CallerReturns, TypeOK
    <3> QED
      BY <1>3, <3>1, <3>2
  <2>4. UNCHANGED <<Retired, Candidates>>
    BY <2>1, <2>2, <2>3 DEF Retired, Candidates
  <2>5. WorksAreKnown'
    <3> SUFFICES ASSUME NEW s \in Tokens
                 PROVE  /\ s > nextToken => work'[s].pc = "none"
                        /\ work'[s].pc \notin {"none", "done"}
                               => s \in Working' /\ work'[s].key \in Keys
                        /\ s \in Candidates => publication[s].key = work'[s].key
      BY <2>1, <2>4 DEF WorksAreKnown
    <3>1. /\ s > nextToken => work[s].pc = "none"
          /\ work[s].pc \notin {"none", "done"} => s \in Working /\ work[s].key \in Keys
          /\ s \in Candidates => publication[s].key = work[s].key
      BY <1>n DEF WorksAreKnown
    <3> QED
      BY <2>2, <2>3, <3>1 DEF Working, Candidates
  <2>6. \A s \in Tokens : work[s].pc = "done" => work'[s].pc = "done"
    BY <2>2, <2>3
  <2> QED
    BY <2>1, <2>4, <2>5, <2>6, SameDesired, PublicationsStay
<1> QED
  BY <1>1, <1>2, <1>3, CommitPublishes, DiscardPublishes DEF Work

LEMMA StartPublishes ==
    ASSUME TypeOK, TypeOK', PublicationInv, NEW k \in Keys, NEW by \in {"application", "refresh"},
           StartWork(k, by), UNCHANGED <<publication, current, deadline>>
    PROVE  PublicationInv'
<1>n. WorksAreKnown /\ DesiredIsStarted
  BY DEF PublicationInv
<1> DEFINE new == nextToken + 1
<1>1. /\ new \in Tokens /\ nextToken' = new
      /\ desired' = [desired EXCEPT ![Group[k]] = new]
      /\ \A t \in Tokens : t # new => /\ work'[t].pc = work[t].pc
                                      /\ work'[t].key = work[t].key
                                      /\ work'[t].caller = work[t].caller
      /\ work'[new].pc = "queued" /\ work'[new].key = k /\ work'[new].caller = "waiting"
  BY StartWorkFields
<1>2. new > nextToken /\ nextToken \in Nat /\ (\A t \in Tokens : t > new => t > nextToken)
  BY TokenFacts
<1> HIDE DEF new
<1>3. work[new].pc = "none"
  BY <1>n, <1>1, <1>2 DEF WorksAreKnown
<1>4. UNCHANGED <<Retired, Candidates>>
  BY <1>1, <1>3 DEF Retired, Candidates
<1>5. WorksAreKnown'
  <2> SUFFICES ASSUME NEW s \in Tokens
               PROVE  /\ s > new => work'[s].pc = "none"
                      /\ work'[s].pc \notin {"none", "done"}
                             => s \in Working' /\ work'[s].key \in Keys
                      /\ s \in Candidates => publication[s].key = work'[s].key
    BY <1>1, <1>4 DEF WorksAreKnown
  <2>1. /\ s > nextToken => work[s].pc = "none"
        /\ work[s].pc \notin {"none", "done"} => s \in Working /\ work[s].key \in Keys
        /\ s \in Candidates => publication[s].key = work[s].key
    BY <1>n DEF WorksAreKnown
  <2>2. CASE s = new
    <3>1. s \notin Candidates /\ ~(s > new)
      BY <1>2, <1>3, <2>2, TokenFacts DEF Candidates
    <3> QED
      BY <1>1, <2>2, <3>1 DEF Working
  <2>3. CASE s # new
    BY <1>1, <1>2, <2>1, <2>3 DEF Working
  <2> QED
    BY <2>2, <2>3
<1>6. \A t \in Tokens : work[t].pc = "done" => work'[t].pc = "done"
  BY <1>1, <1>3
<1>7. ASSUME NEW g \in Groups
      PROVE  desired[g] <= desired'[g] /\ desired'[g] <= nextToken'
  <2>1. desired[g] <= nextToken /\ desired[g] \in Nat
    BY <1>n, TokenFacts DEF DesiredIsStarted
  <2>2. desired'[g] \in {desired[g], new}
    BY <1>1 DEF TypeOK
  <2>3. new \in Nat
    BY <1>1, TokenFacts
  <2> QED
    BY <1>1, <1>2, <2>1, <2>2, <2>3
<1> QED
  BY <1>4, <1>5, <1>6, <1>7, PublicationsStay

\* What has expired is closed.
LEMMA PrunePublishes ==
    ASSUME TypeOK, PublicationInv, Prune(deadline, publication),
           UNCHANGED <<current, work, desired, nextToken, closing>>
    PROVE  PublicationInv'
<1>n. /\ WorksAreKnown /\ CurrentIsCommitted /\ OneIsShown /\ RetiredIsReplaced
      /\ DesiredIsStarted /\ OpenIsNeeded
  BY DEF PublicationInv
<1>1. \A t \in Tokens :
          /\ publication'[t] = IF t \in Expired THEN ClosedPublication ELSE publication[t]
          /\ t \in Retired' <=> t \in Retired \ Expired
  BY LookFields
<1>2. \A t \in Expired : t \in Retired
  BY DEF Expired, Retired, NotRetired
<1>3. Candidates' = Candidates /\ \A t \in Candidates : publication'[t] = publication[t]
  BY <1>n, <1>1, <1>2 DEF Candidates, RetiredIsReplaced
<1>4. \A k \in Keys : current[k] # 0 => publication'[current[k]] = publication[current[k]]
  BY <1>n, <1>1, <1>2, TokenFacts DEF RetiredIsReplaced
<1>5. WorksAreKnown'
  BY <1>n, <1>3 DEF WorksAreKnown, Working
<1>6. CurrentIsCommitted' /\ OneIsShown' /\ DesiredIsStarted'
  BY <1>n, <1>4 DEF CurrentIsCommitted, OneIsShown, DesiredIsStarted
<1>7. RetiredIsReplaced'
  <2>1. \A t \in Retired' : t \in Tokens
    BY DEF Retired
  <2> QED
    BY <1>n, <1>1, <2>1 DEF RetiredIsReplaced
<1>8. OpenIsNeeded'
  BY <1>n, <1>1, <1>2, <1>3, NullRecords DEF OpenIsNeeded, RetiredIsReplaced, Candidates
<1> QED
  BY <1>5, <1>6, <1>7, <1>8 DEF PublicationInv

LEMMA RefreshPublishes ==
    ASSUME TypeOK, TypeOK', PublicationInv, NEW k \in Keys, Refresh(k) \/ Prepare(k)
    PROVE  PublicationInv'
<1>1. CASE Poll(k)
  BY <1>1, PrunePublishes DEF Poll
<1>2. CASE RefreshOpens(k) \/ RefreshAnswers(k) \/ RefreshEnds(k) \/ RefreshFinished(k)
  <2>1. UNCHANGED <<publication, current, deadline, work, desired, nextToken>>
    BY <1>2 DEF RefreshOpens, RefreshAnswers, RefreshEnds, RefreshFinished, published
  <2>2. WorksAreKnown' /\ UNCHANGED <<Retired, Candidates>>
    BY <2>1 DEF PublicationInv, WorksAreKnown, Working, Candidates, Retired
  <2> QED
    BY <2>1, <2>2, SameDesired, PublicationsStay
<1>3. CASE RefreshPrepares(k)
  BY <1>3, StartPublishes DEF RefreshPrepares, published
<1>4. CASE Prepare(k)
  BY <1>4, StartPublishes DEF Prepare, published
<1> QED
  BY <1>1, <1>2, <1>3, <1>4 DEF Refresh

LEMMA ReleasePublishes ==
    ASSUME TypeOK, PublicationInv, NEW k \in Keys, Release(k)
    PROVE  PublicationInv'
<1> DEFINE g == Group[k]
<1>n. /\ WorksAreKnown /\ CurrentIsCommitted /\ OneIsShown /\ RetiredIsReplaced
      /\ DesiredIsStarted /\ OpenIsNeeded
  BY DEF PublicationInv
<1>1. /\ work' = CancelledIn(WorkingOn(g))
      /\ publication' = ClosedBy(ReleasedBy(g))
      /\ current' = [j \in Keys |-> IF Group[j] = g THEN 0 ELSE current[j]]
      /\ desired' = [desired EXCEPT ![g] = 0]
      /\ UNCHANGED nextToken
  BY DEF Release
<1>2. Retired' = Retired \ RetiredOf(g)
  BY ReleaseFields
<1>3. \A t \in Tokens : publication'[t] = IF t \in ReleasedBy(g) THEN ClosedPublication
                                                               ELSE publication[t]
  BY <1>1 DEF ClosedBy
<1>4. \A t \in Tokens : /\ work'[t].pc = work[t].pc /\ work'[t].key = work[t].key
                        /\ work'[t].caller = work[t].caller
  BY <1>1, CancelledInFields
<1>5. \A t \in ReleasedBy(g) :
          /\ work[t].pc = "done"
          /\ \A j \in Keys : current[j] = t => Group[j] = g
          /\ t \in Retired => t \in RetiredOf(g)
  <2> SUFFICES ASSUME NEW t \in ReleasedBy(g)
               PROVE  /\ work[t].pc = "done"
                      /\ \A j \in Keys : current[j] = t => Group[j] = g
                      /\ t \in Retired => t \in RetiredOf(g)
    OBVIOUS
  <2>1. CASE t \in RetiredOf(g)
    BY <1>n, <2>1 DEF RetiredOf, RetiredIsReplaced
  <2>2. CASE t \in CurrentOf(g)
    <3>1. PICK i \in Keys : Group[i] = g /\ current[i] = t /\ t # 0
      BY <2>2 DEF CurrentOf, KeysOf
    <3> QED
      BY <1>n, <3>1 DEF CurrentIsCommitted, RetiredIsReplaced
  <2> QED
    BY <2>1, <2>2 DEF ReleasedBy
<1>6. \A j \in Keys : Group[j] = g /\ current[j] # 0 => current[j] \in ReleasedBy(g)
  BY DEF ReleasedBy, CurrentOf, KeysOf
<1>7. \A t \in RetiredOf(g) : t \in ReleasedBy(g)
  BY DEF ReleasedBy
<1>t. /\ \A j \in Keys : current'[j] = IF Group[j] = g THEN 0 ELSE current[j]
      /\ \A h \in Groups : desired'[h] = IF h = g THEN 0 ELSE desired[h]
  BY <1>1 DEF TypeOK
<1> HIDE DEF g
<1>8. WorksAreKnown' /\ UNCHANGED Candidates
  <2>1. \A t \in Candidates : publication'[t].key = publication[t].key
    BY <1>3, <1>5 DEF Candidates
  <2> QED
    BY <1>n, <1>1, <1>4, <2>1, WorksStay
<1>9. CurrentIsCommitted'
  <2> SUFFICES ASSUME NEW j \in Keys, current'[j] # 0
               PROVE  /\ work'[current'[j]].pc = "done"
                      /\ publication'[current'[j]].key = j
                      /\ current'[j] <= desired'[Group[j]]
    BY DEF CurrentIsCommitted
  <2>1. Group[j] # g /\ current'[j] = current[j] /\ current[j] \in Tokens
    BY <1>t, TokenFacts
  <2>2. current[j] \notin ReleasedBy(g)
    BY <1>5, <2>1
  <2> QED
    BY <1>n, <1>3, <1>4, <1>t, <2>1, <2>2 DEF CurrentIsCommitted
<1>10. OneIsShown'
  BY <1>n, <1>t DEF OneIsShown
<1>11. RetiredIsReplaced'
  <2> SUFFICES ASSUME NEW t \in Retired'
               PROVE  /\ work'[t].pc = "done" /\ publication'[t].key \in Keys
                      /\ \A j \in Keys : current'[j] # t
    BY DEF RetiredIsReplaced
  <2>1. t \in Retired /\ t \notin ReleasedBy(g) /\ t \in Tokens /\ t # 0
    BY <1>2, <1>5, TokenFacts
  <2> QED
    BY <1>n, <1>3, <1>4, <1>t, <2>1 DEF RetiredIsReplaced
<1>12. DesiredIsStarted'
  BY <1>n, <1>1, <1>t, TokenFacts DEF DesiredIsStarted
<1>13. OpenIsNeeded'
  <2> SUFFICES ASSUME NEW t \in Tokens
               PROVE  publication'[t].state = "open" <=>
                          (\E j \in Keys : current'[j] = t) \/ t \in Retired' \/ t \in Candidates
    BY <1>8 DEF OpenIsNeeded
  <2>0. /\ t # 0 /\ ClosedPublication.state # "open"
        /\ publication[t].state = "open" <=>
               (\E j \in Keys : current[j] = t) \/ t \in Retired \/ t \in Candidates
    BY <1>n, TokenFacts, NullRecords DEF OpenIsNeeded
  <2>1. CASE t \in ReleasedBy(g)
    BY <1>2, <1>3, <1>5, <1>t, <2>0, <2>1 DEF Candidates
  <2>2. CASE t \notin ReleasedBy(g)
    BY <1>2, <1>3, <1>6, <1>7, <1>t, <2>0, <2>2
  <2> QED
    BY <2>1, <2>2
<1> QED
  BY <1>8, <1>9, <1>10, <1>11, <1>12, <1>13 DEF PublicationInv

LEMMA ClosePublishes ==
    ASSUME TypeOK, TypeOK', PublicationInv, Close
    PROVE  PublicationInv'
<1>n. /\ WorksAreKnown /\ CurrentIsCommitted /\ OneIsShown /\ RetiredIsReplaced
      /\ DesiredIsStarted /\ OpenIsNeeded
  BY DEF PublicationInv
<1>1. CASE CloseCalled \/ CloseRepository
  <2>1. UNCHANGED <<publication, current, deadline, work, desired, nextToken>>
    BY <1>1 DEF CloseCalled, CloseRepository, published
  <2>2. WorksAreKnown' /\ UNCHANGED <<Retired, Candidates>>
    BY <1>n, <2>1 DEF WorksAreKnown, Working, Candidates, Retired
  <2> QED
    BY <2>1, <2>2, SameDesired, PublicationsStay
<1>2. CASE CloseStarts
  <2>1. UNCHANGED <<publication, current, deadline, desired, nextToken>>
        /\ work' = CancelledIn(Working)
    BY <1>2 DEF CloseStarts
  <2>2. /\ WorksAreKnown' /\ UNCHANGED Candidates
        /\ \A t \in Tokens : work[t].pc = "done" => work'[t].pc = "done"
    BY <1>n, <2>1, CancelledInFields, WorksStay
  <2>3. UNCHANGED Retired
    BY <2>1 DEF Retired
  <2> QED
    BY <2>1, <2>2, <2>3, SameDesired, PublicationsStay
<1>3. CASE CloseGathered
  <2>1. /\ UNCHANGED <<work, nextToken>>
        /\ publication' = ClosedBy(Shown)
        /\ current' = [k \in Keys |-> 0] /\ desired' = [g \in Groups |-> 0]
        /\ deadline' = [t \in Tokens |-> NotRetired]
    BY <1>3 DEF CloseGathered
  <2>2. Retired' = {}
    BY <2>1 DEF Retired
  <2>3. \A t \in Tokens : /\ t \in Shown => publication'[t] = ClosedPublication
                          /\ t \notin Shown => publication'[t] = publication[t]
    BY <2>1 DEF ClosedBy
  <2>4. \A t \in Tokens : t \in Shown <=> (\E k \in Keys : current[k] = t) \/ t \in Retired
    BY TokenFacts DEF Shown
  <2>5. \A t \in Tokens : t \in Shown => t \notin Candidates
    BY <1>n, <2>4, TokenFacts DEF CurrentIsCommitted, RetiredIsReplaced, Candidates
  <2>6. WorksAreKnown' /\ UNCHANGED Candidates
    <3>1. \A t \in Candidates : publication'[t].key = publication[t].key
      BY <2>3, <2>5, TokenFacts
    <3>2. UNCHANGED nextToken /\ \A t \in Tokens : /\ work'[t].pc = work[t].pc
                                                   /\ work'[t].key = work[t].key
                                                   /\ work'[t].caller = work[t].caller
      BY <2>1
    <3> QED
      BY <1>n, <3>1, <3>2, WorksStay
  <2>7. CurrentIsCommitted' /\ OneIsShown' /\ RetiredIsReplaced' /\ DesiredIsStarted'
    BY <2>1, <2>2, TokenFacts DEF CurrentIsCommitted, OneIsShown, RetiredIsReplaced,
       DesiredIsStarted
  <2>8. OpenIsNeeded'
    BY <1>n, <2>1, <2>2, <2>3, <2>4, <2>5, <2>6, TokenFacts, NullRecords DEF OpenIsNeeded
  <2> QED
    BY <2>6, <2>7, <2>8 DEF PublicationInv
<1> QED
  BY <1>1, <1>2, <1>3 DEF Close

LEMMA PublicationStep ==
    ASSUME TypeInv, TypeInv', PublicationInv, [Next]_vars
    PROVE  PublicationInv'
<1>n. TypeOK /\ TypeOK'
  BY DEF TypeInv
<1>1. CASE Look \/ RetirementDue
  BY <1>n, <1>1, PrunePublishes DEF Look, RetirementDue
<1>2. CASE GracePasses \/ UNCHANGED vars
  <2>1. UNCHANGED <<publication, current, work, desired, nextToken>>
    BY <1>2 DEF GracePasses, vars
  <2>2. UNCHANGED Retired
    BY <1>2, GraceFields DEF vars, Retired
  <2>3. WorksAreKnown' /\ UNCHANGED Candidates
    BY <2>1 DEF PublicationInv, WorksAreKnown, Working, Candidates
  <2> QED
    BY <1>n, <2>1, <2>2, <2>3, SameDesired, PublicationsStay
<1> QED
  BY <1>n, <1>1, <1>2, WorkPublishes, RefreshPublishes, ReleasePublishes, ClosePublishes DEF Next

-----------------------------------------------------------------------------
(* close, and the repository *)

LEMMA ShownFacts ==
    ASSUME TypeOK
    PROVE  /\ \A t \in Tokens : t \in Shown <=> (\E k \in Keys : current[k] = t) \/ t \in Retired
           /\ Shown = {} <=> Retired = {} /\ \A k \in Keys : current[k] = 0
           /\ Shown \subseteq Tokens
BY TokenFacts DEF Shown

LEMMA ClosingInit == Init => ClosingIsComplete
BY DEF Init, ClosingIsComplete

\* Before close has started
LEMMA ClosingLater ==
    ASSUME ClosingIsComplete, ~Closed, UNCHANGED closing, repository' \in {repository, "open"}
    PROVE  ClosingIsComplete'
BY DEF ClosingIsComplete, Closed

\* Steps that start nothing and show nothing new
LEMMA ClosingStays ==
    ASSUME ClosingIsComplete, UNCHANGED <<closing, awaited, repository>>,
           \A t \in Tokens : work'[t].pc \notin {"none", "done"}
                                 => work[t].pc \notin {"none", "done"},
           \A k \in Keys : refresh'[k].pc \in {"predicate", "answered", "preparing"}
                               => refresh[k].pc \in {"predicate", "answered", "preparing"},
           closing \in {"repository", "closed"}
               => Shown' = {} /\ \A k \in Keys : refresh'[k].pc = "none"
    PROVE  ClosingIsComplete'
BY DEF ClosingIsComplete

LEMMA WorkCloses ==
    ASSUME TypeOK, ClosingIsComplete, NEW t \in Tokens, Work(t)
    PROVE  ClosingIsComplete'
<1>1. CASE WorkOpens(t) \/ StartAdmission(t) \/ CommitWork(t)
  BY <1>1, ClosingLater DEF WorkOpens, StartAdmission, CommitWork, RequireCurrent
<1>2. CASE CallerReturns(t)
  <2>1. /\ work' = [work EXCEPT ![t] = Returned]
        /\ UNCHANGED <<current, deadline, closing, awaited, repository>>
        /\ \A k \in Keys : refresh'[k] = IF refresh[k].pc = "preparing" /\ refresh[k].token = t
                                         THEN [refresh[k] EXCEPT !.pc = "finished"]
                                         ELSE refresh[k]
    BY <1>2 DEF CallerReturns, published
  <2>2. \A s \in Tokens : work'[s].pc \in {work[s].pc, "done"}
    BY <2>1, NullRecords DEF TypeOK
  <2>3. \A k \in Keys : refresh'[k].pc = IF refresh[k].pc = "preparing" /\ refresh[k].token = t
                                         THEN "finished" ELSE refresh[k].pc
    <3>1. \A k \in Keys : refresh[k] \in RefreshSet
      BY DEF TypeOK
    <3>2. \A r \in RefreshSet : [r EXCEPT !.pc = "finished"].pc = "finished"
      BY DEF RefreshSet
    <3> QED
      BY <2>1, <3>1, <3>2, ZenonT(60)
  <2>4. Shown' = Shown
    BY <2>1 DEF Shown, Retired
  <2> QED
    BY <2>1, <2>2, <2>3, <2>4, ClosingStays DEF ClosingIsComplete
<1>3. CASE CallerCancelled(t)
  <2>1. /\ work' = [work EXCEPT ![t] = [Cancelled(work[t]) EXCEPT !.caller = "settling"]]
        /\ UNCHANGED <<current, deadline, refresh, closing, awaited, repository>>
    BY <1>3 DEF CallerCancelled, published
  <2>2. \A s \in Tokens : work'[s].pc = work[s].pc
    <3>1. work[t] \in WorkSet
      BY DEF TypeOK
    <3>2. \A w \in WorkSet : [w EXCEPT !.caller = "settling"].pc = w.pc
      BY DEF WorkSet
    <3> QED
      BY <2>1, <3>1, <3>2, CancelledFields DEF TypeOK
  <2>3. Shown' = Shown
    BY <2>1 DEF Shown, Retired
  <2> QED
    BY <2>1, <2>2, <2>3, ClosingStays DEF ClosingIsComplete
<1>4. CASE \/ \E instance \in Instances : WorkAnswers(t, instance)
           \/ WorkFails(t) \/ DiscardSuperseded(t) \/ DiscardRejected(t)
  <2>1. /\ UNCHANGED <<current, deadline, refresh, closing, awaited, repository>>
        /\ work[t].pc \notin {"none", "done"}
        /\ \E pc : work' = [work EXCEPT ![t].pc = pc]
    BY <1>4 DEF WorkAnswers, WorkFails, DiscardSuperseded, DiscardRejected, Discard, Finish,
       published
  <2>2. \A s \in Tokens : s # t => work'[s] = work[s]
    BY <2>1 DEF TypeOK
  <2>3. Shown' = Shown
    BY <2>1 DEF Shown, Retired
  <2> QED
    BY <2>1, <2>2, <2>3, ClosingStays DEF ClosingIsComplete
<1> QED
  BY <1>1, <1>2, <1>3, <1>4 DEF Work

\* What has expired is closed, or what the group shows is released.
LEMMA ShownShrinks ==
    ASSUME TypeOK, TypeOK', Retired' \subseteq Retired,
           \A k \in Keys : current'[k] \in {current[k], 0}
    PROVE  Shown' \subseteq Shown
BY DEF Shown

LEMMA RefreshCloses ==
    ASSUME TypeOK, TypeOK', ClosingIsComplete, NEW k \in Keys, Refresh(k) \/ Prepare(k)
    PROVE  ClosingIsComplete'
<1>1. CASE RefreshOpens(k) \/ RefreshPrepares(k) \/ Prepare(k)
  BY <1>1, ClosingLater DEF RefreshOpens, RefreshPrepares, Prepare, StillWanted
<1>2. CASE Poll(k)
  <2>1. closing \notin {"repository", "closed"}
    BY <1>2, ShownFacts DEF Poll, ClosingIsComplete
  <2>2. UNCHANGED <<work, closing, awaited, repository>>
    BY <1>2 DEF Poll
  <2>3. \A j \in Keys : refresh'[j].pc = refresh[j].pc \/ refresh'[j].pc = "queued"
    BY <1>2, NullRecords DEF Poll, TypeOK, RefreshSet
  <2> QED
    BY <2>1, <2>2, <2>3, ClosingStays
<1>3. CASE RefreshAnswers(k) \/ RefreshEnds(k)
  <2>1. /\ UNCHANGED <<current, deadline, work, closing, awaited, repository>>
        /\ refresh[k].pc \in {"queued", "predicate", "answered"}
        /\ refresh[k].pc = "queued" => refresh'[k].pc = "finished"
        /\ \A j \in Keys : j # k => refresh'[j] = refresh[j]
    <3>1. refresh[k].pc = "queued" => refresh' = [refresh EXCEPT ![k].pc = "finished"]
      BY <1>3 DEF RefreshAnswers, RefreshEnds
    <3>2. refresh[k].pc = "queued" => refresh'[k].pc = "finished"
      BY <3>1 DEF TypeOK, RefreshSet
    <3>3. \A j \in Keys : j # k => refresh'[j] = refresh[j]
      BY <1>3 DEF RefreshAnswers, RefreshEnds, TypeOK
    <3> QED
      BY <1>3, <3>2, <3>3 DEF RefreshAnswers, RefreshEnds, published
  <2>2. closing \notin {"repository", "closed"}
    BY <2>1 DEF ClosingIsComplete
  <2> QED
    BY <2>1, <2>2, ClosingStays
<1>4. CASE RefreshFinished(k)
  <2>1. /\ UNCHANGED <<current, deadline, work, closing, repository>>
        /\ refresh[k].pc = "finished"
        /\ refresh'[k].pc = "none" /\ \A j \in Keys : j # k => refresh'[j] = refresh[j]
        /\ awaited' = [awaited EXCEPT !.refresh = @ \ {k}]
    BY <1>4, NullRecords DEF RefreshFinished, published, TypeOK
  <2>2. /\ awaited'.work = awaited.work
        /\ \A j \in Keys : j # k => (j \in awaited'.refresh <=> j \in awaited.refresh)
    BY <2>1 DEF TypeOK
  <2>3. closing \notin {"repository", "closed"}
    BY <2>1 DEF ClosingIsComplete
  <2> QED
    BY <2>1, <2>2, <2>3 DEF ClosingIsComplete
<1> QED
  BY <1>1, <1>2, <1>3, <1>4 DEF Refresh

LEMMA CloseCloses ==
    ASSUME TypeOK, WorksAreKnown, ClosingIsComplete, Close
    PROVE  ClosingIsComplete'
<1>1. CASE CloseCalled
  BY <1>1 DEF CloseCalled, ClosingIsComplete
<1>2. CASE CloseStarts
  <2>1. /\ closing' = "gathering" /\ UNCHANGED <<refresh, repository>>
        /\ awaited'.work = Working
        /\ awaited'.refresh = {k \in Keys : refresh[k].pc # "none"}
        /\ repository # "closed"
    BY <1>2 DEF CloseStarts, ClosingIsComplete
  <2>2. \A t \in Tokens : work'[t].pc = work[t].pc
    BY <1>2, CancelledInFields DEF CloseStarts
  <2> QED
    BY <2>1, <2>2 DEF ClosingIsComplete, WorksAreKnown
<1>3. CASE CloseGathered
  <2>1. /\ closing = "gathering" /\ Gathered /\ UNCHANGED <<work, repository>>
        /\ current' = [k \in Keys |-> 0] /\ deadline' = [t \in Tokens |-> NotRetired]
        /\ refresh' = [k \in Keys |-> NoRefresh]
        /\ closing' \in {"repository", "closed"}
    BY <1>3 DEF CloseGathered
  <2>2. \A t \in Tokens : work'[t].pc \in {"none", "done"}
    BY <2>1 DEF ClosingIsComplete, Gathered
  <2>3. \A k \in Keys : refresh'[k].pc = "none"
    BY <2>1, NullRecords
  <2>4. Shown' = {}
    BY <2>1 DEF Shown, Retired
  <2>5. repository # "closed"
    BY <2>1 DEF ClosingIsComplete
  <2> QED
    BY <2>1, <2>2, <2>3, <2>4, <2>5 DEF ClosingIsComplete
<1>4. CASE CloseRepository
  <2>1. Shown' = Shown
    BY <1>4 DEF CloseRepository, published, Shown, Retired
  <2> QED
    BY <1>4, <2>1 DEF CloseRepository, ClosingIsComplete
<1> QED
  BY <1>1, <1>2, <1>3, <1>4 DEF Close

LEMMA ClosingStep ==
    ASSUME TypeInv, TypeInv', PublicationInv, ClosingIsComplete, [Next]_vars
    PROVE  ClosingIsComplete'
<1>n. TypeOK /\ TypeOK' /\ WorksAreKnown
  BY DEF TypeInv, PublicationInv
<1>1. CASE Look \/ RetirementDue \/ GracePasses \/ UNCHANGED vars
  <2>1. UNCHANGED <<current, work, refresh, closing, awaited, repository>>
    BY <1>1 DEF Look, RetirementDue, GracePasses, vars
  <2>2. Retired' \subseteq Retired
    <3>1. CASE Prune(deadline, publication)
      BY <1>n, <2>1, <3>1, LookFields DEF Retired
    <3>2. CASE GracePasses \/ UNCHANGED vars
      BY <3>2, GraceFields DEF vars, Retired
    <3> QED
      BY <1>1, <3>1, <3>2 DEF Look, RetirementDue
  <2>3. Shown' \subseteq Shown
    BY <1>n, <2>1, <2>2, ShownShrinks
  <2> QED
    BY <2>1, <2>3, ClosingStays DEF ClosingIsComplete
<1>2. ASSUME NEW k \in Keys, Release(k)
      PROVE  ClosingIsComplete'
  <2>1. UNCHANGED <<closing, awaited, repository>>
    BY <1>2 DEF Release
  <2>2. \A t \in Tokens : work'[t].pc = work[t].pc
    BY <1>n, <1>2, CancelledInFields DEF Release
  <2>3. \A j \in Keys : refresh'[j].pc = refresh[j].pc
    BY <1>n, <1>2, OutdatedInFields DEF Release
  <2>4. Retired' \subseteq Retired /\ \A j \in Keys : current'[j] \in {current[j], 0}
    BY <1>n, <1>2, ReleaseFields DEF Release
  <2>5. Shown' \subseteq Shown
    BY <1>n, <2>4, ShownShrinks
  <2> QED
    BY <2>1, <2>2, <2>3, <2>5, ClosingStays DEF ClosingIsComplete
<1> QED
  BY <1>n, <1>1, <1>2, WorkCloses, RefreshCloses, CloseCloses DEF Next

\* Every prepared export is open exactly as long as something needs it, and an
\* owned repository is closed after all that uses it, whatever supersedes,
\* fails, is cancelled, is released or closes (_publication.py:321).
THEOREM ResourcesAreAccounted == Spec => []ResourcesAccounted
<1>1. TypeInv /\ PublicationInv /\ ClosingIsComplete => ResourcesAccounted
  <2> SUFFICES ASSUME TypeInv, PublicationInv, ClosingIsComplete
               PROVE  ResourcesAccounted
    OBVIOUS
  <2>n. TypeOK /\ OpenIsNeeded
    BY DEF TypeInv, PublicationInv
  <2>1. \A t \in Tokens : publication[t].state = "open" <=> t \in Shown \/ t \in Candidates
    BY <2>n, ShownFacts DEF OpenIsNeeded
  <2>2. PublicationsAccounted
    BY <2>n, <2>1, ShownFacts, TokenFacts DEF PublicationsAccounted
  <2>3. RepositoryClosesLast
    <3> SUFFICES ASSUME repository = "closed"
                 PROVE  /\ \A t \in Tokens : work[t].pc # "thread" /\ publication[t].state # "open"
                        /\ \A k \in Keys : refresh[k].pc # "predicate"
      BY DEF RepositoryClosesLast
    <3>1. /\ \A t \in Tokens : work[t].pc \in {"none", "done"}
          /\ \A k \in Keys : refresh[k].pc = "none"
          /\ Shown = {}
      BY DEF ClosingIsComplete
    <3> QED
      BY <2>1, <3>1 DEF Candidates
  <2> QED
    BY <2>2, <2>3 DEF ResourcesAccounted
<1> QED
  BY <1>1, TypeInit, TypeStep, PublicationInit, PublicationStep, ClosingInit, ClosingStep, PTL
     DEF Spec

-----------------------------------------------------------------------------
(* The refresh and what the application decides *)

LEMMA DatedInit == Init => RefreshIsDated
BY NullRecords DEF Init, RefreshIsDated

\* A refresh that is running, and what has been decided since
Dated(k) ==
    /\ refresh[k].desired # 0
    /\ refresh[k].desired <= nextToken
    /\ refresh[k].outdated => desired[Group[k]] = 0 \/ desired[Group[k]] > refresh[k].desired

\* Steps of the refreshes while the desired tokens stay
LEMMA DatedStays ==
    ASSUME RefreshIsDated, UNCHANGED <<desired, nextToken>>,
           \A k \in Keys : \/ refresh'[k].pc \notin {"queued", "predicate", "answered"}
                           \/ /\ refresh[k].pc \in {"queued", "predicate", "answered"}
                              /\ refresh'[k].desired = refresh[k].desired
                              /\ refresh'[k].outdated = refresh[k].outdated
                           \/ Dated(k)'
    PROVE  RefreshIsDated'
BY DEF RefreshIsDated, Dated

LEMMA OutdatedInDates ==
    ASSUME TypeOK, NEW g, NEW k \in Keys
    PROVE  /\ OutdatedIn(g)[k].pc = refresh[k].pc
           /\ OutdatedIn(g)[k].desired = refresh[k].desired
           /\ Group[k] # g => OutdatedIn(g)[k] = refresh[k]
BY OutdatedInFields

LEMMA StartDates ==
    ASSUME TypeOK, PublicationInv, RefreshIsDated, NEW k \in Keys,
           NEW by \in {"application", "refresh"}, StartWork(k, by),
           \A j \in Keys : \/ refresh'[j].pc \notin {"queued", "predicate", "answered"}
                           \/ /\ refresh'[j].pc = refresh[j].pc
                              /\ refresh'[j].desired = refresh[j].desired
                              /\ Group[j] # Group[k] => refresh'[j] = refresh[j]
    PROVE  RefreshIsDated'
<1> SUFFICES ASSUME NEW j \in Keys, refresh'[j].pc \in {"queued", "predicate", "answered"}
             PROVE  Dated(j)'
  BY DEF RefreshIsDated, Dated
<1>1. /\ refresh'[j].pc = refresh[j].pc /\ refresh'[j].desired = refresh[j].desired
      /\ Group[j] # Group[k] => refresh'[j] = refresh[j]
  OBVIOUS
<1>2. Dated(j)
  BY <1>1 DEF RefreshIsDated, Dated
<1>3. nextToken' = nextToken + 1 /\ desired' = [desired EXCEPT ![Group[k]] = nextToken + 1]
  BY StartWorkFields
<1>4. /\ nextToken \in Nat /\ refresh[j].desired \in Nat
      /\ Group[j] # Group[k] => desired'[Group[j]] = desired[Group[j]]
      /\ Group[j] = Group[k] => desired'[Group[j]] = nextToken + 1
  BY <1>3, TokenFacts DEF TypeOK, RefreshSet, TokenOrNone
<1>5. /\ refresh'[j].desired # 0
      /\ refresh'[j].desired <= nextToken'
  BY <1>1, <1>2, <1>3, <1>4 DEF Dated
<1>6. CASE Group[j] = Group[k]
  BY <1>1, <1>2, <1>3, <1>4, <1>5, <1>6 DEF Dated
<1>7. CASE Group[j] # Group[k]
  BY <1>1, <1>2, <1>3, <1>4, <1>5, <1>7 DEF Dated
<1> QED
  BY <1>6, <1>7

LEMMA PollDates ==
    ASSUME TypeOK, PublicationInv, RefreshIsDated, NEW k \in Keys, Poll(k)
    PROVE  RefreshIsDated'
<1>1. /\ UNCHANGED <<current, desired, nextToken>> /\ current[k] # 0
      /\ refresh' = [refresh EXCEPT ![k] = [NoRefresh EXCEPT !.pc = "queued",
                         !.selected = current[k], !.desired = desired[Group[k]]]]
  BY DEF Poll
<1>2. refresh'[k].desired = desired[Group[k]] /\ refresh'[k].outdated = FALSE
  BY <1>1 DEF TypeOK, NoRefresh
<1>3. \A j \in Keys : j # k => refresh'[j] = refresh[j]
  BY <1>1 DEF TypeOK
<1>4. desired[Group[k]] # 0 /\ desired[Group[k]] <= nextToken
  <2>1. current[k] <= desired[Group[k]] /\ desired[Group[k]] <= nextToken
    BY <1>1 DEF PublicationInv, CurrentIsCommitted, DesiredIsStarted
  <2>2. current[k] \in Nat /\ current[k] # 0 /\ desired[Group[k]] \in Nat
    BY <1>1, TokenFacts
  <2> QED
    BY <2>1, <2>2
<1>5. Dated(k)'
  BY <1>1, <1>2, <1>4 DEF Dated
<1> QED
  BY <1>1, <1>3, <1>5, DatedStays

LEMMA RefreshDates ==
    ASSUME TypeOK, PublicationInv, RefreshIsDated, NEW k \in Keys, Refresh(k) \/ Prepare(k)
    PROVE  RefreshIsDated'
<1>r. \A j \in Keys : refresh[j] \in RefreshSet
  BY DEF TypeOK
<1>1. CASE RefreshOpens(k) \/ RefreshEnds(k)
  <2>1. PICK pc \in {"predicate", "finished"} :
            /\ refresh' = [refresh EXCEPT ![k].pc = pc]
            /\ pc = "predicate" => refresh[k].pc = "queued"
    BY <1>1 DEF RefreshOpens, RefreshEnds
  <2>2. UNCHANGED <<desired, nextToken>>
    BY <1>1 DEF RefreshOpens, RefreshEnds
  <2>3. /\ refresh'[k].pc = pc /\ refresh'[k].desired = refresh[k].desired
        /\ refresh'[k].outdated = refresh[k].outdated
    BY <1>r, <2>1 DEF RefreshSet, TypeOK
  <2>4. \A j \in Keys : j # k => refresh'[j] = refresh[j]
    BY <2>1 DEF TypeOK
  <2> QED
    BY <2>1, <2>2, <2>3, <2>4, DatedStays
<1>2. CASE RefreshAnswers(k)
  <2>1. PICK stale \in BOOLEAN :
            refresh' = [refresh EXCEPT ![k] = [@ EXCEPT !.pc = "answered", !.stale = stale]]
    BY <1>2 DEF RefreshAnswers
  <2>2. UNCHANGED <<desired, nextToken>> /\ refresh[k].pc = "predicate"
    BY <1>2 DEF RefreshAnswers
  <2>3. /\ refresh'[k].desired = refresh[k].desired
        /\ refresh'[k].outdated = refresh[k].outdated
    BY <1>r, <2>1 DEF RefreshSet, TypeOK
  <2>4. \A j \in Keys : j # k => refresh'[j] = refresh[j]
    BY <2>1 DEF TypeOK
  <2> QED
    BY <2>2, <2>3, <2>4, DatedStays
<1>3. CASE RefreshPrepares(k)
  <2>1. StartWork(k, "refresh")
    BY <1>3 DEF RefreshPrepares
  <2>2. refresh'[k].pc = "preparing" /\ \A j \in Keys : j # k => refresh'[j] = refresh[j]
    BY <1>3, <1>r DEF RefreshPrepares, RefreshSet, TypeOK
  <2> QED
    BY <2>1, <2>2, StartDates
<1>4. CASE RefreshFinished(k)
  <2>1. /\ refresh'[k].pc = "none" /\ \A j \in Keys : j # k => refresh'[j] = refresh[j]
        /\ UNCHANGED <<desired, nextToken>>
    BY <1>4, NullRecords DEF RefreshFinished, TypeOK
  <2> QED
    BY <2>1, DatedStays
<1>5. CASE Prepare(k)
  <2>1. StartWork(k, "application") /\ refresh' = OutdatedIn(Group[k])
    BY <1>5 DEF Prepare
  <2>2. \A j \in Keys : /\ refresh'[j].pc = refresh[j].pc
                        /\ refresh'[j].desired = refresh[j].desired
                        /\ Group[j] # Group[k] => refresh'[j] = refresh[j]
    BY <2>1, OutdatedInDates
  <2> QED
    BY <2>1, <2>2, StartDates
<1> QED
  BY <1>1, <1>2, <1>3, <1>4, <1>5, PollDates DEF Refresh

LEMMA DatedStep ==
    ASSUME TypeInv, PublicationInv, RefreshIsDated, [Next]_vars
    PROVE  RefreshIsDated'
<1>n. TypeOK
  BY DEF TypeInv
<1>1. ASSUME NEW t \in Tokens, Work(t)
      PROVE  RefreshIsDated'
  <2>1. CASE CallerReturns(t)
    <3>1. /\ UNCHANGED <<desired, nextToken>>
          /\ \A k \in Keys : refresh'[k] = IF refresh[k].pc = "preparing" /\ refresh[k].token = t
                                           THEN [refresh[k] EXCEPT !.pc = "finished"]
                                           ELSE refresh[k]
      BY <2>1 DEF CallerReturns
    <3>2. \A k \in Keys : refresh'[k] = refresh[k] \/ refresh'[k].pc = "finished"
      <4>1. \A r \in RefreshSet : [r EXCEPT !.pc = "finished"].pc = "finished"
        BY DEF RefreshSet
      <4>2. \A k \in Keys : refresh[k] \in RefreshSet
        BY <1>n DEF TypeOK
      <4> QED
        BY <3>1, <4>1, <4>2
    <3> QED
      BY <3>1, <3>2, DatedStays
  <2>2. CASE ~CallerReturns(t)
    BY <1>1, <2>2, DatedStays DEF Work, WorkOpens, WorkAnswers, WorkFails, StartAdmission,
       CommitWork, DiscardSuperseded, DiscardRejected, CallerCancelled
  <2> QED
    BY <2>1, <2>2
<1>2. ASSUME NEW k \in Keys, Release(k)
      PROVE  RefreshIsDated'
  <2>1. /\ desired' = [desired EXCEPT ![Group[k]] = 0] /\ UNCHANGED nextToken
        /\ refresh' = OutdatedIn(Group[k])
    BY <1>2 DEF Release
  <2>2. \A j \in Keys : /\ refresh'[j].pc = refresh[j].pc
                        /\ refresh'[j].desired = refresh[j].desired
                        /\ Group[j] # Group[k] => refresh'[j] = refresh[j]
    BY <1>n, <2>1, OutdatedInDates
  <2>3. \A j \in Keys : desired'[Group[j]] = IF Group[j] = Group[k] THEN 0 ELSE desired[Group[j]]
    BY <1>n, <2>1 DEF TypeOK
  <2> QED
    BY <2>1, <2>2, <2>3 DEF RefreshIsDated
<1>3. CASE Close
  <2>1. CASE CloseGathered
    BY <2>1, NullRecords DEF CloseGathered, RefreshIsDated
  <2>2. CASE CloseCalled \/ CloseStarts \/ CloseRepository
    BY <2>2, DatedStays DEF CloseCalled, CloseStarts, CloseRepository
  <2> QED
    BY <1>3, <2>1, <2>2 DEF Close
<1>4. CASE Look \/ RetirementDue \/ GracePasses \/ UNCHANGED vars
  BY <1>4, DatedStays DEF Look, RetirementDue, GracePasses, vars
<1> QED
  BY <1>n, <1>1, <1>2, <1>3, <1>4, RefreshDates DEF Next

\* The only step that lets a refresh prepare is one for which nothing has
\* happened since the poll.
LEMMA PreparingIsWanted ==
    ASSUME TypeInv, [Next]_vars, NEW k \in Keys, refresh[k].pc = "answered",
           refresh'[k].pc = "preparing"
    PROVE  RefreshPrepares(k)
<1>r. \A j \in Keys : refresh[j] \in RefreshSet
  BY DEF TypeInv, TypeOK
<1>1. ASSUME NEW j \in Keys, Refresh(j)
      PROVE  RefreshPrepares(k)
  <2>1. j # k => refresh'[k] = refresh[k]
    BY <1>1 DEF Refresh, Poll, RefreshOpens, RefreshAnswers, RefreshPrepares, RefreshEnds,
       RefreshFinished, TypeInv, TypeOK
  <2>2. ~Poll(k) /\ ~RefreshOpens(k) /\ ~RefreshAnswers(k) /\ ~RefreshFinished(k)
    BY DEF Poll, RefreshOpens, RefreshAnswers, RefreshFinished
  <2>3. ~RefreshEnds(k)
    BY <1>r DEF RefreshEnds, RefreshSet, TypeInv, TypeOK
  <2> QED
    BY <1>1, <2>1, <2>2, <2>3 DEF Refresh
<1>2. ASSUME NEW j \in Keys, Prepare(j) \/ Release(j)
      PROVE  FALSE
  BY <1>2, OutdatedInFields DEF Prepare, Release, TypeInv
<1>3. ASSUME NEW t \in Tokens, Work(t)
      PROVE  FALSE
  <2>1. refresh'[k] = refresh[k]
    BY <1>3 DEF Work, WorkOpens, WorkAnswers, WorkFails, StartAdmission, CommitWork,
       DiscardSuperseded, DiscardRejected, CallerCancelled, CallerReturns
  <2> QED
    BY <2>1
<1>4. CASE Close
  BY <1>4, NullRecords DEF Close, CloseCalled, CloseStarts, CloseGathered, CloseRepository
<1>5. CASE Look \/ RetirementDue \/ GracePasses \/ UNCHANGED vars
  BY <1>5 DEF Look, RetirementDue, GracePasses, vars
<1> QED
  BY <1>1, <1>2, <1>3, <1>4, <1>5 DEF Next

\* A refresh never starts work over what the application has prepared or
\* released since the poll, nor for a publication that is no longer shown
\* (_refresh, with the token of _desired that poll has noted).
THEOREM RefreshYields == Spec => RefreshYieldsToIntent
<1>1. ASSUME TypeInv, RefreshIsDated, [Next]_vars
      PROVE  [\A k \in Keys : refresh[k].pc = "answered" /\ refresh'[k].pc = "preparing"
                  => ~refresh[k].outdated /\ current[k] = refresh[k].selected]_vars
  <2> SUFFICES ASSUME NEW k \in Keys, refresh[k].pc = "answered", refresh'[k].pc = "preparing"
               PROVE  ~refresh[k].outdated /\ current[k] = refresh[k].selected
    OBVIOUS
  <2>1. StillWanted(k)
    BY <1>1, PreparingIsWanted DEF RefreshPrepares
  <2>2. /\ refresh[k].desired # 0
        /\ refresh[k].outdated =>
               desired[Group[k]] = 0 \/ desired[Group[k]] > refresh[k].desired
    BY <1>1 DEF RefreshIsDated
  <2>3. desired[Group[k]] \in Nat
    BY <1>1, TokenFacts DEF TypeInv
  <2> QED
    BY <2>1, <2>2, <2>3 DEF StillWanted
<1> QED
  BY <1>1, TypeInit, TypeStep, PublicationInit, PublicationStep, DatedInit, DatedStep, PTL
     DEF Spec, RefreshYieldsToIntent

-----------------------------------------------------------------------------
(* A replacement keeps the addresses *)

LEMMA ServedStays ==
    ASSUME NEW tokens, NEW tokens2, NEW publications, NEW publications2,
           \A t \in tokens : \E s \in tokens2 :
               /\ Route[publications2[s].key] = Route[publications[t].key]
               /\ publications2[s].instance = publications[t].instance
    PROVE  Served(tokens, publications) \subseteq Served(tokens2, publications2)
BY DEF Served

LEMMA CommitServes ==
    ASSUME TypeOK, TypeOK', PublicationInv, NEW t \in Tokens, CommitWork(t)
    PROVE  Served(Shown \ Expired, publication) \subseteq Served(Shown', publication')
<1> DEFINE key == work[t].key
           g == GroupOf(t)
<1>n. WorksAreKnown /\ CurrentIsCommitted /\ RetiredIsReplaced
  BY DEF PublicationInv
<1>1. t \in Candidates /\ Commit(t) /\ UNCHANGED closing
  BY DEF CommitWork, Candidates
<1>2. publication[t].key = key /\ key \in Keys /\ g = Group[key]
  BY <1>n, <1>1 DEF WorksAreKnown, Candidates, GroupOf
<1>3. /\ \A s \in Tokens :
             /\ publication'[s] =
                    IF s \notin RetiredFor(t) /\ s \in Expired \cup CurrentOf(g)
                    THEN ClosedPublication ELSE publication[s]
             /\ s \in Retired' <=> s \in RetiredFor(t) \cup (Retired \ Expired)
      /\ \A k \in Keys : current'[k] = IF k = key THEN t
                                       ELSE IF Group[k] = g THEN 0 ELSE current[k]
  BY <1>1, <1>2, CommitFields DEF Commit
<1>4. /\ t \in Shown' /\ publication'[t] = publication[t]
  <2>1. t \in Shown'
    BY <1>2, <1>3, ShownFacts, TokenFacts DEF Shown
  <2>2. t \notin Expired /\ t \notin CurrentOf(g)
    BY <1>n, <1>1 DEF Expired, Retired, NotRetired, RetiredIsReplaced, CurrentOf, KeysOf,
       CurrentIsCommitted, Candidates
  <2> QED
    BY <1>3, <2>1, <2>2
<1>5. \A s \in CurrentOf(g) \ RetiredFor(t) :
          /\ publication[t].instance = publication[s].instance
          /\ Route[publication[t].key] = Route[publication[s].key]
  BY DEF RetiredFor, SameAddress, RouteOf
<1>6. \A k \in Keys : Group[k] = g /\ current[k] # 0 => current[k] \in CurrentOf(g)
  BY DEF CurrentOf, KeysOf
<1> HIDE DEF key, g
<1>7. \A s \in Tokens : s \in Retired' => s \in Shown'
  BY DEF Shown
<1>8. ASSUME NEW s \in Shown \ Expired
      PROVE  \E u \in Shown' : /\ Route[publication'[u].key] = Route[publication[s].key]
                               /\ publication'[u].instance = publication[s].instance
  <2>1. s \in Tokens /\ s # 0 /\ ((\E k \in Keys : current[k] = s) \/ s \in Retired)
    BY ShownFacts, TokenFacts
  <2>2. CASE s \in CurrentOf(g) \ RetiredFor(t)
    BY <1>4, <1>5, <2>2
  <2>3. CASE s \in RetiredFor(t)
    BY <1>3, <1>7, <2>1, <2>3
  <2>4. CASE s \notin CurrentOf(g) /\ s \notin RetiredFor(t)
    <3>1. publication'[s] = publication[s]
      BY <1>3, <2>1, <2>4
    <3>2. s \in Shown'
      <4>1. CASE s \in Retired
        BY <1>3, <1>7, <2>1, <4>1
      <4>2. CASE s \notin Retired
        <5>1. PICK k \in Keys : current[k] = s
          BY <2>1, <4>2
        <5>2. current'[k] = s
          <6>1. Group[k] # g
            BY <1>6, <2>1, <2>4, <5>1
          <6> QED
            BY <1>2, <1>3, <5>1, <6>1
        <5> QED
          BY <2>1, <5>2 DEF Shown
      <4> QED
        BY <4>1, <4>2
    <3> QED
      BY <3>1, <3>2
  <2> QED
    BY <2>2, <2>3, <2>4
<1> QED
  BY <1>8, ServedStays

LEMMA DiscardServes ==
    ASSUME TypeOK, PublicationInv, NEW t \in Tokens, DiscardSuperseded(t) \/ DiscardRejected(t)
    PROVE  Served(Shown \ Expired, publication) \subseteq Served(Shown', publication')
<1>1. /\ t \in Candidates /\ publication' = ClosedBy({t}) /\ UNCHANGED <<current, deadline>>
  BY DEF DiscardSuperseded, DiscardRejected, Discard, Candidates
<1>2. t \notin Shown
  BY <1>1, ShownFacts, TokenFacts DEF PublicationInv, CurrentIsCommitted, RetiredIsReplaced,
     Candidates
<1>3. Shown' = Shown
  BY <1>1 DEF Shown, Retired
<1>4. \A s \in Shown : publication'[s] = publication[s]
  BY <1>1, <1>2, ShownFacts DEF ClosedBy
<1> QED
  BY <1>3, <1>4, ServedStays

\* A work ends only by a step of its own.
LEMMA WorkEnds ==
    ASSUME TypeInv, [Next]_vars, NEW t \in Tokens, work[t].pc # "done", work'[t].pc = "done"
    PROVE  WorkFails(t) \/ CommitWork(t) \/ DiscardSuperseded(t) \/ DiscardRejected(t)
<1>n. TypeOK /\ \A s \in Tokens : work[s] \in WorkSet
  BY DEF TypeInv, TypeOK
<1>1. ASSUME NEW s \in Tokens, Work(s)
      PROVE  WorkFails(t) \/ CommitWork(t) \/ DiscardSuperseded(t) \/ DiscardRejected(t)
  <2>1. s = t
    BY <1>n, <1>1 DEF Work, WorkOpens, WorkAnswers, WorkFails, StartAdmission, CommitWork,
       DiscardSuperseded, DiscardRejected, CallerCancelled, CallerReturns, Finish, TypeOK
  <2>2. \A pc : work' = [work EXCEPT ![t].pc = pc] => work'[t].pc = pc
    BY <1>n DEF TypeOK, WorkSet
  <2>3. /\ ~WorkOpens(t) /\ ~StartAdmission(t) /\ ~CallerReturns(t)
        /\ \A instance \in Instances : ~WorkAnswers(t, instance)
    BY <2>2 DEF WorkOpens, StartAdmission, CallerReturns, WorkAnswers
  <2>4. ~CallerCancelled(t)
    <3>1. \A w \in WorkSet : [w EXCEPT !.caller = "settling"].pc = w.pc
      BY DEF WorkSet
    <3>2. Cancelled(work[t]) \in WorkSet /\ Cancelled(work[t]).pc = work[t].pc
      BY <1>n, CancelledFields
    <3>3. CallerCancelled(t) => work'[t] = [Cancelled(work[t]) EXCEPT !.caller = "settling"]
      BY <1>n DEF CallerCancelled, TypeOK
    <3> QED
      BY <3>1, <3>2, <3>3
  <2> QED
    BY <1>1, <2>1, <2>3, <2>4 DEF Work
<1>2. ASSUME NEW k \in Keys, Prepare(k) \/ Refresh(k)
      PROVE  FALSE
  <2>1. CASE Prepare(k) \/ RefreshPrepares(k)
    <3>1. PICK by \in {"application", "refresh"} : StartWork(k, by)
      BY <2>1 DEF Prepare, RefreshPrepares
    <3> QED
      BY <1>n, <3>1, StartWorkFields
  <2>2. CASE UNCHANGED work
    BY <2>2
  <2> QED
    BY <1>2, <2>1, <2>2 DEF Refresh, Poll, RefreshOpens, RefreshAnswers, RefreshEnds,
       RefreshFinished
<1>3. ASSUME NEW k \in Keys, Release(k)
      PROVE  FALSE
  BY <1>n, <1>3, CancelledInFields DEF Release
<1>4. CASE Close
  BY <1>n, <1>4, CancelledInFields DEF Close, CloseCalled, CloseStarts, CloseGathered,
     CloseRepository
<1>5. CASE Look \/ RetirementDue \/ GracePasses \/ UNCHANGED vars
  BY <1>5 DEF Look, RetirementDue, GracePasses, vars
<1> QED
  BY <1>1, <1>2, <1>3, <1>4, <1>5 DEF Next

\* The end of a work takes no address away: what its group showed is served at
\* the same address by the new publication or stays in route grace (_commit).
THEOREM ReplacementKeeps == Spec => ReplacementKeepsAddresses
<1>1. ASSUME TypeInv, TypeInv', PublicationInv, [Next]_vars
      PROVE  [(\E t \in Tokens : work[t].pc # "done" /\ work'[t].pc = "done") =>
                  Served(Shown \ Expired, publication) \subseteq Served(Shown', publication')]_vars
  <2> SUFFICES ASSUME NEW t \in Tokens, work[t].pc # "done", work'[t].pc = "done"
               PROVE  Served(Shown \ Expired, publication) \subseteq Served(Shown', publication')
    OBVIOUS
  <2>1. CASE WorkFails(t)
    <3>1. UNCHANGED publication /\ Shown' = Shown
      BY <2>1 DEF WorkFails, published, Shown, Retired
    <3> QED
      BY <3>1, ServedStays
  <2> QED
    BY <1>1, <2>1, WorkEnds, CommitServes, DiscardServes DEF TypeInv
<1> QED
  BY <1>1, TypeInit, TypeStep, PublicationInit, PublicationStep, PTL
     DEF Spec, ReplacementKeepsAddresses

-----------------------------------------------------------------------------
(* The last good result of each group *)

\* GroupShows for any value of current
ShownIn(c, g) ==
    LET tokens == {c[k] : k \in KeysOf(g)} \ {0} IN
    IF tokens = {} THEN 0 ELSE CHOOSE t \in tokens : TRUE

LEMMA ShownInFacts ==
    ASSUME NEW c, NEW g,
           \A j, k \in KeysOf(g) : c[j] # 0 /\ c[k] # 0 => j = k
    PROVE  /\ (\A k \in KeysOf(g) : c[k] = 0) => ShownIn(c, g) = 0
           /\ \A k \in KeysOf(g) : c[k] # 0 => ShownIn(c, g) = c[k]
<1> DEFINE tokens == {c[k] : k \in KeysOf(g)} \ {0}
<1>1. ShownIn(c, g) = IF tokens = {} THEN 0 ELSE CHOOSE t \in tokens : TRUE
  BY DEF ShownIn
<1>2. (\A k \in KeysOf(g) : c[k] = 0) => tokens = {}
  OBVIOUS
<1>3. ASSUME NEW k \in KeysOf(g), c[k] # 0
      PROVE  tokens = {c[k]}
  BY <1>3
<1>4. \A x : (CHOOSE t \in {x} : TRUE) = x
  OBVIOUS
<1> HIDE DEF tokens
<1> QED
  BY <1>1, <1>2, <1>3, <1>4

LEMMA GroupShowsIn ==
    /\ \A g : GroupShows(g) = ShownIn(current, g)
    /\ (\A g : GroupShows(g) = ShownIn(current, g))'
BY DEF GroupShows, CurrentOf, ShownIn

\* A group shows the publication of the one key of it that has one.
LEMMA ShownOfGroup ==
    ASSUME OneIsShown, NEW g \in Groups
    PROVE  /\ (\A k \in KeysOf(g) : current[k] = 0) => ShownIn(current, g) = 0
           /\ \A k \in KeysOf(g) : current[k] # 0 => ShownIn(current, g) = current[k]
BY ShownInFacts DEF OneIsShown, KeysOf

LEMMA ShownOfGroupNext ==
    ASSUME OneIsShown', NEW g \in Groups
    PROVE  /\ (\A k \in KeysOf(g) : current'[k] = 0) => ShownIn(current', g) = 0
           /\ \A k \in KeysOf(g) : current'[k] # 0 => ShownIn(current', g) = current'[k]
BY ShownInFacts DEF OneIsShown, KeysOf

\* The group depends on the keys of it only.
LEMMA ShownInSame ==
    ASSUME NEW c, NEW d, NEW g, \A k \in KeysOf(g) : c[k] = d[k]
    PROVE  ShownIn(c, g) = ShownIn(d, g)
<1>1. {c[k] : k \in KeysOf(g)} = {d[k] : k \in KeysOf(g)}
  OBVIOUS
<1> QED
  BY <1>1 DEF ShownIn

shownMap == [g \in Groups |-> ShownIn(current, g)]

LEMMA MapFacts ==
    /\ [g \in Groups |-> GroupShows(g)] = shownMap
    /\ [g \in Groups |-> GroupShows(g)]' = shownMap'
BY GroupShowsIn DEF shownMap

LEMMA ShownNotNewer ==
    ASSUME TypeOK, PublicationInv, NEW g \in Groups
    PROVE  /\ ShownIn(current, g) \in Nat
           /\ ShownIn(current, g) = 0 \/ ShownIn(current, g) <= desired[g]
           /\ \A t \in Candidates : ShownIn(current, g) # t
<1>1. CASE \A k \in KeysOf(g) : current[k] = 0
  BY <1>1, ShownOfGroup, TokenFacts DEF PublicationInv
<1>2. ASSUME NEW k \in KeysOf(g), current[k] # 0
      PROVE  /\ ShownIn(current, g) \in Nat
             /\ ShownIn(current, g) = 0 \/ ShownIn(current, g) <= desired[g]
             /\ \A t \in Candidates : ShownIn(current, g) # t
  <2>1. ShownIn(current, g) = current[k] /\ k \in Keys /\ Group[k] = g
    BY <1>2, ShownOfGroup DEF PublicationInv, KeysOf
  <2>2. current[k] <= desired[g] /\ work[current[k]].pc = "done" /\ current[k] \in Nat
    BY <1>2, <2>1, TokenFacts DEF PublicationInv, CurrentIsCommitted
  <2> QED
    BY <2>1, <2>2 DEF Candidates
<1> QED
  BY <1>1, <1>2

LEMMA StartWants ==
    ASSUME TypeOK, PublicationInv, NEW k \in Keys, NEW by \in {"application", "refresh"},
           StartWork(k, by), UNCHANGED current
    PROVE  LastGood!Want(Group[k])
<1>1. /\ desired' = [desired EXCEPT ![Group[k]] = nextToken + 1]
      /\ nextToken \in Nat
  BY StartWorkFields, TokenFacts
<1>2. Group[k] \in Groups /\ desired'[Group[k]] = nextToken + 1
  BY <1>1 DEF TypeOK
<1>3. ASSUME NEW h \in Groups
      PROVE  nextToken + 1 > desired[h] /\ nextToken + 1 > shownMap[h]
  <2>1. desired[h] <= nextToken /\ desired[h] \in Nat
    BY TokenFacts DEF PublicationInv, DesiredIsStarted
  <2>2. /\ shownMap[h] \in Nat
        /\ shownMap[h] = 0 \/ shownMap[h] <= desired[h]
    BY ShownNotNewer DEF shownMap
  <2> QED
    BY <1>1, <2>1, <2>2
<1>4. shownMap' = shownMap
  BY DEF shownMap
<1> DEFINE map == [g \in Groups |-> GroupShows(g)]
<1>5. map = shownMap /\ map' = shownMap'
  BY MapFacts
<1>6. \A h \in Groups : desired'[Group[k]] > desired[h] /\ desired'[Group[k]] > map[h]
  BY <1>2, <1>3, <1>5
<1>7. /\ desired'[Group[k]] \in Nat
      /\ desired' = [desired EXCEPT ![Group[k]] = desired'[Group[k]]]
  <2>1. ASSUME NEW n, n = nextToken + 1, desired'[Group[k]] = n
        PROVE  desired' = [desired EXCEPT ![Group[k]] = desired'[Group[k]]]
    BY <1>1, <2>1, Zenon
  <2>2. desired' = [desired EXCEPT ![Group[k]] = desired'[Group[k]]]
    BY <1>2, <2>1, Zenon
  <2>3. nextToken + 1 \in Nat
    BY <1>1
  <2> QED
    BY <1>2, <2>2, <2>3, Zenon
<1>8. UNCHANGED map
  BY <1>4, <1>5
<1> QED
  BY <1>6, <1>7, <1>8 DEF LastGood!Want

LEMMA CommitWorkShows ==
    ASSUME TypeOK, PublicationInv, PublicationInv', NEW t \in Tokens, CommitWork(t)
    PROVE  \E g \in Groups : LastGood!Show(g)
<1> DEFINE key == work[t].key
           g == GroupOf(t)
<1>1. t \in Candidates /\ Commit(t) /\ RequireCurrent(t) /\ UNCHANGED desired
  BY DEF CommitWork, Candidates
<1>2. publication[t].key = key /\ key \in Keys /\ g = Group[key] /\ desired[g] = t
  <2>1. publication[t].key = key /\ key \in Keys
    BY <1>1 DEF PublicationInv, WorksAreKnown, Candidates
  <2> QED
    BY <1>1, <2>1 DEF GroupOf, RequireCurrent
<1>3. \A k \in Keys : current'[k] = IF k = key THEN t
                                    ELSE IF Group[k] = g THEN 0 ELSE current[k]
  BY <1>1, <1>2 DEF Commit
<1> HIDE DEF key, g
<1>4. g \in Groups /\ key \in KeysOf(g) /\ t \in Nat /\ t # 0
  BY <1>2, TokenFacts DEF KeysOf
<1>5. desired[g] > shownMap[g]
  <2>1. /\ ShownIn(current, g) \in Nat /\ ShownIn(current, g) # t
        /\ ShownIn(current, g) = 0 \/ ShownIn(current, g) <= desired[g]
    BY <1>1, <1>4, ShownNotNewer
  <2> QED
    BY <1>2, <1>4, <2>1 DEF shownMap
<1>6. ShownIn(current', g) = t
  BY <1>2, <1>3, <1>4, ShownOfGroupNext DEF PublicationInv
<1>7. \A h \in Groups : h # g => ShownIn(current', h) = ShownIn(current, h)
  BY <1>2, <1>3, ShownInSame DEF KeysOf
<1>8. shownMap' = [shownMap EXCEPT ![g] = desired[g]]
  BY <1>2, <1>6, <1>7 DEF shownMap
<1> QED
  BY <1>1, <1>4, <1>5, <1>8, MapFacts DEF LastGood!Show

LEMMA ReleaseReleases ==
    ASSUME TypeOK, PublicationInv, PublicationInv', NEW k \in Keys, Release(k)
    PROVE  \E g \in Groups : LastGood!Release(g)
<1> DEFINE g == Group[k]
<1>1. /\ desired' = [desired EXCEPT ![g] = 0]
      /\ \A j \in Keys : current'[j] = IF Group[j] = g THEN 0 ELSE current[j]
      /\ g \in Groups
  BY DEF Release
<1> HIDE DEF g
<1>2. ShownIn(current', g) = 0
  BY <1>1, ShownOfGroupNext DEF PublicationInv, KeysOf
<1>3. \A h \in Groups : h # g => ShownIn(current', h) = ShownIn(current, h)
  BY <1>1, ShownInSame DEF KeysOf
<1>4. shownMap' = [shownMap EXCEPT ![g] = 0]
  BY <1>2, <1>3 DEF shownMap
<1> QED
  BY <1>1, <1>4, MapFacts DEF LastGood!Release

LEMMA GatheredCloses ==
    ASSUME TypeOK, PublicationInv', CloseGathered
    PROVE  LastGood!Close
<1>1. /\ desired' = [g \in Groups |-> 0]
      /\ \A k \in Keys : current'[k] = 0
  BY DEF CloseGathered
<1>2. \A g \in Groups : ShownIn(current', g) = 0
  BY <1>1, ShownOfGroupNext DEF PublicationInv, KeysOf
<1>3. shownMap' = [g \in Groups |-> 0]
  BY <1>2 DEF shownMap
<1> QED
  BY <1>1, <1>3, MapFacts DEF LastGood!Close

\* Each group shows the result of the latest intent or what it showed before,
\* and nothing that was superseded or released: the controller implements
\* LastGood (_require_current, _commit, release), for any keys and works.
THEOREM ShowsLastGood == Spec => ImplementsLastGood
<1>1. Init => LastGood!Init
  <2> SUFFICES ASSUME Init PROVE LastGood!Init
    OBVIOUS
  <2>1. /\ desired = [g \in Groups |-> 0]
        /\ \A k \in Keys : current[k] = 0
    BY DEF Init
  <2>2. \A g \in Groups : ShownIn(current, g) = 0
    BY <2>1, ShownOfGroup, PublicationInit DEF PublicationInv, KeysOf
  <2>3. shownMap = [g \in Groups |-> 0]
    BY <2>2 DEF shownMap
  <2> QED
    BY <2>1, <2>3, MapFacts DEF LastGood!Init
<1>2. ASSUME TypeInv, PublicationInv, PublicationInv', [Next]_vars
      PROVE  [LastGood!Next]_LastGood!vars
  <2>n. TypeOK
    BY <1>2 DEF TypeInv
  <2> USE DEF published
  <2>1. CASE UNCHANGED <<current, desired>>
    <3>1. shownMap' = shownMap
      BY <2>1 DEF shownMap
    <3> QED
      BY <2>1, <3>1, MapFacts DEF LastGood!vars
  <2>2. ASSUME NEW t \in Tokens, Work(t)
        PROVE  [LastGood!Next]_LastGood!vars
    <3>1. CASE CommitWork(t)
      BY <1>2, <2>n, <3>1, CommitWorkShows DEF LastGood!Next
    <3>2. CASE ~CommitWork(t)
      <4>1. UNCHANGED <<current, desired>>
        BY <2>2, <3>2 DEF Work, WorkOpens, WorkAnswers, WorkFails, StartAdmission,
           DiscardSuperseded, DiscardRejected, Discard, CallerCancelled, CallerReturns
      <4> QED
        BY <2>1, <4>1
    <3> QED
      BY <3>1, <3>2
  <2>3. ASSUME NEW k \in Keys, Prepare(k) \/ Refresh(k)
        PROVE  [LastGood!Next]_LastGood!vars
    <3>1. CASE Prepare(k) \/ RefreshPrepares(k)
      <4>1. UNCHANGED current /\ \E by \in {"application", "refresh"} : StartWork(k, by)
        BY <3>1 DEF Prepare, RefreshPrepares
      <4>2. LastGood!Want(Group[k]) /\ Group[k] \in Groups
        BY <1>2, <2>n, <4>1, StartWants
      <4> QED
        BY <4>2 DEF LastGood!Next
    <3>2. CASE Refresh(k) /\ ~RefreshPrepares(k)
      <4>1. UNCHANGED <<current, desired>>
        BY <3>2 DEF Refresh, Poll, RefreshOpens, RefreshAnswers, RefreshEnds, RefreshFinished
      <4> QED
        BY <2>1, <4>1
    <3> QED
      BY <2>3, <3>1, <3>2
  <2>4. ASSUME NEW k \in Keys, Release(k)
        PROVE  [LastGood!Next]_LastGood!vars
    BY <1>2, <2>n, <2>4, ReleaseReleases DEF LastGood!Next
  <2>5. CASE Close
    <3>1. CASE CloseGathered
      BY <1>2, <2>n, <3>1, GatheredCloses DEF LastGood!Next
    <3>2. CASE CloseCalled \/ CloseStarts \/ CloseRepository
      BY <2>1, <3>2 DEF CloseCalled, CloseStarts, CloseRepository
    <3> QED
      BY <2>5, <3>1, <3>2 DEF Close
  <2>6. CASE Look \/ RetirementDue \/ GracePasses \/ UNCHANGED vars
    BY <2>1, <2>6 DEF Look, RetirementDue, GracePasses, vars
  <2> QED
    BY <1>2, <2>2, <2>3, <2>4, <2>5, <2>6 DEF Next
<1> QED
  BY <1>1, <1>2, TypeInit, TypeStep, PublicationInit, PublicationStep, PTL
     DEF Spec, ImplementsLastGood, LastGood!Spec
=============================================================================
