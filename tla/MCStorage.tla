------------------------------- MODULE MCStorage -------------------------------
(* The parts of the repository on disk and of the preparation that fills it,    *)
(* each with its own variables.  They do not share state, so a behaviour of     *)
(* this module is a behaviour of one part.                                      *)
EXTENDS ArtifactStore, Retention, MaintenanceFile, DirectoryCommit, CatalogReset,
        StateExecution, CellCache, PrepareExport, ExportPlanning

CONSTANTS st1, gn1
MCStates == {st1}
MCGenerations == {gn1}
MCMembers == [g \in MCGenerations |-> MCStates]

MCKeptGenerations == {"ga1", "ga2", "gb"}
MCKeptStates == {"s1", "s2", "s3"}
MCScopes == {"a", "b", "k1", "k2"}
MCScopeOf == [ga1 |-> "a", ga2 |-> "a", gb |-> "b", s1 |-> "k1", s2 |-> "k1", s3 |-> "k2"]
MCPinned == [ga1 |-> {"s1"}, ga2 |-> {"s1"}, gb |-> {"s3"}]
MCContent == [ga1 |-> 1, ga2 |-> 2, gb |-> 1, s1 |-> 1, s2 |-> 2, s3 |-> 2]
MCMeta == [a \in MCKeptGenerations \cup MCKeptStates |-> 1]
MCLimits == [retained_identities |-> 1, retained_generations |-> 2,
             retained_generations_per_identity |-> 2, retained_prepared_states |-> 2,
             metadata_bytes |-> 5, prepared_state_bytes |-> 3, generation_bytes |-> 3,
             repository_bytes |-> 7]

MCOwnTree == [w1 |-> "tree1", w2 |-> "tree2"]

-----------------------------------------------------------------------------
(* StateExecution: a chain of cells and a fork, with every kind of cell *)

CellActs == {"ran", "stops early", "stops late", "raises early", "raises late", "stopped"}
Book(parents, acts, ui, same) ==
    [n |-> Len(parents), parents |-> parents, acts |-> acts, disabled |-> {}, ui |-> ui,
     same |-> same, rejects |-> {}, objects |-> [u \in ui |-> {u}],
     owner |-> <<Len(parents), Len(parents) - 1>>, optional |-> {1},
     source |-> <<"json", "native">>,
     returns |-> <<[kind |-> "blob", media |-> "json", valid |-> TRUE], [kind |-> "scalar"]>>]
Chain == <<{}, {1}, {2}, {1, 3}>>  \* input 1, a cell between, input 3, a cell after both
Fork == <<{}, {}, {1}, {2, 3}>>    \* two inputs that meet in the last cell
PlainBook == Book(Chain, <<"ran", "ran", "ran", "ran">>, {1, 3}, {})
BlobOf(media) == [kind |-> "blob", media |-> media, valid |-> TRUE]
OddBooks ==
    {[PlainBook EXCEPT !.rejects = {3}], [PlainBook EXCEPT !.objects = [u \in {1, 3} |-> {1}]],
     [PlainBook EXCEPT !.disabled = {2}], [PlainBook EXCEPT !.owner = <<4, 9>>],
     [PlainBook EXCEPT !.returns[2] = [kind |-> "uncached"]],
     [PlainBook EXCEPT !.returns[1] = [kind |-> "unfit"]],
     [PlainBook EXCEPT !.returns[2] = [kind |-> "unfit"]],
     [PlainBook EXCEPT !.returns[2] = [kind |-> "raises"]],
     [PlainBook EXCEPT !.returns[1].media = "other"],
     [PlainBook EXCEPT !.source[2] = "rendered", !.returns[2] = BlobOf("output")],
     [PlainBook EXCEPT !.source[2] = "cell", !.returns[2] = BlobOf("output")]}
MCNotebooks ==
    {Book(Chain, <<"ran", a, "ran", b>>, ui, same) :
        a, b \in CellActs, ui \in {{}, {1}, {1, 3}}, same \in {{}, {1}}}
    \cup {Book(Fork, <<"ran", "ran", a, b>>, ui, {}) :
            a, b \in CellActs, ui \in {{1}, {2}, {1, 2}}}
    \cup OddBooks

-----------------------------------------------------------------------------
(* PrepareExport: an export and a live capture, or a plan of each *)

MCCallKinds == {"c1" :> "file" @@ "c2" :> "session", "c1" :> "plan" @@ "c2" :> "plan_session"}
MCOpensRepository == "c1" :> TRUE @@ "c2" :> FALSE
MCRows == [a |-> 0, b |-> 2]
MCEntryBytes == <<2, 3>>

-----------------------------------------------------------------------------
(* ExportPlanning: overlapping controls with dependencies, and sparse rows *)

MCNameRank == "a" :> 1 @@ "b" :> 2 @@ "c" :> 3
PlanBase(k) == [x |-> [v |-> 1], p |-> [k |-> k, l |-> 1]]
RootCases ==
    {[controls |-> held, needs |-> [a |-> a, b |-> b, c |-> c], eligible |-> e,
      relevant |-> {r}, patched |-> {"p"}, baseline |-> PlanBase(1), started |-> PlanBase(1),
      rows |-> "a" :> << >>] :
        held \in [{"a", "b", "c"} -> {{}, {1}, {1, 2}, {2, 3}}],
        a \in {{}, {"c"}}, b \in {{}, {"a"}}, c \in {{}, {"b"}},
        e \in {{"a", "b", "c"}, {"a", "b"}, {"b", "c"}}, r \in {"a", "c"}}
AuthoredRows ==
    {<< >>, [x |-> [v |-> 2]], [p |-> [k |-> 2]], [p |-> [k |-> 1]],
     [x |-> [v |-> 1], p |-> [l |-> 2]], [p |-> [k |-> 2, l |-> 1]]}
RowCases ==
    {[controls |-> "a" :> {1}, needs |-> "a" :> {}, eligible |-> {"a"}, relevant |-> {"a"},
      patched |-> {"p"}, baseline |-> PlanBase(k), started |-> PlanBase(1), rows |-> r] :
        k \in {1, 2}, r \in [{"a", "b"} -> AuthoredRows]}
MCNotebookPlans == RootCases \cup RowCases

-----------------------------------------------------------------------------
(* One part at a time *)

VARIABLE part

storageVars == <<part, storeVars, retentionVars, lockVars, commitVars, resetVars, runVars,
                 cacheVars, prepareVars, planningVars>>

\* A part whose turn it is not rests.
StorageInit ==
    /\ part \in {"store", "retention", "lock", "directory", "reset",
                "run", "cache", "prepare", "planning"}
    /\ StoreInit /\ RetentionInit /\ LockInit /\ ResetInit
    /\ CommitInit
    /\ part # "directory" => platform = "exchange" /\ destination = Absent
    /\ IF part = "run" THEN RunInit
       ELSE book = 0 /\ cell = 0 /\ stopping = 0 /\ staterun = 0 /\ kernelChild = 0
    /\ IF part = "cache" THEN CacheInit
       ELSE /\ globals = 0 /\ patches = 0 /\ third = 0 /\ borrowed = 0
            /\ users = 0 /\ scope = 0 /\ store = 0
    /\ PrepareInit
    /\ part # "prepare" => notebook.limit = Min(IndexLimits) /\ calls["c1"].kind = "file"
    /\ IF part = "planning" THEN PlanningInit ELSE planning = 0

StorageNext ==
    /\ UNCHANGED part
    /\ \/ part = "store" /\ StoreNext
          /\ UNCHANGED <<retentionVars, lockVars, commitVars, resetVars, runVars,
                       cacheVars, prepareVars, planningVars>>
       \/ part = "retention" /\ RetentionNext
          /\ UNCHANGED <<storeVars, lockVars, commitVars, resetVars, runVars,
                       cacheVars, prepareVars, planningVars>>
       \/ part = "lock" /\ LockNext
          /\ UNCHANGED <<storeVars, retentionVars, commitVars, resetVars, runVars,
                       cacheVars, prepareVars, planningVars>>
       \/ part = "directory" /\ CommitNext
          /\ UNCHANGED <<storeVars, retentionVars, lockVars, resetVars, runVars,
                       cacheVars, prepareVars, planningVars>>
       \/ part = "reset" /\ ResetNext
          /\ UNCHANGED <<storeVars, retentionVars, lockVars, commitVars, runVars,
                       cacheVars, prepareVars, planningVars>>
       \/ part = "run" /\ RunNext
          /\ UNCHANGED <<storeVars, retentionVars, lockVars, commitVars, resetVars,
                       cacheVars, prepareVars, planningVars>>
       \/ part = "cache" /\ CacheNext
          /\ UNCHANGED <<storeVars, retentionVars, lockVars, commitVars, resetVars,
                       runVars, prepareVars, planningVars>>
       \/ part = "prepare" /\ PrepareNext
          /\ UNCHANGED <<storeVars, retentionVars, lockVars, commitVars, resetVars,
                       runVars, cacheVars, planningVars>>
       \/ part = "planning" /\ PlanningNext
          /\ UNCHANGED <<storeVars, retentionVars, lockVars, commitVars, resetVars,
                       runVars, cacheVars, prepareVars>>

StorageSpec == StorageInit /\ [][StorageNext]_storageVars

-----------------------------------------------------------------------------
(* Their properties *)

\* The types of all parts.
StorageTypeOK ==
    /\ StoreTypeOK /\ RetentionTypeOK /\ LockTypeOK /\ CommitTypeOK /\ ResetTypeOK
    /\ PrepareTypeOK
    /\ part = "run" => RunTypeOK
    /\ part = "cache" => CacheTypeOK
    /\ part = "planning" => PlanningTypeOK

\* The plan sets every input of each state, a state run answers for these inputs, and
\* the cell cache it borrows is given back (_execution/plan.py, _marimo/compat).
StatesAreTheirOwn ==
    /\ part = "planning" => PlansAreComplete
    /\ part = "run" => StateRunsAreSound
    /\ part = "cache" => CellCacheIsSound
=============================================================================
