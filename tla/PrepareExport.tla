--------------------------- MODULE PrepareExport ---------------------------
(***************************************************************************)
(* prepare(), capture_session(), plan() and plan_session(): the services   *)
(* that turn a notebook and an ExportSpec into a leased export.            *)
(*                                                                         *)
(* A call computes the repository identity, takes an exact export if the   *)
(* repository holds one, and otherwise reserves the identity, looks again, *)
(* plans through a notebook, captures the states that are missing one by   *)
(* one, and installs the assembled export.  Meanwhile the saved source,    *)
(* the live session and its input values change, other calls run on the    *)
(* same identity, progress callbacks raise, callers cancel and the         *)
(* reservation may be lost.                                                *)
(*                                                                         *)
(* A version of the notebook stands for its document and its producer      *)
(* identity.  The notebook has one input; a state is the value of it, and  *)
(* an authored row either names that value or omits it.  The repository's  *)
(* own fences are the subject of ReservationFence: here a lost reservation *)
(* is one that another call can take and under which nothing commits.      *)
(***************************************************************************)
EXTENDS Integers, FiniteSets, FiniteSetsExt, Sums

CONSTANTS
    PrepareCalls,     \* the calls
    CallKinds,        \* kinds of the calls tried: "file", "session", "plan", "plan_session"
    OpensRepository,  \* whether the call opened its repository itself
    Aliases,          \* the authored state names
    Rows,             \* Aliases -> the value a row names, or Omitted
    Values,           \* what the input can be: positive integers
    Autorun,          \* its value after the initial autorun of the saved source
    Versions,         \* contents of the notebook, the first is 1
    EntryBytes,       \* Values -> what a captured state adds to the index
    LeastEntry,       \* what the cheapest entry adds
    IndexLimits,      \* the limits tried
    MaxNotebookEdits, \* bound: edits of source, session and input
    MaxCallTroubles   \* bound: raising callbacks, cancellations, failures

Omitted == 0
NoCall == "nobody"

ASSUME PrepareAssumption ==
    /\ CallKinds \subseteq [PrepareCalls -> {"file", "session", "plan", "plan_session"}]
    /\ OpensRepository \in [PrepareCalls -> BOOLEAN]
    /\ NoCall \notin PrepareCalls
    /\ IsFiniteSet(Aliases) /\ Aliases # {}
    /\ Rows \in [Aliases -> Values \cup {Omitted}]
    /\ Autorun \in Values /\ Values \subseteq Nat \ {0}
    /\ 1 \in Versions /\ Versions \subseteq Nat \ {0}
    /\ LeastEntry \in Nat /\ EntryBytes \in [Values -> Nat]
    /\ \A v \in Values : EntryBytes[v] >= LeastEntry
    /\ IndexLimits \subseteq Nat
    /\ MaxNotebookEdits \in Nat /\ MaxCallTroubles \in Nat

VARIABLES
    notebook,   \* saved and live version, the session's input value, budgets
    shared,     \* the repository: prepared states, exports, reservations
    calls       \* what each call holds

prepareVars == <<notebook, shared, calls>>

NewCall(kind) ==
    [kind |-> kind, pc |-> "idle", repository |-> "none", producer |-> 0, opened |-> 0,
     relation |-> <<>>, reusable |-> {}, captured |-> {}, leased |-> {}, target |-> 0,
     artifact |-> {}, prior |-> {}, reused |-> FALSE, cancelled |-> FALSE,
     failure |-> "none", loose |-> {}, seen |-> {}]

PrepareInit ==
    /\ notebook \in [saved : {1}, live : {1}, ui : {Autorun}, limit : IndexLimits,
                     edits : {0}, troubles : {0}]
    /\ shared = [states |-> {}, exports |-> {}, holder |-> [v \in Versions |-> NoCall]]
    /\ \E kind \in CallKinds : calls = [c \in PrepareCalls |-> NewCall(kind[c])]

-----------------------------------------------------------------------------
(* Plans, the index budget and the repository's rows *)

IsLive(c) == calls[c].kind \in {"session", "plan_session"}
Plans(c) == calls[c].kind \in {"plan", "plan_session"}

\* The complete inputs of every alias: an omitted input keeps the baseline.
Relation(baseline) ==
    [a \in Aliases |-> IF Rows[a] = Omitted THEN baseline ELSE Rows[a]]

Fingerprints(relation) == {relation[a] : a \in DOMAIN relation}

\* Mutation of SpecEntries: every authored row counts as a state of its own.
EveryRowCounts == Cardinality(Aliases)

\* IndexProjection.for_spec: only rows that assign the same names and differ
\* in a value are sure to be distinct states.
SpecEntries ==
    LET named == {a \in Aliases : Rows[a] # Omitted}
        sizes == {Cardinality({Rows[a] : a \in named})}
                 \cup (IF named = Aliases THEN {} ELSE {1})
    IN Max(sizes)

\* for_plan and measure: the states in measured count at their exact cost.
Projected(values, measured) ==
    SumOf([v \in values |-> IF v \in measured THEN EntryBytes[v] ELSE LeastEntry], values)

IndexFits(size) == size <= notebook.limit

StatesOf(producer) == {s \in shared.states : s.producer = producer}
Reusable(producer, values) == {s.value : s \in StatesOf(producer)} \cap values

\* The current export of an identity, as a set of at most one.
CurrentExport(producer) == {e \in shared.exports : e.producer = producer}

\* plan.matches(artifact), for artifacts of the plan's own identity.
ArtifactMatches(e, relation) == e.relation = relation

-----------------------------------------------------------------------------
(* How a step moves a call on, and how a call ends *)

Changed(call, fields) ==
    [f \in DOMAIN call |-> IF f \in DOMAIN fields THEN fields[f] ELSE call[f]]
Update(c, fields) == calls' = [calls EXCEPT ![c] = Changed(@, fields)]

Released(c) ==
    [shared EXCEPT !.holder = [v \in Versions |-> IF @[v] = c THEN NoCall ELSE @[v]]]

CallCancelled(c) == calls[c].cancelled
ReservationLost(c) == shared.holder[calls[c].producer] # c
Stopped(c) == CallCancelled(c) \/ ReservationLost(c)

\* Mutation of ArtifactAfterFailure: an export whose progress callback raised stays leased.
ArtifactStaysLeased(held) == held

\* Every path that fails with an export in hand closes it.
ArtifactAfterFailure(held) == {}

\* Mutation of RepositoryAfter: a repository the call opened itself stays open.
RepositoryStays(c) == "open"

\* if owns_repository and not transferred: selected.close()
RepositoryAfter(c) == IF OpensRepository[c] THEN "closed" ELSE "open"

Failed(c, why, loose, held) ==
    [pc |-> "failed", failure |-> why, loose |-> loose, leased |-> {},
     artifact |-> ArtifactAfterFailure(held), repository |-> RepositoryAfter(c)]

RefuseCall(c, why) ==
    /\ Update(c, Failed(c, why, {}, calls[c].artifact))
    /\ shared' = Released(c)
    /\ UNCHANGED notebook

Trouble(n) ==
    /\ notebook.troubles < MaxCallTroubles
    /\ n = [notebook EXCEPT !.troubles = @ + 1]

\* A progress callback, the notebook or the repository raises.
Raise(c, loose) ==
    /\ Trouble(notebook')
    /\ Update(c, Failed(c, "raised", loose, calls[c].artifact))
    /\ shared' = Released(c)

CallAt(c, pc) == calls[c].pc = pc
CallStep(c, fields) == Update(c, fields) /\ UNCHANGED <<notebook, shared>>

\* The version a call's producer has at this moment.
VersionNow(c) == IF IsLive(c) THEN notebook.live ELSE notebook.saved

-----------------------------------------------------------------------------
(* Identity, exact export and reservation *)

Begin(c) ==
    /\ CallAt(c, "idle")
    /\ \/ ~IndexFits(SpecEntries * LeastEntry) /\ RefuseCall(c, "spec_budget")
       \/ /\ IndexFits(SpecEntries * LeastEntry)
          /\ IF CallCancelled(c) THEN RefuseCall(c, "cancelled")
             ELSE CallStep(c, [pc |-> IF IsLive(c) THEN "inspect" ELSE "current",
                           producer |-> notebook.saved, repository |-> "open"])

\* A live plan: the kernel refuses a session that differs from its saved source.
LivePlan(pc) ==
    [pc |-> pc, producer |-> notebook.live, relation |-> Relation(notebook.ui),
     seen |-> {notebook.live},
     reusable |-> Reusable(notebook.live, Fingerprints(Relation(notebook.ui)))]
LiveIsSaved == notebook.live = notebook.saved
LivePlanFits == IndexFits(Projected(Fingerprints(Relation(notebook.ui)), {}))

\* inspection_started and the first session._plan, outside the reservation.
Inspect(c) ==
    /\ CallAt(c, "inspect")
    /\ \/ Raise(c, {})
       \/ ~LiveIsSaved /\ RefuseCall(c, "changed")
       \/ LiveIsSaved /\ ~LivePlanFits /\ RefuseCall(c, "budget")
       \/ /\ LiveIsSaved /\ LivePlanFits
          /\ CallStep(c, LivePlan(IF Plans(c) THEN "match" ELSE "reserve"))

\* preparation.current for a file, before the reservation and again under it.
LookUpExport(c) ==
    LET exact == CurrentExport(calls[c].producer)
        other == IF Plans(c) \/ CallAt(c, "reserved") THEN "open" ELSE "reserve"
    IN CallStep(c, IF exact = {} THEN [pc |-> other]
               ELSE [pc |-> "exact", artifact |-> exact, seen |-> {notebook.saved}])

Current(c) == CallAt(c, "current") /\ LookUpExport(c)

Reserve(c) ==
    /\ CallAt(c, "reserve")
    /\ \/ CallCancelled(c) /\ RefuseCall(c, "cancelled")
       \/ shared.holder[calls[c].producer] # NoCall /\ Raise(c, {})
       \/ /\ shared.holder[calls[c].producer] = NoCall /\ ~CallCancelled(c)
          /\ shared' = [shared EXCEPT !.holder[calls[c].producer] = c]
          /\ Update(c, [pc |-> "reserved"])
          /\ UNCHANGED notebook

RecheckFile(c) ==
    /\ CallAt(c, "reserved") /\ ~IsLive(c)
    /\ IF Stopped(c) THEN RefuseCall(c, "cancelled") ELSE LookUpExport(c)

SameProducer(c) == notebook.live = calls[c].producer

ReplanSession(c) ==
    /\ CallAt(c, "reserved") /\ IsLive(c)
    /\ \/ Stopped(c) /\ RefuseCall(c, "cancelled")
       \/ ~Stopped(c) /\ (~LiveIsSaved \/ ~SameProducer(c)) /\ RefuseCall(c, "changed")
       \/ /\ ~Stopped(c) /\ LiveIsSaved /\ SameProducer(c)
          /\ IF LivePlanFits THEN CallStep(c, LivePlan("match"))
             ELSE RefuseCall(c, "budget")

\* A live call takes the current export only if it holds the relation just planned.
MatchSession(c) ==
    LET exact == CurrentExport(calls[c].producer)
        same == {e \in exact : ArtifactMatches(e, calls[c].relation)}
    IN /\ CallAt(c, "match")
       /\ IF Plans(c)
          THEN \/ Raise(c, {})
               \/ CallStep(c, [pc |-> "returned", reused |-> same # {},
                           repository |-> RepositoryAfter(c)])
          ELSE CallStep(c, IF same # {} THEN [pc |-> "exact", artifact |-> same]
                       ELSE [pc |-> "states", prior |-> exact])

\* Mutation of ExactIsCurrent: drift of the source after the preflight is not looked for.
ExactIsUnchecked(c) == TRUE

\* require_preflight_current; a live call has planned under its reservation.
ExactIsCurrent(c) == IsLive(c) \/ notebook.saved = calls[c].producer

\* exact_prepared, and for plan() plan_from_artifact followed by exact.close().
TakeExact(c) ==
    LET relation == IF IsLive(c) THEN calls[c].relation
                    ELSE (CHOOSE e \in calls[c].artifact : TRUE).relation
    IN /\ CallAt(c, "exact")
       /\ \/ ~ExactIsCurrent(c) /\ RefuseCall(c, "changed")
          \/ Raise(c, {})
          \/ /\ ExactIsCurrent(c)
             /\ Update(c, [pc |-> "returned", relation |-> relation, reused |-> TRUE,
                           reusable |-> Fingerprints(relation), captured |-> {},
                           artifact |-> IF Plans(c) THEN {} ELSE calls[c].artifact,
                           repository |-> IF Plans(c) THEN RepositoryAfter(c) ELSE "open"])
             /\ shared' = Released(c)
             /\ UNCHANGED notebook

-----------------------------------------------------------------------------
(* Planning a file through the notebook the call opened *)

OpenNotebook(c) ==
    /\ CallAt(c, "open")
    /\ \/ Raise(c, {})
       \/ CallStep(c, [pc |-> "plan", opened |-> notebook.saved, seen |-> {notebook.saved}])

PlanFile(c) ==
    LET relation == Relation(Autorun)
    IN /\ CallAt(c, "plan")
       /\ \/ calls[c].opened # calls[c].producer /\ RefuseCall(c, "changed")
          \/ /\ calls[c].opened = calls[c].producer
             /\ \/ ~IndexFits(Projected(Fingerprints(relation), {})) /\ RefuseCall(c, "budget")
                \/ /\ IndexFits(Projected(Fingerprints(relation), {}))
                   /\ IF Plans(c)
                      THEN IF notebook.saved # calls[c].opened THEN RefuseCall(c, "changed")
                           ELSE CallStep(c, [pc |-> "returned", relation |-> relation,
                                         repository |-> RepositoryAfter(c)])
                      ELSE IF Stopped(c) THEN RefuseCall(c, "cancelled")
                           ELSE CallStep(c, [pc |-> "states", relation |-> relation])

-----------------------------------------------------------------------------
(* prepare_states *)

Wanted(c) == Fingerprints(calls[c].relation)
Missing(c) == Wanted(c) \ calls[c].leased

\* lookup_prepared_states leases what is there.  The plan_ready callback runs
\* before the try block: if it raises, the leases stay with the handles of the
\* failed frame until those are collected.
LeaseStates(c) ==
    LET found == Reusable(calls[c].producer, Wanted(c))
    IN /\ CallAt(c, "states")
       /\ \/ Raise(c, found)
          \/ ~IndexFits(Projected(Wanted(c), found)) /\ RefuseCall(c, "budget")
          \/ /\ IndexFits(Projected(Wanted(c), found))
             /\ CallStep(c, [pc |-> "missing", leased |-> found, reusable |-> found])

StartState(c) ==
    /\ CallAt(c, "missing") /\ Missing(c) # {}
    /\ \/ Stopped(c) /\ RefuseCall(c, "cancelled")
       \/ Raise(c, {})
       \/ ~Stopped(c) /\ CallStep(c, [pc |-> "capturing", target |-> Min(Missing(c))])

\* Mutation of MatchesPlan: the captured index is not compared with the plan.
MatchesAnyPlan(c, version) == TRUE

\* commit_captured_state compares document and producer of the captured index.
MatchesPlan(c, version) == version = calls[c].producer

\* What executes the state: the notebook of the call, or the live session.
ExecutedVersion(c) == IF IsLive(c) THEN notebook.live ELSE calls[c].opened

CaptureState(c) ==
    /\ CallAt(c, "capturing")
    /\ \/ Stopped(c) /\ RefuseCall(c, "cancelled")
       \/ Raise(c, {})
       \/ /\ ~Stopped(c)
          /\ IF MatchesPlan(c, ExecutedVersion(c))
             THEN CallStep(c, [pc |-> "guard", opened |-> ExecutedVersion(c), seen |-> {VersionNow(c)}])
             ELSE RefuseCall(c, "mismatch")

\* Mutation of ProducerIsCurrent: a commit does not look at the source again.
ProducerIsUnchecked(c) == TRUE

\* require_producer_current: source unchanged, and for a session a plan as before.
ProducerIsCurrent(c) ==
    /\ notebook.saved = calls[c].producer
    /\ IsLive(c) => notebook.live = calls[c].producer

GuardState(c) ==
    /\ CallAt(c, "guard")
    /\ IF Stopped(c) THEN RefuseCall(c, "cancelled")
       ELSE IF ~ProducerIsCurrent(c) THEN RefuseCall(c, "changed")
       ELSE CallStep(c, [pc |-> "commit"])

\* The captured state: its producer and value, the version that executed it, the call.
NewState(c) == [producer |-> calls[c].producer, value |-> calls[c].target,
                version |-> calls[c].opened, by |-> c]

\* The commit itself, then measure, state_finished and the budget.
CommitState(c) ==
    LET leased == calls[c].leased \cup {calls[c].target}
    IN /\ CallAt(c, "commit")
       /\ IF ReservationLost(c) THEN RefuseCall(c, "fence")
          ELSE LET new == [shared EXCEPT !.states = @ \cup {NewState(c)}]
                   fits == IndexFits(Projected(Wanted(c), leased))
               IN \/ /\ Trouble(notebook')
                     /\ Update(c, Failed(c, "raised", {}, {}))
                     /\ shared' = [Released(c) EXCEPT !.states = new.states]
                  \/ /\ UNCHANGED notebook
                     /\ IF fits
                        THEN /\ Update(c, [pc |-> "missing", leased |-> leased, target |-> 0,
                                           captured |-> calls[c].captured \cup {calls[c].target}])
                             /\ shared' = new
                        ELSE /\ Update(c, Failed(c, "budget", {}, {}))
                             /\ shared' = [Released(c) EXCEPT !.states = new.states]

\* Nothing is missing: assemble, stage and, inside the commit, the guard.
Assemble(c) ==
    /\ CallAt(c, "missing") /\ Missing(c) = {}
    /\ \/ Raise(c, {})
       \/ IF Stopped(c) THEN RefuseCall(c, "cancelled")
          ELSE IF ~ProducerIsCurrent(c) THEN RefuseCall(c, "changed")
          ELSE CallStep(c, [pc |-> "install"])

NewExport(c) ==
    [producer |-> calls[c].producer, relation |-> calls[c].relation,
     versions |-> {s.version : s \in {t \in StatesOf(calls[c].producer) : t.value \in Wanted(c)}}]

\* Mutation of ReusedStates: every state that was planned as reusable is reported so.
ReportsNothingReused(c) == calls[c].reusable \ calls[c].reusable

ReusedStates(c) == Wanted(c) \ calls[c].captured

\* commit_generation with the replaced instance; close_states; PreparedExport._create
\* and prepared_committed, whose failure closes what was just installed.
InstallExport(c) ==
    LET export == NewExport(c)
        installed == [Released(c) EXCEPT !.exports = (@ \ CurrentExport(calls[c].producer))
                                                      \cup {export}]
    IN /\ CallAt(c, "install")
       /\ IF ReservationLost(c) \/ CurrentExport(calls[c].producer) # calls[c].prior
          THEN RefuseCall(c, "fence")
          ELSE \/ /\ Trouble(notebook')
                  /\ Update(c, Failed(c, "raised", {}, {export}))
                  /\ shared' = installed
               \/ /\ Update(c, [pc |-> "returned", artifact |-> {export}, leased |-> {},
                                reusable |-> ReusedStates(c)])
                  /\ shared' = installed
                  /\ UNCHANGED notebook

-----------------------------------------------------------------------------
(* What goes on around the calls *)

Running(c) == calls[c].pc \notin {"idle", "returned", "failed", "closed"}

CancelCall(c) ==
    /\ Running(c) /\ ~Plans(c) /\ ~CallCancelled(c)
    /\ Trouble(notebook')
    /\ Update(c, [cancelled |-> TRUE])
    /\ UNCHANGED shared

LoseReservation(c) ==
    /\ Running(c) /\ calls[c].producer # 0 /\ ~ReservationLost(c)
    /\ Trouble(notebook')
    /\ shared' = Released(c)
    /\ UNCHANGED calls

\* The exception of a failed call is dropped, and with it its frame's handles.
CollectFrame(c) == calls[c].loose # {} /\ CallStep(c, [loose |-> {}])

\* PreparedExport.close.
ClosePrepared(c) ==
    /\ CallAt(c, "returned") /\ ~Plans(c)
    /\ CallStep(c, [pc |-> "closed", artifact |-> {}, repository |-> RepositoryAfter(c)])

Edited(saved, live, ui) ==
    /\ notebook.edits < MaxNotebookEdits
    /\ notebook' = [notebook EXCEPT !.saved = saved, !.live = live, !.ui = ui, !.edits = @ + 1]
    /\ calls' = [c \in PrepareCalls |->
                   [calls[c] EXCEPT !.seen = IF @ = {} THEN @
                                             ELSE @ \cup {IF IsLive(c) THEN live ELSE saved}]]
    /\ UNCHANGED shared

EditNotebook ==
    \/ \E v \in Versions \ {notebook.saved} : Edited(v, notebook.live, notebook.ui)
    \/ \E v \in Versions \ {notebook.live} : Edited(notebook.saved, v, notebook.ui)
    \/ \E v \in Values \ {notebook.ui} : Edited(notebook.saved, notebook.live, v)

PrepareNext ==
    \/ \E c \in PrepareCalls :
         \/ Begin(c) \/ Inspect(c) \/ Current(c) \/ Reserve(c) \/ RecheckFile(c)
         \/ ReplanSession(c) \/ MatchSession(c) \/ TakeExact(c) \/ OpenNotebook(c)
         \/ PlanFile(c) \/ LeaseStates(c) \/ StartState(c) \/ CaptureState(c)
         \/ GuardState(c) \/ CommitState(c) \/ Assemble(c) \/ InstallExport(c)
         \/ CancelCall(c) \/ LoseReservation(c) \/ CollectFrame(c) \/ ClosePrepared(c)
    \/ EditNotebook

PrepareSpec == PrepareInit /\ [][PrepareNext]_prepareVars

-----------------------------------------------------------------------------
(* Properties *)

\* Type correctness.
PrepareTypeOK ==
    /\ {notebook.saved, notebook.live} \subseteq Versions /\ notebook.ui \in Values
    /\ notebook.edits \in 0..MaxNotebookEdits /\ notebook.troubles \in 0..MaxCallTroubles
    /\ shared.holder \in [Versions -> PrepareCalls \cup {NoCall}]
    /\ shared.states \subseteq [producer : Versions, value : Values, version : Versions,
                                by : PrepareCalls]
    /\ \A c \in PrepareCalls :
         /\ DOMAIN calls[c] = DOMAIN NewCall("file")
         /\ calls[c].producer \in Versions \cup {0}
         /\ calls[c].leased \subseteq Values /\ Cardinality(calls[c].artifact) <= 1

HasReturned(c) == CallAt(c, "returned") /\ ~Plans(c)

\* Every prepared state and every export holds what its own producer executed:
\* whatever changed while it was captured, no reader is given another version.
RepositoryHoldsOneVersion ==
    /\ \A s \in shared.states : s.version = s.producer
    /\ \A e \in shared.exports : e.versions = {e.producer}

\* A call returns the relation it planned, of the identity it asked for; the
\* states it reports as prepared are the ones it ran, the others existed; and
\* the notebook was that version after the last state was captured (or after
\* the export to reuse was found).
ReturnedExportIsCurrent ==
    \A c \in PrepareCalls : HasReturned(c) =>
      \A e \in calls[c].artifact :
        /\ e.producer = calls[c].producer /\ e.relation = calls[c].relation
        /\ calls[c].producer \in calls[c].seen
        /\ calls[c].captured \cup calls[c].reusable = Wanted(c)
        /\ calls[c].captured \cap calls[c].reusable = {}
        /\ \A v \in calls[c].captured :
             \E s \in shared.states : s.producer = e.producer /\ s.value = v /\ s.by = c

\* A call that failed holds nothing: no state, no export, no reservation, no
\* repository it opened; only the handles of a frame that is still referenced.
\* One that returned holds its export and nothing else.
FailedCallKeepsNothing ==
    \A c \in PrepareCalls :
      /\ calls[c].pc \in {"failed", "returned", "closed"} =>
           /\ calls[c].leased = {}
           /\ \A v \in Versions : shared.holder[v] # c
           /\ calls[c].repository = IF OpensRepository[c] /\ ~HasReturned(c) THEN "closed" ELSE "open"
           /\ Cardinality(calls[c].artifact) = IF HasReturned(c) THEN 1 ELSE 0
      /\ calls[c].loose # {} => calls[c].failure = "raised"

IndexBytes(relation) == SumOf(EntryBytes, Fingerprints(relation))

\* The index budget is a lower bound: a call it refuses could not have written
\* its index, and a call that returned did.
BudgetIsALowerBound ==
    \A c \in PrepareCalls :
      /\ calls[c].failure = "spec_budget" => \A v \in Values : ~IndexFits(IndexBytes(Relation(v)))
      /\ HasReturned(c) => IndexFits(IndexBytes(calls[c].relation))

\* A prepared export holds the states of its plan, of one version of the notebook
\* (_services/prepare_export.py, capture_export.py).
PreparedExportIsSound ==
    /\ RepositoryHoldsOneVersion
    /\ ReturnedExportIsCurrent
    /\ FailedCallKeepsNothing
    /\ BudgetIsALowerBound

\* The guide (docs/guide/choose-states.md:109) says of a file build that its
\* baseline comes from the initial autorun of the saved notebook.
FileBuildsUseAutorun ==
    \A c \in PrepareCalls :
      calls[c].pc = "returned" /\ ~IsLive(c) => calls[c].relation = Relation(Autorun)
=============================================================================
