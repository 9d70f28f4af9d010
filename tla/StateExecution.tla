---------------------------- MODULE StateExecution ----------------------------
(***************************************************************************)
(* One state run: execute_state of _marimo/compat/execution.py, the child  *)
(* kernel of child_run.py that it owns, and the receipts of receipts.py.   *)
(*                                                                         *)
(* A child runs the notebook's cells up to each UI input, sets the input   *)
(* with the kernel in lazy mode, which leaves what depends on it stale,    *)
(* goes on to the next, and at last runs what never ran or is stale.  An   *)
(* output is read from a cell that may have run several times meanwhile,   *)
(* or been stopped once and not the next time.                             *)
(*                                                                         *)
(* Cells are numbered in execution order.  What a cell does is part of the *)
(* notebook: it runs, stops or raises, always, only before it has seen the *)
(* state's inputs, or only after.  A notebook is                           *)
(*   [n, parents, acts, disabled,         the graph and what its cells do  *)
(*    ui, same, rejects, objects,         its UI inputs: which have the    *)
(*                                        value already, refuse it, and    *)
(*                                        the control objects of each      *)
(*    owner, optional, source, returns]   its outputs                      *)
(***************************************************************************)
EXTENDS Naturals, Sequences, FiniteSets, SequencesExt, FiniteSetsExt, Functions

CONSTANTS
    Notebooks,          \* the notebooks and states to run
    MaxRunTroubles      \* interruptions and failing cleanups (a model bound)

ASSUME StateRunAssumption == MaxRunTroubles \in Nat

VARIABLES
    book,       \* the notebook, its state, and whether a run includes descendants
    cell,       \* per cell: what became of it, which inputs its value has seen, stale
    stopping,   \* descendants_by_stopping_cell: a function on the cells that stopped
    staterun,   \* where execute_state is, and what it has
    kernelChild \* what is owned from the child's construction on

runVars == <<book, cell, stopping, staterun, kernelChild>>

CellIds(b) == 1..b.n
\* transitive_closure(children=False): a cell's ancestors and itself.
Upstream(b) ==
    LET up[c \in CellIds(b)] == {c} \union UNION {up[p] : p \in b.parents[c]} IN up
Downstream(b, cs) == {c \in CellIds(b) : Upstream(b)[c] \intersect cs # {}}
Disabled(b, c) == Upstream(b)[c] \intersect b.disabled # {}
Available(b) == {c \in CellIds(b) : ~Disabled(b, c)}
InputsOf(b, c) == (Upstream(b)[c] \ {c}) \intersect b.ui

RunInit ==
    /\ \E b \in Notebooks, eager \in BOOLEAN : book = [eager |-> eager] @@ b
    /\ cell = [c \in CellIds(book) |-> [result |-> "none", saw |-> {}, stale |-> FALSE]]
    /\ stopping = << >>
    /\ staterun = [pc |-> "setup", batches |-> << >>, initialized |-> {}, applied |-> {},
                   ran |-> {}, unavailable |-> {}, receipts |-> << >>, left |-> << >>,
                   outcome |-> "none"]
    /\ kernelChild = [registered |-> FALSE, recording |-> FALSE, flushed |-> FALSE,
                      failed |-> << >>, troubles |-> 0]

-----------------------------------------------------------------------------
(* The external kernel: AppKernelRunner.run and set_ui_element_value       *)

\* The inputs that carry the state's value where their cells left them.
Carried(w) == w.applied
Sees(b, w, c) ==
    UNION {w.cell[p].saw \union ({p} \intersect Carried(w)) : p \in b.parents[c]}

\* What a cell does, given what it has seen: "late" and "early" say when.
Does(act, settled) ==
    CASE act = "stops early"  -> IF settled THEN "ran" ELSE "stopped"
      [] act = "stops late"   -> IF settled THEN "stopped" ELSE "ran"
      [] act = "raises early" -> IF settled THEN "ran" ELSE "raised"
      [] act = "raises late"  -> IF settled THEN "raised" ELSE "ran"
      [] OTHER                -> act

\* Mutation of Recorded: a cell that ends otherwise stays recorded as stopped.
OnlyStopsRecorded(stops, c, stopped) ==
    IF stopped /\ c \notin DOMAIN stops THEN stops @@ (c :> {}) ELSE stops

\* StopProvenance.record_cell: a stop is kept, any other end of a cell takes the
\* cell out of it, as one that stopped and as one that was cancelled.
Recorded(stops, c, stopped) ==
    IF stopped THEN IF c \in DOMAIN stops THEN stops ELSE stops @@ (c :> {})
    ELSE [s \in DOMAIN stops \ {c} |-> stops[s] \ {c}]

\* One cell of a run: cancelled below a cell that stopped or raised in this run,
\* and missing its names (it raises) below one that has no value from before.
RunCell(b, w, c) ==
    LET ups     == Upstream(b)[c] \ {c}
        settled == Sees(b, w, c) = InputsOf(b, c)
        result  == IF \E p \in b.parents[c] : w.cell[p].result # "ran" THEN "raised"
                   ELSE Does(b.acts[c], settled)
    IN  IF ups \intersect w.broken # {}
        THEN [w EXCEPT !.cell[c].result = "cancelled"]
        ELSE [cell    |-> [w.cell EXCEPT ![c] = [result |-> result, saw |-> Sees(b, w, c),
                                                 stale |-> FALSE]],
              applied |-> IF c \in b.ui THEN (w.applied \ {c}) \union ({c} \intersect b.same)
                          ELSE w.applied,
              broken  |-> IF result = "ran" THEN w.broken ELSE w.broken \union {c},
              stops   |-> Recorded(w.stops, c, result = "stopped")]

\* The cells asked for, their stale ancestors, and in autorun their descendants.
ToRun(b, cs) ==
    LET roots == cs \union {a \in CellIds(b) : cell[a].stale /\ \E c \in cs : a \in Upstream(b)[c]}
    IN  (IF b.eager THEN Downstream(b, roots) ELSE roots) \intersect Available(b)

\* run_state_child, with StopProvenance.record_finish at its end: the cells a stop
\* cancelled in this run are its descendants.
RunChild(cs) ==
    LET todo  == ToRun(book, cs)
        order == SetToSortSeq(todo, LAMBDA x, y : x < y)
        w0    == [cell |-> cell, applied |-> staterun.applied, broken |-> {}, stops |-> stopping]
        w     == FoldLeft(LAMBDA acc, c : RunCell(book, acc, c), w0, order)
        ended == {s \in w.broken : w.cell[s].result = "stopped"}
    IN  [w EXCEPT !.stops = [s \in DOMAIN w.stops |->
            IF s \in ended
            THEN {c \in todo \ {s} : s \in Upstream(book)[c] /\ w.cell[c].result = "cancelled"}
            ELSE w.stops[s]]]

-----------------------------------------------------------------------------
(* Errors of the child's cells                                             *)

\* StopProvenance.stopping_cell: recorded, or by the graph.
CellStopped(c) ==
    \/ c \in DOMAIN stopping
    \/ \E s \in DOMAIN stopping : c \in stopping[s] \/ s \in Upstream(book)[c]

\* raise_child_errors for authored cells: the first that failed and was not stopped.
ChildErrors(cs) ==
    \E c \in cs : cell[c].result \in {"raised", "cancelled"} /\ ~CellStopped(c)

Fails(why) == [staterun EXCEPT !.pc = "cleanup", !.outcome = why]

\* CancelledError at one of the awaits: the runs of cells and the setting of values.
RunInterrupted ==
    /\ staterun.pc \in {"initialize", "set", "rest", "export"}
    /\ kernelChild.troubles < MaxRunTroubles
    /\ kernelChild' = [kernelChild EXCEPT !.troubles = @ + 1]
    /\ staterun' = Fails("cancelled")
    /\ UNCHANGED <<book, cell, stopping>>

-----------------------------------------------------------------------------
(* Inputs                                                                  *)

\* _ui_update_batches: the inputs by their cells, in execution order.
Batches(b) == SetToSortSeq(b.ui, LAMBDA x, y : x < y)

\* open_state_child and _plan_state_run: the child is registered with its parent
\* from its construction on; its output cells may not be found in it, and an
\* output's owner may be unknown.
OpensChild ==
    /\ staterun.pc = "setup"
    /\ kernelChild' = [kernelChild EXCEPT !.registered = TRUE, !.recording = TRUE]
    /\ IF \E o \in DOMAIN book.owner : book.owner[o] \notin CellIds(book)
       THEN staterun' = Fails("output_execution_failed")
       ELSE staterun' = [staterun EXCEPT !.batches = Batches(book),
                            !.pc = IF book.ui = {} THEN "all" ELSE "initialize"]
    /\ UNCHANGED <<book, cell, stopping>>

Ran(cs) ==
    LET w == RunChild(cs) IN
    /\ cell' = w.cell /\ stopping' = w.stops
    /\ staterun' = [staterun EXCEPT !.applied = w.applied, !.ran = cs,
            !.pc = CASE @ = "initialize" -> "initialized" [] @ = "all" -> "rested"
                     [] @ = "rest" -> "rested"]
    /\ UNCHANGED <<book, kernelChild>>

\* What a batch's input needs and has not, or has stale.
ToInitialize ==
    {c \in Upstream(book)[Head(staterun.batches)] \intersect Available(book) :
        c \notin staterun.initialized \/ cell[c].stale}

RunsClosure == staterun.pc = "initialize" /\ Ran(ToInitialize)
RunsEverything == staterun.pc = "all" /\ Ran(Available(book))

Initialized ==
    /\ staterun.pc = "initialized"
    /\ staterun' = IF ChildErrors(staterun.ran) THEN Fails("state_execution_failed")
                   ELSE [staterun EXCEPT !.pc = "set", !.initialized = @ \union staterun.ran]
    /\ UNCHANGED <<book, cell, stopping, kernelChild>>

\* _apply_ui_update_batch: no element, a refused value, or the value set and what
\* depends on it stale; one that has the value is left alone.
SetsInput ==
    /\ staterun.pc = "set"
    /\ LET u    == Head(staterun.batches)
           next == [staterun EXCEPT !.batches = Tail(@), !.applied = @ \union {u},
                       !.pc = IF Tail(staterun.batches) = << >> THEN "rest" ELSE "initialize"]
       IN  IF cell[u].result # "ran" \/ (u \in book.rejects /\ u \notin book.same)
           THEN staterun' = Fails("input_value_invalid") /\ UNCHANGED cell
           ELSE /\ staterun' = next
                /\ cell' = IF u \in staterun.applied THEN cell
                           ELSE [c \in CellIds(book) |->
                                   IF c \in Downstream(book, {u}) \ {u}
                                   THEN [cell[c] EXCEPT !.stale = TRUE] ELSE cell[c]]
    /\ UNCHANGED <<book, stopping, kernelChild>>

\* The rest: what never was initialized or is stale, the inputs' own cells never.
Reactive ==
    ((Available(book) \ staterun.initialized)
        \union {c \in staterun.initialized : cell[c].stale /\ ~Disabled(book, c)}) \ book.ui

RunsRest == staterun.pc = "rest" /\ Ran(Reactive)

Rested ==
    /\ staterun.pc = "rested"
    /\ staterun' = IF ChildErrors(staterun.ran) THEN Fails("state_execution_failed")
                   ELSE [staterun EXCEPT !.pc = "project",
                            !.left = SetToSortSeq(DOMAIN book.owner, LAMBDA x, y : x < y)]
    /\ UNCHANGED <<book, cell, stopping, kernelChild>>

-----------------------------------------------------------------------------
(* Outputs                                                                 *)

\* unavailable_output: an output without a value in this state is so recorded
\* when it is optional, and fails the state otherwise.
Unavailable(o, then) ==
    IF o \in book.optional
    THEN [then EXCEPT !.unavailable = @ \union {o}] ELSE Fails("output_execution_failed")

\* raise_stopped_output: the output's cell, or one it depends on.
OutputStopped(o) == \E c \in Upstream(book)[book.owner[o]] : CellStopped(c)

\* raise_stopped_output and materialize_projection_token for one output.
Projects ==
    /\ staterun.pc = "project" /\ staterun.left # << >>
    /\ LET o    == Head(staterun.left)
           next == [staterun EXCEPT !.left = Tail(@)]
       IN  staterun' = IF OutputStopped(o) THEN Unavailable(o, next)
                       ELSE IF cell[book.owner[o]].result # "ran"
                       THEN Fails("output_execution_failed") ELSE next
    /\ UNCHANGED <<book, cell, stopping, kernelChild>>

\* _control_binding_mapping: a control object belongs to one input.
BindsControls ==
    /\ staterun.pc = "project" /\ staterun.left = << >>
    /\ staterun' = IF \E u, v \in book.ui : u # v /\ book.objects[u] \intersect book.objects[v] # {}
                   THEN Fails("control_input_conflict")
                   ELSE [staterun EXCEPT !.pc = "export", !.left =
                            SetToSortSeq(DOMAIN book.owner \ staterun.unavailable,
                                         LAMBDA x, y : x < y)]
    /\ UNCHANGED <<book, cell, stopping, kernelChild>>

\* The run of the output cells: each ends as "returns" says.
RunsOutputs ==
    /\ staterun.pc = "export"
    /\ staterun' = [staterun EXCEPT !.pc = "exported"]
    /\ UNCHANGED <<book, cell, stopping, kernelChild>>

\* raise_child_errors for one output cell: a value without the representation
\* asked for is a fact about the value, any other failure is not.
Exported ==
    /\ staterun.pc = "exported" /\ staterun.left # << >>
    /\ LET o    == Head(staterun.left)
           next == [staterun EXCEPT !.left = Tail(@)]
       IN  staterun' = CASE book.returns[o].kind = "unfit"  -> Unavailable(o, next)
                         [] book.returns[o].kind = "raises" -> Fails("output_execution_failed")
                         [] OTHER -> next
    /\ UNCHANGED <<book, cell, stopping, kernelChild>>

ExportsEnd ==
    /\ staterun.pc = "exported" /\ staterun.left = << >>
    /\ staterun' = [staterun EXCEPT !.pc = "collect", !.left =
                        SetToSortSeq(DOMAIN book.owner \ staterun.unavailable,
                                     LAMBDA x, y : x < y)]
    /\ UNCHANGED <<book, cell, stopping, kernelChild>>

-----------------------------------------------------------------------------
(* Receipts                                                                *)

\* native_receipt: the descriptor for what the cell's cache holds: [kind: scalar,
\* numpy, arrow or blob; media, valid], by the kind of source asked for.
Snapshot(source) == IF source = "rendered" THEN "output" ELSE "cell"
ReceiptFor(source, r) ==
    IF r.kind # "blob" THEN r.kind
    ELSE CASE source = "native" /\ r.media = "arrow" -> "arrow"
           [] r.media = "json" /\ source \in {"json", "native", "export"} ->
                  IF r.valid THEN "json" ELSE "codec_invalid"
           [] source = "json" -> "codec_invalid"
           [] source \in {"rendered", "cell"} ->
                  IF r.media = Snapshot(source) /\ r.valid THEN Snapshot(source)
                  ELSE "codec_invalid"
           [] OTHER -> "blob"

\* collect_output_receipts, one output: it went through the cell cache, and its
\* return reads back.
Collects ==
    /\ staterun.pc = "collect" /\ staterun.left # << >>
    /\ LET o == Head(staterun.left)
           d == ReceiptFor(book.source[o], book.returns[o])
       IN  staterun' = CASE d = "uncached" -> Fails("cache_receipt_missing")
                         [] d = "codec_invalid" -> Fails("codec_invalid")
                         [] OTHER -> [staterun EXCEPT !.left = Tail(@),
                                         !.receipts = @ @@ (o :> d)]
    /\ UNCHANGED <<book, cell, stopping, kernelChild>>

CollectsEnd ==
    /\ staterun.pc = "collect" /\ staterun.left = << >>
    /\ staterun' = [staterun EXCEPT !.pc = "cleanup", !.outcome = "done"]
    /\ UNCHANGED <<book, cell, stopping, kernelChild>>

-----------------------------------------------------------------------------
(* Cleanup                                                                 *)

\* cleanup_state_child tries each of its steps whatever the others did.
CleansUp ==
    /\ staterun.pc = "cleanup"
    /\ \E how \in {"ok", "error", "cancelled"} :
         /\ how # "ok" => kernelChild.troubles < MaxRunTroubles
         /\ kernelChild' = [kernelChild EXCEPT
                !.recording  = @ /\ how # "ok",
                !.troubles   = IF how = "ok" THEN @ ELSE @ + 1,
                !.failed     = IF how = "ok" THEN @ ELSE Append(@, how)]
         /\ staterun' = [staterun EXCEPT !.pc = "flush"]
    /\ UNCHANGED <<book, cell, stopping>>

Flushes ==
    /\ staterun.pc = "flush"
    /\ \E how \in {"ok", "error", "cancelled"} :
         /\ how # "ok" => kernelChild.troubles < MaxRunTroubles
         /\ kernelChild' = [kernelChild EXCEPT
                !.flushed  = (how = "ok"),
                !.troubles = IF how = "ok" THEN @ ELSE @ + 1,
                !.failed   = IF how = "ok" THEN @ ELSE Append(@, how)]
         /\ staterun' = [staterun EXCEPT !.pc = "release"]
    /\ UNCHANGED <<book, cell, stopping>>

\* What the run ends with: its own error, or a cancellation among the failures of
\* the cleanup, or the first of them.
EndsWith(failed) ==
    IF failed = << >> \/ staterun.outcome # "done" THEN staterun.outcome
    ELSE IF "cancelled" \in ToSet(failed) THEN "cancelled" ELSE "state_cleanup_failed"

\* release_state_child: the finalizer the parent registered, now; it may be gone.
ReleasesChild ==
    /\ staterun.pc = "release"
    /\ \E how \in {"ok", "error"} :
         /\ how # "ok" => kernelChild.troubles < MaxRunTroubles
         /\ LET failed == IF how = "ok" THEN kernelChild.failed ELSE Append(kernelChild.failed, how)
            IN  /\ kernelChild' = [kernelChild EXCEPT
                       !.registered = @ /\ how # "ok",
                       !.troubles = IF how = "ok" THEN @ ELSE @ + 1, !.failed = failed]
                /\ staterun' = [staterun EXCEPT !.pc = "over", !.outcome = EndsWith(failed)]
    /\ UNCHANGED <<book, cell, stopping>>

RunOver == staterun.pc = "over" /\ UNCHANGED runVars

RunNext ==
    \/ OpensChild \/ RunsClosure \/ RunsEverything \/ Initialized \/ SetsInput \/ RunsRest
    \/ Rested \/ Projects \/ BindsControls \/ RunsOutputs \/ Exported \/ ExportsEnd
    \/ Collects \/ CollectsEnd \/ CleansUp \/ Flushes \/ ReleasesChild \/ RunInterrupted
    \/ RunOver

RunSpec == RunInit /\ [][RunNext]_runVars

-----------------------------------------------------------------------------
(* Properties                                                              *)

Results == {"none", "ran", "cancelled", "stopped", "raised"}

\* Every variable stays within its type.
RunTypeOK ==
    /\ \A c \in CellIds(book) : cell[c].result \in Results /\ cell[c].saw \subseteq book.ui
    /\ DOMAIN stopping \subseteq CellIds(book)
    /\ staterun.initialized \subseteq CellIds(book) /\ staterun.applied \subseteq book.ui
    /\ staterun.unavailable \subseteq DOMAIN book.owner
    /\ kernelChild.troubles \in 0..MaxRunTroubles

\* What the notebook's cells come to when its inputs have the state's values from
\* the start and every cell runs once.
FromScratch(b) ==
    LET end[c \in CellIds(b)] ==
            IF Disabled(b, c) THEN "none"
            ELSE IF \E p \in b.parents[c] : end[p] # "ran" THEN "cancelled"
            ELSE Does(b.acts[c], TRUE)
    IN  end

\* A state that is answered is answered as if the notebook had been run from
\* scratch with its inputs: every output with a receipt comes from a cell that
\* saw every input above it, and one is reported unavailable exactly when it is
\* optional and its cell, or one above, stops, or its value has no such form; no
\* cell's failure is passed over, no control object bound twice, and the child
\* is released and its caches flushed.
StateIsAnsweredWhole ==
    staterun.pc = "over" /\ staterun.outcome = "done" =>
        LET end == FromScratch(book) IN
        /\ \A c \in CellIds(book) : end[c] # "raised"
        /\ \A o \in DOMAIN book.owner :
             LET c     == book.owner[o]
                 stops == \E a \in Upstream(book)[c] : end[a] = "stopped"
             IN  /\ (o \in DOMAIN staterun.receipts) # (o \in staterun.unavailable)
                 /\ o \in staterun.unavailable =>
                        o \in book.optional /\ (stops \/ book.returns[o].kind = "unfit")
                 /\ o \in DOMAIN staterun.receipts =>
                        /\ end[c] = "ran" /\ cell[c].result = "ran"
                        /\ cell[c].saw = InputsOf(book, c)
                        /\ staterun.receipts[o] # "uncached"
        /\ ~kernelChild.registered /\ ~kernelChild.recording /\ kernelChild.flushed

\* A state is refused for what it does, never for what the notebook did before
\* its inputs had their values.
StateIsRefusedForItself ==
    staterun.pc = "over" /\ staterun.outcome = "state_execution_failed" =>
        \E c \in CellIds(book) : FromScratch(book)[c] = "raised"

StateRunsAreSound == StateIsAnsweredWhole /\ StateIsRefusedForItself
===============================================================================
