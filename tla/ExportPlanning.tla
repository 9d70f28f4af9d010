--------------------------- MODULE ExportPlanning ---------------------------
(***************************************************************************)
(* The plan of an export: which controls become its inputs, which states   *)
(* its authored rows are, and what a state run applies to reach one.       *)
(*                                                                         *)
(* select_control_roots gives every control of the notebook that matters   *)
(* for the outputs one owner among the definitions that hold it, so that   *)
(* an array and its items, or two names of one element, are one input.     *)
(* create_execution_plan completes the sparse rows from the baseline and   *)
(* joins the aliases whose rows are the same.  A missing state is captured *)
(* with a spec of its own whose row is complete, planned again and run in  *)
(* a child whose elements start from the values the notebook gives them.   *)
(*                                                                         *)
(* A behaviour plans one notebook.  An input value is a function of its    *)
(* fields: an AnyWidget input takes a patch of some of them, every other   *)
(* input is replaced as a whole.                                           *)
(***************************************************************************)
EXTENDS Naturals, FiniteSets, FiniteSetsExt, Relation, TLC

CONSTANTS
    NotebookPlans,   \* the cases: a notebook, its live values and a spec
    NameRank         \* the order of definition names and of aliases, by number

VARIABLE planning    \* the case at hand and the plan made of it

planningVars == <<planning>>

\* A case has the definitions with their controls, dependencies and
\* eligibility, the definitions the outputs use, the inputs' kinds, the
\* baseline, the values a child starts from, and the rows of the spec.
PlanningInit ==
    \E case \in NotebookPlans :
        planning = [pc |-> "roots", case |-> case, roots |-> {}, states |-> {}]

-----------------------------------------------------------------------------
(* select_control_roots *)

First(names) == CHOOSE n \in names : \A m \in names : NameRank[n] <= NameRank[m]

DefsOf(case) == DOMAIN case.controls
DependsOn(case) == [pair \in DefsOf(case) \X DefsOf(case) |-> pair[2] \in case.needs[pair[1]]]

\* Mutation of RelevantTo: only the definitions the outputs name themselves.
NamedOnly(case) == case.relevant

RelevantTo(case) ==
    LET reach == TransitiveClosure(DependsOn(case), DefsOf(case))
    IN case.relevant \cup {m \in DefsOf(case) : \E n \in case.relevant : reach[n, m]}

CyclicControls(case) ==
    \E n \in DefsOf(case) : TransitiveClosure(DependsOn(case), DefsOf(case))[n, n]

\* Mutation of EligibleRoots: a control an ineligible definition holds may be an input.
EligibleAlone(case) == {n \in case.eligible : case.controls[n] # {}}

EligibleRoots(case) ==
    {n \in case.eligible :
        /\ case.controls[n] # {}
        /\ \A m \in DefsOf(case) \ case.eligible : case.controls[n] \cap case.controls[m] = {}}

\* Two definitions that share a control, neither holding all of the other's.
PartialOverlap(case) ==
    \E n, m \in EligibleRoots(case) :
        /\ case.controls[n] \cap case.controls[m] # {}
        /\ ~(case.controls[n] \subseteq case.controls[m])
        /\ ~(case.controls[m] \subseteq case.controls[n])

\* Mutation of OwnerOf: names of one control set are joined, an array and its items are not.
SameSetOwner(case, n) ==
    First({m \in EligibleRoots(case) : case.controls[m] = case.controls[n]})

\* The first name of the largest set of controls around those of n.
OwnerOf(case, n) ==
    LET around == {m \in EligibleRoots(case) : case.controls[n] \subseteq case.controls[m]}
        size == Max({Cardinality(case.controls[m]) : m \in around})
    IN First({m \in around : Cardinality(case.controls[m]) = size})

SelectRoots ==
    /\ planning.pc = "roots"
    /\ LET case == planning.case
       IN planning' =
            IF CyclicControls(case) \/ PartialOverlap(case)
            THEN [planning EXCEPT !.pc = "refused"]
            ELSE [planning EXCEPT !.pc = "complete",
                      !.roots = {OwnerOf(case, n) : n \in RelevantTo(case) \cap EligibleRoots(case)}]

-----------------------------------------------------------------------------
(* create_execution_plan *)

\* Mutation of Completed: a patch replaces the whole value.
ReplacedBy(case, row, base, name) == row[name]

\* The value a row gives an input: a patch is laid over the baseline.
Completed(case, row, base, name) ==
    IF name \in case.patched THEN row[name] @@ base[name] ELSE row[name]

CompleteRow(case, row, base) ==
    [name \in DOMAIN base |->
        IF name \in DOMAIN row THEN Completed(case, row, base, name) ELSE base[name]]

\* What the run sends: the authored patch as it is, else the complete value.
UpdatesOf(case, row, inputs) ==
    [name \in DOMAIN inputs |->
        IF name \in case.patched /\ name \in DOMAIN row THEN row[name] ELSE inputs[name]]

\* One state for each complete row.  Its updates are those of its first alias.
StatesFor(case, rows, base) ==
    LET inputs(a) == CompleteRow(case, rows[a], base)
    IN {[aliases |-> {b \in DOMAIN rows : inputs(b) = inputs(a)},
         inputs  |-> inputs(a),
         updates |-> UpdatesOf(case,
                         rows[First({b \in DOMAIN rows : inputs(b) = inputs(a)})], inputs(a))]
           : a \in DOMAIN rows}

CompleteStates ==
    /\ planning.pc = "complete"
    /\ planning' = [planning EXCEPT !.pc = "planned",
                        !.states = StatesFor(planning.case, planning.case.rows,
                                             planning.case.baseline)]

PlanningNext == SelectRoots \/ CompleteStates

PlanningSpec == PlanningInit /\ [][PlanningNext]_planningVars

-----------------------------------------------------------------------------
(* single_state_spec and the updates of a child run *)

\* Mutation of RowToRun: the state is captured with the row its author wrote.
AuthoredRow(case, state) == case.rows[First(state.aliases)]

RowToRun(case, state) == state.inputs

\* The only state of the spec that captures the given one.
StateToRun(case, state) ==
    LET alias == First(state.aliases)
    IN CHOOSE s \in StatesFor(case, alias :> RowToRun(case, state), case.baseline) : TRUE

\* Elements that already have their value are left alone.
Applied(case, state, name) ==
    LET start == case.started[name]
    IN IF start = state.inputs[name] THEN start
       ELSE IF name \in case.patched THEN state.updates[name] @@ start ELSE state.updates[name]

-----------------------------------------------------------------------------
(* Properties *)

PlanningTypeOK ==
    /\ planning.pc \in {"roots", "refused", "complete", "planned"}
    /\ planning.case \in NotebookPlans
    /\ planning.roots \subseteq DefsOf(planning.case)

\* A control that affects the outputs and may vary is held by one root, no
\* control by two, and none that an ineligible definition holds by any: setting
\* the inputs of the plan determines every such control once.
ControlsHaveOneOwner ==
    planning.pc \in {"complete", "planned"} =>
      LET case == planning.case
          held == UNION {case.controls[r] : r \in planning.roots}
          fixed == UNION {case.controls[n] : n \in DefsOf(case) \ case.eligible}
          reached == UNION {RelevantTo(case), UNION {case.needs[n] : n \in RelevantTo(case)}}
      IN /\ \A r, s \in planning.roots :
              r # s => case.controls[r] \cap case.controls[s] = {}
         /\ \A n \in reached \cap case.eligible :
              case.controls[n] \cap fixed = {} => case.controls[n] \subseteq held
         /\ held \cap fixed = {}

\* Every alias names one state, the aliases of a state are those whose complete
\* rows are equal, and the run of a state leaves the child with exactly the
\* inputs of its fingerprint, whatever values its elements started from.
StatesAreReached ==
    planning.pc = "planned" =>
      LET case == planning.case
      IN /\ \A a \in DOMAIN case.rows :
              Cardinality({s \in planning.states : a \in s.aliases}) = 1
         /\ \A s, t \in planning.states : s.inputs = t.inputs => s = t
         /\ \A s \in planning.states :
              LET run == StateToRun(case, s)
              IN /\ run.inputs = s.inputs
                 /\ \A name \in DOMAIN s.inputs : Applied(case, run, name) = s.inputs[name]

PlansAreComplete == ControlsHaveOneOwner /\ StatesAreReached
=============================================================================
