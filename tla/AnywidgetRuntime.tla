-------------------------- MODULE AnywidgetRuntime --------------------------
(***************************************************************************)
(* Exported anywidgets on a page: mountSnapshot, StaticRegistry and        *)
(* WidgetBinding of packages/loader-anywidget/src/runtime.                 *)
(*                                                                         *)
(* A mount binds the root model: its module is imported, its definition    *)
(* resolved and initialized; the root's view may ask for its child.  All   *)
(* of that is code of the widget, which may answer late or never, while    *)
(* the page may dispose the mount at any await and mount again.  What a    *)
(* widget returned is its cleanup.                                         *)
(***************************************************************************)
EXTENDS Naturals, Sequences, SequencesExt

CONSTANTS
    ModuleOf,       \* [models -> the ES module of each], with "root" and "child"
    MaxMounts,      \* bound of the mounts on the element
    MaxPageModules  \* bound of the code on the modules of a page

ASSUME AnywidgetAssumption ==
    /\ DOMAIN ModuleOf = {"root", "child"}
    /\ MaxMounts \in Nat /\ MaxPageModules \in Nat

Models == {"root", "child"}
Mounts == 1..MaxMounts
Widgets == Mounts \X Models     \* a binding, and its view, of a mount
EsModules == {ModuleOf[m] : m \in Models}

VARIABLES
    mt,         \* the mounts, in the order they were made
    wb,         \* the bindings
    wv,         \* the views
    pageModules,\* the module cache of the page
    busy        \* whether the element is in ACTIVE_MOUNTS

widgetVars == <<mt, wb, wv, pageModules, busy>>

NoMount == [pc |-> "none", disposal |-> "no", aborted |-> FALSE, signal |-> FALSE,
            order |-> << >>, left |-> << >>]
\* What a widget's function returned, if it was called, whether the check for a late cleanup is
\* due, and how often that cleanup was run.
NoTask == [pc |-> "none", aborted |-> FALSE, returned |-> "nothing", late |-> FALSE,
           cleanup |-> "none", runs |-> 0]

WidgetInit ==
    /\ mt = [k \in Mounts |-> NoMount]
    /\ wb = [b \in Widgets |-> NoTask] /\ wv = [v \in Widgets |-> NoTask]
    /\ pageModules = [e \in EsModules |-> "absent"]
    /\ busy = FALSE

-----------------------------------------------------------------------------
(* Signals.  A view is aborted with its own signal, its mount's registry,  *)
(* its binding, and, for the child's, with the view it was rendered in.    *)

Root(v) == <<v[1], "root">>

RenderAborted(v, b, w, m) ==
    \/ w[v].aborted \/ b[v].aborted \/ m[v[1]].aborted
    \/ v[2] = "child" /\ (w[Root(v)].aborted \/ b[Root(v)].aborted)

RunCleanup(t) == [t EXCEPT !.cleanup = "running", !.runs = @ + 1]

\* Mutation of RunOnce: the late result and the race each run the cleanup.
RunEachTime(t) == IF t.returned = "cleanup" THEN RunCleanup(t) ELSE t

\* settleLateInitializeCleanup and settleRenderCleanup: once, whoever comes first.
RunOnce(t) == IF t.returned = "cleanup" /\ t.cleanup = "none" THEN RunCleanup(t) ELSE t

\* An abort loses the race of what the widget has not returned yet, and runs
\* the cleanup of a binding that exists.
AbortedBinding(t) ==
    IF t.aborted THEN t
    ELSE LET u == [t EXCEPT !.aborted = TRUE] IN
         CASE t.pc \in {"import", "define"} -> [u EXCEPT !.pc = "failed"]
           [] t.pc = "initialize" /\ t.returned = "pending" -> [u EXCEPT !.pc = "failed"]
           [] t.pc \in {"created", "bound"} -> RunOnce(u)
           [] OTHER -> u

\* The listeners of an aborted render signal: a view that is shown is released,
\* one still in render lost its race.
AfterAbort(t) ==
    CASE t.pc = "render" /\ t.returned = "pending" -> [t EXCEPT !.pc = "over", !.aborted = TRUE]
      [] t.pc = "shown" /\ t.returned = "cleanup" -> [RunOnce(t) EXCEPT !.pc = "releasing"]
      [] t.pc = "shown" -> [t EXCEPT !.pc = "over"]
      [] OTHER -> t

\* Abort events run their listeners in the step that aborts.
Change(m, b, w) ==
    /\ mt' = m /\ wb' = b
    /\ wv' = [v \in Widgets |-> IF RenderAborted(v, b, w, m) THEN AfterAbort(w[v]) ELSE w[v]]

-----------------------------------------------------------------------------
(* Modules and bindings                                                    *)

Loading(e) == pageModules[e] # "absent"
CacheFull == Len(SelectSeq(SetToSeq(EsModules), Loading)) >= MaxPageModules

\* getBinding: a binding is made once for a model; the page's modules are shared.
StartBinding(b, m, w) ==
    LET e == ModuleOf[b[2]]
        refused == ~Loading(e) /\ CacheFull
    IN
    /\ Change(m, [wb EXCEPT ![b].pc = IF refused THEN "failed" ELSE "import",
                            ![b].aborted = refused], w)
    /\ pageModules' = IF refused \/ Loading(e) THEN pageModules
                      ELSE [pageModules EXCEPT ![e] = "loading"]

ImportEnds(e) ==
    /\ pageModules[e] = "loading"
    /\ pageModules' = [pageModules EXCEPT ![e] = "loaded"]
    /\ UNCHANGED <<mt, wb, wv, busy>>

\* A failed import leaves the cache, so that the next mount tries again.
ImportFails(e) ==
    /\ pageModules[e] = "loading"
    /\ pageModules' = [pageModules EXCEPT ![e] = "absent"]
    /\ Change(mt, [b \in Widgets |-> IF wb[b].pc = "import" /\ ModuleOf[b[2]] = e
                                     THEN [wb[b] EXCEPT !.pc = "failed", !.aborted = TRUE]
                                     ELSE wb[b]], wv)
    /\ UNCHANGED busy

ModuleReady(b) ==
    /\ wb[b].pc = "import" /\ pageModules[ModuleOf[b[2]]] = "loaded"
    /\ wb' = [wb EXCEPT ![b].pc = "define"]
    /\ UNCHANGED <<mt, wv, pageModules, busy>>

DefinitionReady(b) ==
    /\ wb[b].pc = "define"
    /\ wb' = [wb EXCEPT ![b].pc = "initialize", ![b].returned = "pending"]
    /\ UNCHANGED <<mt, wv, pageModules, busy>>

\* The widget's initialize returns, perhaps long after its race was lost.
InitializeReturns(b, what) ==
    /\ wb[b].returned = "pending"
    /\ wb' = [wb EXCEPT ![b].returned = what, ![b].late = TRUE]
    /\ UNCHANGED <<mt, wv, pageModules, busy>>

LateInitialize(b) ==
    /\ wb[b].late
    /\ wb' = [wb EXCEPT ![b] = [IF wb[b].aborted THEN RunOnce(wb[b]) ELSE wb[b]
                                    EXCEPT !.late = FALSE]]
    /\ UNCHANGED <<mt, wv, pageModules, busy>>

\* The race was won; the signal may have been aborted since.
InitializeSettles(b) ==
    LET t == wb[b] IN
    /\ t.pc = "initialize" /\ t.returned # "pending" /\ ~t.late
    /\ Change(mt, [wb EXCEPT ![b] =
           CASE t.returned = "threw" -> [t EXCEPT !.pc = "failed", !.aborted = TRUE]
             [] t.aborted /\ t.returned = "cleanup" /\ t.cleanup # "done" ->
                    [RunOnce(t) EXCEPT !.pc = "unwinding"]
             [] t.aborted -> [t EXCEPT !.pc = "failed"]
             [] OTHER -> [t EXCEPT !.pc = "created"]], wv)
    /\ UNCHANGED <<pageModules, busy>>

\* The continuation of getBinding puts the binding in the order of teardown.
BindingKept(b) ==
    /\ wb[b].pc = "created"
    /\ wb' = [wb EXCEPT ![b].pc = "bound"]
    /\ mt' = [mt EXCEPT ![b[1]].order = Append(@, b[2])]
    /\ UNCHANGED <<wv, pageModules, busy>>

InitializeCleaned(b) ==
    /\ wb[b].cleanup = "running"
    /\ wb' = [wb EXCEPT ![b].cleanup = "done",
                        ![b].pc = IF @ = "unwinding" THEN "failed" ELSE @]
    /\ UNCHANGED <<mt, wv, pageModules, busy>>

-----------------------------------------------------------------------------
(* Views                                                                   *)

\* createView waits for the binding, which it may be the first to ask for.
ViewOf(v, m) ==
    LET w == [wv EXCEPT ![v].pc = "binding"] IN
    IF wb[v].pc = "none" /\ m[v[1]].disposal = "no" THEN StartBinding(v, m, w)
    ELSE Change(m, wb, IF wb[v].pc = "none"
                       THEN [w EXCEPT ![v].pc = "over", ![v].aborted = TRUE] ELSE w)
         /\ UNCHANGED pageModules

\* The root's render asks its host for the child and renders it.
RenderChild(k) ==
    LET v == <<k, "child">> IN
    /\ wv[v].pc = "none" /\ wv[Root(v)].pc \in {"render", "shown"}
    /\ ~RenderAborted(Root(v), wb, wv, mt)
    /\ ViewOf(v, mt)
    /\ UNCHANGED busy

ViewBinds(v) ==
    LET over == wb[v].pc \in {"failed", "unwinding"} \/ RenderAborted(v, wb, wv, mt) IN
    /\ wv[v].pc = "binding" /\ wb[v].pc \in {"bound", "failed", "unwinding"}
    /\ Change(mt, wb, IF over THEN [wv EXCEPT ![v].pc = "over", ![v].aborted = TRUE]
                      ELSE [wv EXCEPT ![v].pc = "render", ![v].returned = "pending"])
    /\ UNCHANGED <<pageModules, busy>>

\* A render that began returns, perhaps after its race was lost.
RenderReturns(v, what) ==
    /\ wv[v].returned = "pending"
    /\ wv' = [wv EXCEPT ![v].returned = what, ![v].late = TRUE]
    /\ UNCHANGED <<mt, wb, pageModules, busy>>

LateRender(v) ==
    /\ wv[v].late
    /\ wv' = [wv EXCEPT ![v] = [IF RenderAborted(v, wb, wv, mt) THEN RunOnce(wv[v]) ELSE wv[v]
                                    EXCEPT !.late = FALSE]]
    /\ UNCHANGED <<mt, wb, pageModules, busy>>

RenderSettles(v) ==
    LET t == wv[v] IN
    /\ t.pc = "render" /\ t.returned # "pending" /\ ~t.late
    /\ Change(mt, wb, [wv EXCEPT ![v] =
           CASE t.returned = "threw" -> [t EXCEPT !.pc = "over", !.aborted = TRUE]
             [] t.cleanup = "done" -> [t EXCEPT !.pc = "over"]
             [] t.cleanup = "running" -> [t EXCEPT !.pc = "releasing"]
             [] OTHER -> [t EXCEPT !.pc = "shown"]])
    /\ UNCHANGED <<pageModules, busy>>

RenderCleaned(v) ==
    /\ wv[v].cleanup = "running"
    /\ wv' = [wv EXCEPT ![v].cleanup = "done", ![v].pc = IF @ = "releasing" THEN "over" ELSE @]
    /\ UNCHANGED <<mt, wb, pageModules, busy>>

-----------------------------------------------------------------------------
(* Mounts and their disposal                                               *)

Mount(k) ==
    /\ ~busy /\ mt[k].pc = "none" /\ \A j \in 1..(k - 1) : mt[j].pc # "none"
    /\ busy' = TRUE
    /\ StartBinding(<<k, "root">>, [mt EXCEPT ![k].pc = "binding"], wv)

\* dispose() gives up the bindings that do not exist yet.
Disposing(k, m) ==
    Change([m EXCEPT ![k].disposal = "settling"],
           [b \in Widgets |-> IF b[1] = k /\ wb[b].pc \notin {"none", "bound"}
                              THEN AbortedBinding(wb[b]) ELSE wb[b]], wv)

\* The mount fails, and disposes what it made before it says so.
MountFails(k) ==
    IF mt[k].disposal = "no" THEN Disposing(k, [mt EXCEPT ![k].pc = "failed"])
    ELSE Change([mt EXCEPT ![k].pc = "failed"], wb, wv)

MountContinues(k) ==
    LET r == <<k, "root">> IN
    \/ /\ mt[k].pc = "binding" /\ wb[r].pc \in {"bound", "failed"}
       /\ IF wb[r].pc = "bound" /\ ~mt[k].aborted
          THEN ViewOf(r, [mt EXCEPT ![k].pc = "view"])
          ELSE MountFails(k) /\ UNCHANGED pageModules
       /\ UNCHANGED busy
    \/ /\ mt[k].pc = "view" /\ wv[r].pc \in {"shown", "releasing", "over"}
       /\ IF wv[r].returned \in {"plain", "cleanup"} /\ ~mt[k].aborted /\ ~mt[k].signal
          THEN Change([mt EXCEPT ![k].pc = "up"], wb, wv)
          ELSE MountFails(k)
       /\ UNCHANGED <<pageModules, busy>>

\* The page's signal, at any time, or the handle of a mount that is up.
PageDisposes(k) ==
    /\ mt[k].pc \in {"binding", "view", "up"} /\ mt[k].disposal = "no"
    /\ Disposing(k, [mt EXCEPT ![k].signal = TRUE])
    /\ UNCHANGED <<pageModules, busy>>

BindingsSettled(k) ==
    /\ mt[k].disposal = "settling"
    /\ \A m \in Models : wb[<<k, m>>].pc \in {"none", "bound", "failed"}
    /\ mt' = [mt EXCEPT ![k].disposal = "next", ![k].left = mt[k].order]
    /\ UNCHANGED <<wb, wv, pageModules, busy>>

\* Mutation of NextDestroyed: the parent's binding is destroyed before its child's.
FirstDestroyed(left) == Head(left)

\* Bindings are destroyed from the last to the first that was made.
NextDestroyed(left) == Last(left)

DestroyNext(k) ==
    /\ mt[k].disposal = "next" /\ mt[k].left # << >>
    /\ LET b == <<k, NextDestroyed(mt[k].left)>> IN
       Change([mt EXCEPT ![k].disposal = "destroying"],
              [wb EXCEPT ![b] = AbortedBinding(@)], wv)
    /\ UNCHANGED <<pageModules, busy>>

\* Its views have settled, and every cleanup that was begun.
DestroyEnds(k) ==
    /\ mt[k].disposal = "destroying"
    /\ LET b == <<k, NextDestroyed(mt[k].left)>> IN
       /\ wv[b].pc # "render"
       /\ "running" \notin {wv[b].cleanup, wb[b].cleanup}
       /\ mt' = [mt EXCEPT ![k].disposal = "next", ![k].left = Remove(@, b[2])]
    /\ UNCHANGED <<wb, wv, pageModules, busy>>

DisposalIsOver(k) ==
    /\ mt[k].disposal = "next" /\ mt[k].left = << >>
    /\ Change([mt EXCEPT ![k].disposal = "done", ![k].aborted = TRUE], wb, wv)
    /\ busy' = FALSE
    /\ UNCHANGED pageModules

\* Code of the widgets and the network, which may take for ever.
WidgetAnswers ==
    \/ \E e \in EsModules : ImportEnds(e) \/ ImportFails(e)
    \/ \E b \in Widgets :
          \/ DefinitionReady(b)
          \/ \E what \in {"plain", "cleanup", "threw"} :
                 InitializeReturns(b, what) \/ RenderReturns(b, what)
    \/ \E k \in Mounts : RenderChild(k)

\* What the runtime does by itself; a cleanup is expected to end.
RuntimeSteps ==
    \/ \E b \in Widgets :
          \/ ModuleReady(b) \/ LateInitialize(b) \/ InitializeSettles(b)
          \/ BindingKept(b) \/ InitializeCleaned(b)
          \/ ViewBinds(b) \/ LateRender(b) \/ RenderSettles(b) \/ RenderCleaned(b)
    \/ \E k \in Mounts :
          \/ MountContinues(k) \/ BindingsSettled(k)
          \/ DestroyNext(k) \/ DestroyEnds(k) \/ DisposalIsOver(k)

WidgetNext ==
    \/ WidgetAnswers
    \/ RuntimeSteps
    \/ \E k \in Mounts : Mount(k) \/ PageDisposes(k)

WidgetSpec == WidgetInit /\ [][WidgetNext]_widgetVars /\ WF_widgetVars(RuntimeSteps)

-----------------------------------------------------------------------------
WidgetTypeOK ==
    /\ busy \in BOOLEAN
    /\ \A e \in EsModules : pageModules[e] \in {"absent", "loading", "loaded"}
    /\ \A k \in Mounts :
           /\ mt[k].pc \in {"none", "binding", "view", "up", "failed"}
           /\ mt[k].disposal \in {"no", "settling", "next", "destroying", "done"}
           /\ IsInjective(mt[k].order)
    /\ \A b \in Widgets :
           /\ wb[b].pc \in {"none", "import", "define", "initialize", "unwinding", "created",
                            "bound", "failed"}
           /\ wv[b].pc \in {"none", "binding", "render", "shown", "releasing", "over"}
           /\ \A t \in {wb[b], wv[b]} :
                  /\ t.returned \in {"nothing", "pending", "plain", "cleanup", "threw"}
                  /\ t.cleanup \in {"none", "running", "done"}

\* A cleanup is run at most once, though an abort, a race and a late result
\* can each ask for it.
CleanupsRunOnce == \A b \in Widgets : wb[b].runs <= 1 /\ wv[b].runs <= 1

\* A mount that is up shows its root until its disposal begins.
UpMeansShown ==
    \A k \in Mounts : mt[k].pc = "up" /\ mt[k].disposal = "no" =>
        wb[<<k, "root">>].pc = "bound" /\ wv[<<k, "root">>].pc = "shown"

\* When the element is free again, no view of an earlier mount is on it and the
\* cleanups of its bindings have ended.
FreeElementIsClean ==
    ~busy => \A b \in Widgets :
        /\ wv[b].pc \in {"none", "binding", "over"}
        /\ b[2] \in Range(mt[b[1]].order) /\ wb[b].returned = "cleanup" =>
               wb[b].cleanup = "done"

\* A child, initialized after its parent, is torn down before it.
ChildrenFirst ==
    \A k \in Mounts : \A i \in DOMAIN mt[k].order, j \in DOMAIN mt[k].order :
        i < j /\ wb[<<k, mt[k].order[i]>>].aborted
            => /\ wb[<<k, mt[k].order[j]>>].aborted
               /\ wb[<<k, mt[k].order[j]>>].cleanup # "running"

\* Disposal ends, and no cleanup a widget returns is left out, though an import,
\* an initialize or a render never ends.
DisposalEnds ==
    /\ \A k \in Mounts : (mt[k].disposal = "settling") ~> (mt[k].disposal = "done")
    /\ \A b \in Widgets :
        (wb[b].returned = "cleanup" /\ wb[b].aborted) ~> (wb[b].cleanup = "done")

WidgetsAreCleanedUp ==
    /\ CleanupsRunOnce
    /\ UpMeansShown
    /\ FreeElementIsClean
    /\ ChildrenFirst
=============================================================================
