------------------------------- MODULE MCServices -------------------------------
(* The processes around the repository, each with its own variables: the page   *)
(* that shows an export, and the servers and kernels a build talks to.  They do *)
(* not share state, so a behaviour of this module is a behaviour of one part.   *)
EXTENDS BrowserPrepared, BrowserExport, AnywidgetRuntime, ReplayMerge, ManagedServer,
        RemoteCapture, ScratchpadStream, TLC

-----------------------------------------------------------------------------
(* BrowserPrepared: e2's last manifest names inputs that e2 does not have *)

Vector(a, b) == [x |-> a, y |-> b]
MCWebStates == [e1 |-> {Vector(1, 1), Vector(2, 1), Vector(1, 2)},
                e2 |-> {Vector(1, 1), Vector(2, 2), Vector(1, 3)}]
MCWebTexts == <<"1", "2", "1">>
MCWebManifests == {[export |-> "e1", inputs |-> Vector(1, 1)],
                   [export |-> "e2", inputs |-> Vector(1, 1)],
                   [export |-> "e2", inputs |-> Vector(2, 1)]}

-----------------------------------------------------------------------------
(* BrowserExport: two sound indexes and four defective ones *)

Output(c, a, n) == [codec |-> c, media |-> "m", asset |-> a, size |-> n]
Single(a) == [x |-> a]
StateOf(i, p, q) == [inputs |-> i, outputs |-> [p |-> p, q |-> q]]
Lacking == [codec |-> "unavailable", media |-> "m", asset |-> "none", size |-> 0]
SoundIndex ==
    [canonical |-> TRUE, default |-> Single(1), aliases |-> [first |-> Single(1)],
     inputs |-> {"x"}, outputs |-> {"p", "q"},
     bindings |-> {[input |-> "x", kind |-> "range", start |-> 1, stop |-> 2, step |-> 1]},
     states |-> Single(1) :> StateOf(Single(1), Output("file", "a", 2), Output("blob", "b", 2))
                @@ Single(2) :> StateOf(Single(2), Output("file", "a", 2), Lacking)]
MCWireIndexes ==
    {SoundIndex,
     [SoundIndex EXCEPT !.states = Single(1) :> StateOf(Single(1), Output("file", "a", 3),
                                                         Output("scalar", "b", 0))
                                    @@ Single(2) :> @[Single(2)]],
     [SoundIndex EXCEPT !.states[Single(2)].inputs = Single(1)],
     [SoundIndex EXCEPT !.default = Single(3)],
     [SoundIndex EXCEPT !.states[Single(2)].outputs.p = Output("blob", "a", 2)],
     [SoundIndex EXCEPT !.canonical = FALSE]}
Response(ok, declared, size, intact, forms) ==
    [ok |-> ok, declared |-> declared, size |-> size, intact |-> intact, forms |-> forms]
AllForms == {"framing", "envelope", "facts", "json"}
MCResponses ==
    {Response(FALSE, {}, 0, FALSE, {}), Response(TRUE, {}, 2, TRUE, AllForms),
     Response(TRUE, {2}, 2, FALSE, AllForms), Response(TRUE, {}, 2, TRUE, {"facts"}),
     Response(TRUE, {3}, 3, TRUE, AllForms), Response(TRUE, {}, 4, FALSE, {}),
     Response(TRUE, {}, 1, FALSE, AllForms)}

MCModuleOf == [root |-> "a", child |-> "b"]

-----------------------------------------------------------------------------
(* ReplayMerge: up to three snapshots of a view, in every order *)

Model(n) == [projection |-> "p", name |-> n]
Event(n, method, esm) == [model |-> Model(n), message |-> [method |-> method, esm |-> esm]]
Open(n) == Event(n, "open", "f")
Upd(n) == Event(n, "update", "null")
MergeId == [owner |-> "c", projection |-> "p", name |-> "u"]
Shot(evs) == [owner |-> "c", projection |-> "p", events |-> evs, files |-> [f |-> 1],
              ui |-> MergeId :> 1, functions |-> MergeId :> <<"g">>]
MCSnapshots ==
    {Shot(<<Open("a"), Open("b"), Upd("a")>>), Shot(<<Open("b"), Open("c")>>),
     Shot(<<Open("c"), Open("a"), Upd("a")>>), Shot(<<Open("b"), Open("a"), Upd("a")>>),
     Shot(<<Open("a")>>),
     [Shot(<<Open("b"), Open("c")>>) EXCEPT !.ui = MergeId :> 2],
     [Shot(<<Open("b"), Open("c")>>) EXCEPT !.files = [g |-> 1]]}
MCReplayInputs == UNION {[1..n -> MCSnapshots] : n \in 1..3}

MCWantedAssets == "c1" :> <<2, 1>> @@ "c2" :> <<1>>

-----------------------------------------------------------------------------
(* ScratchpadStream: whole streams, and streams that break a limit or end early *)

Out(text) == <<"stdout", "lf", "data">> \o text \o <<"lf", "lf">>
Err(text) == <<"stderr", "lf", "data">> \o text \o <<"lf", "lf">>
Done(what) == <<"done", "cr", "lf", "data", what, "cr", "lf", "cr", "lf">>
MCGoodWires ==
    {Out(<<"x", "m1">>) \o Out(<<"m2", "a">>) \o Out(<<"b", "newline">>) \o Done("success"),
     Out(<<"m1", "m1", "m2", "a", "newline">>) \o Err(<<"m1">>) \o Out(<<"x">>)
       \o Done("success"),
     Out(<<"m1", "m2", "a">>) \o <<"done", "lf", "data", "success">>}
MCWires ==
    MCGoodWires \cup
    {Out(<<"m1", "m2", "a", "newline", "m1", "m2">>) \o Done("success"),
     Out(<<"m1", "m2", "newline">>) \o Done("success"),
     Out(<<"m1", "m2", "a", "b", "a", "newline">>) \o Done("success"),
     Out(<<"m1", "m2", "a", "newline">>) \o Done("failure"),
     Out(<<"x", "x", "x", "x", "x", "x", "x">>) \o Done("success"),
     Out(<<"m1", "m2", "a">>)}

-----------------------------------------------------------------------------
(* One of them at a time *)

VARIABLE part

servicesVars == <<part, webVars, exportVars, widgetVars, mergeVars, managedVars, remoteVars,
                  streamVars>>

\* A part whose turn it is not rests: those with a liveness property in an initial
\* state of their own.
ServicesInit ==
    /\ part \in {"web", "export", "widget", "merge", "managed", "remote", "stream"}
    /\ ExportInit /\ WidgetInit /\ RemoteInit
    /\ ManagedInit /\ (part # "managed" => posix)
    /\ IF part = "web" THEN WebInit
       ELSE /\ ctl = 0 /\ portOps = 0 /\ page = 0 /\ refreshing = 0 /\ serverManifest = 0
            /\ wish = 0 /\ happened = 0
    /\ IF part = "merge" THEN MergeInit ELSE mg = 0
    /\ IF part = "stream" THEN StreamInit
       ELSE arriving = 0 /\ parser = 0 /\ extractor = 0 /\ execution = 0

ServicesNext ==
    /\ UNCHANGED part
    /\ \/ part = "web" /\ WebNext
          /\ UNCHANGED <<exportVars, widgetVars, mergeVars, managedVars, remoteVars, streamVars>>
       \/ part = "export" /\ ExportNext
          /\ UNCHANGED <<webVars, widgetVars, mergeVars, managedVars, remoteVars, streamVars>>
       \/ part = "widget" /\ WidgetNext
          /\ UNCHANGED <<webVars, exportVars, mergeVars, managedVars, remoteVars, streamVars>>
       \/ part = "merge" /\ MergeNext
          /\ UNCHANGED <<webVars, exportVars, widgetVars, managedVars, remoteVars, streamVars>>
       \/ part = "managed" /\ ManagedNext
          /\ UNCHANGED <<webVars, exportVars, widgetVars, mergeVars, remoteVars, streamVars>>
       \/ part = "remote" /\ RemoteNext
          /\ UNCHANGED <<webVars, exportVars, widgetVars, mergeVars, managedVars, streamVars>>
       \/ part = "stream" /\ StreamNext
          /\ UNCHANGED <<webVars, exportVars, widgetVars, mergeVars, managedVars, remoteVars>>

\* The fairness of the parts: see their specifications.
ServicesFairness ==
    /\ WF_exportVars(part = "export" /\ Unwinds)
    /\ WF_widgetVars(part = "widget" /\ RuntimeSteps)
    /\ WF_managedVars(part = "managed" /\ (Stops \/ Closes))
    /\ WF_remoteVars(part = "remote" /\ Sweeps)
    /\ \A c \in Captures : WF_remoteVars(part = "remote" /\ Expires(c))

ServicesSpec == ServicesInit /\ [][ServicesNext]_servicesVars /\ ServicesFairness

-----------------------------------------------------------------------------
(* Their properties *)

\* The types of all parts.
ServicesTypeOK ==
    /\ part = "web" => WebTypeOK
    /\ part = "export" => ExportTypeOK
    /\ part = "widget" => WidgetTypeOK
    /\ part = "merge" => MergeTypeOK
    /\ part = "managed" => ManagedTypeOK
    /\ part = "remote" => RemoteTypeOK
    /\ part = "stream" => StreamTypeOK

\* The page shows the publication it settled on, keeps what the user asked for
\* last, reads from an export only what was published, and takes down once what
\* was mounted for a widget (prepared/controller.ts, export.ts, loader-anywidget).
BrowserShowsWhatItRead ==
    /\ part = "web" => PageShowsCurrent /\ WishIsKept
    /\ part = "export" => ExportReadsAreSound
    /\ part = "widget" => WidgetsAreCleanedUp

\* What arrives in pieces is put together whole: the models of a page in the order
\* of every snapshot they come from (replay-resources.ts), and an answer of the
\* scratchpad from its chunks, lines and output events (_remote/client.py).
PiecesAreJoined ==
    /\ part = "merge" => MergeKeepsEveryOrder
    /\ part = "stream" => ScratchpadIsRead

\* What was given up ends: an aborted call of an export (export.ts), a mount that
\* is disposed (loader-anywidget), the server of a build that is closed
\* (_remote/managed.py), and the files of a capture nobody reads (_remote/server.py).
GivenUpServicesEnd ==
    /\ part = "export" => AbortedCallsEnd
    /\ part = "widget" => DisposalEnds
    /\ part = "managed" => CloseEnds
    /\ part = "remote" => FilesLeave
=============================================================================
