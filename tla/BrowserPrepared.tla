--------------------------- MODULE BrowserPrepared ---------------------------
(***************************************************************************)
(* The prepared export of a page: PreparedStateController with the queue   *)
(* of PreparedStateTransitions, PreparedPublicationRefresh and the query   *)
(* of the address bar (packages/browser/src/prepared).                     *)
(*                                                                         *)
(* JavaScript runs to the next await, so an action is the code between two *)
(* of them.  The user changes inputs while a refresh replaces the          *)
(* publication; both supersede what is in progress, and the calls of the   *)
(* application's port are made one after the other.                        *)
(***************************************************************************)
EXTENDS Naturals, Sequences, FiniteSets, Functions, SequencesExt

CONSTANTS
    WebExports,     \* immutable exports, identified by their index
    WebStates,      \* [WebExports -> sets of input vectors], the states of each
    WebTexts,       \* [values of inputs -> their text in a query]
    WebManifests,   \* manifests a server may publish, [export, inputs]
    MaxRequests,    \* bounds of the input updates and refreshes together,
    MaxCancels,     \* of the cancellations by callers or cancel(),
    MaxPortFailures \* and of the failures of the port

ASSUME WebAssumption == \A m \in WebManifests : m.export \in WebExports

NoInputs == [none |-> 0]
NoPublication == [export |-> "none", inputs |-> NoInputs, default |-> NoInputs]

\* A publication is a manifest with the export it names and a selected state.
Publications ==
    {[export |-> m.export, inputs |-> i, default |-> m.inputs] :
        m \in WebManifests, i \in UNION Range(WebStates)} \cup {NoPublication}

VARIABLES
    ctl,            \* the controller and its transitions
    portOps,        \* transitions and restorations, chained one after the other
    page,           \* what the application shows: the view and its controls
    refreshing,     \* the refresh in progress
    serverManifest, \* what the manifest's address answers
    wish,           \* the inputs asked for last, until shown or given up
    happened        \* how often the bounded events happened

webVars == <<ctl, portOps, page, refreshing, serverManifest, wish, happened>>

Callers == {"start", "update", "refresh", "none"}
WebInputs == UNION Range(WebStates)

WebTypeOK ==
    /\ {ctl.current, ctl.target} \subseteq Publications
    /\ ctl.active = 0 \/ \E i \in DOMAIN portOps : portOps[i].generation = ctl.active
    /\ ctl.active \in 0..ctl.generation
    /\ {ctl.disposed, ctl.released} \subseteq BOOLEAN
    /\ \A i \in DOMAIN portOps :
           /\ portOps[i].kind \in {"apply", "restore"}
           /\ portOps[i].failure \in {"none", "missing", "failed"}
           /\ portOps[i].stage \in {"queued", "port", "published", "restore"}
           /\ portOps[i].stage # "queued" => i = 1
           /\ portOps[i].by \in Callers
    /\ page.view \in Publications
    /\ refreshing.pc \in {"idle", "fetch", "settle", "open", "apply"}
    /\ serverManifest \in WebManifests

NoRefresh == [pc |-> "idle", manifest |-> NoInputs, aborted |-> FALSE, waits |-> 0]

WebInit ==
    /\ ctl = [current |-> NoPublication, target |-> NoPublication, generation |-> 0,
              active |-> 0, pending |-> NoInputs, disposed |-> FALSE, released |-> FALSE]
    /\ portOps = <<>>
    /\ page = [view |-> NoPublication, controls |-> NoInputs, unsettled |-> FALSE]
    /\ refreshing = NoRefresh
    /\ serverManifest \in WebManifests
    /\ wish = NoInputs
    /\ happened = [requests |-> 0, cancels |-> 0, failures |-> 0]

Count(what, limit) ==
    /\ happened[what] < limit
    /\ happened' = [happened EXCEPT ![what] = @ + 1]

-----------------------------------------------------------------------------
(* export.ts, state-selection.ts *)

\* The input names of an export.
InputNames(e) == DOMAIN (CHOOSE i \in WebStates[e] : TRUE)

\* A manifest may name a state that its export does not have.
Valid(m) == m.inputs \in WebStates[m.export]
SelectedState(m) == [export |-> m.export, inputs |-> m.inputs, default |-> m.inputs]
WithState(publication, inputs) == [publication EXCEPT !.inputs = inputs]
Resolves(publication, inputs) == inputs \in WebStates[publication.export]
SameContract(p, q) == InputNames(p.export) = InputNames(q.export)
SameState(p, q) == p.export = q.export /\ p.inputs = q.inputs

\* The selection of the user outlives a new publication, unless it was only the
\* default of the old one.
PreservePreparedSelection(current, next) ==
    IF /\ current # NoPublication /\ current.inputs # current.default
       /\ SameContract(current, next) /\ Resolves(next, current.inputs)
    THEN WithState(next, current.inputs)
    ELSE next

PendingInputsForPublication(current, next, pending) ==
    IF pending # NoInputs /\ current # NoPublication /\ ~SameContract(current, next)
    THEN NoInputs
    ELSE pending

\* query.ts: the inputs that vary, as texts, and the values the texts stand for.
InputDomain(e, n) == {i[n] : i \in WebStates[e]}
TextMatches(e, n, text) == {v \in InputDomain(e, n) : WebTexts[v] = text}
FormatPreparedQuery(e, inputs) ==
    [n \in {m \in InputNames(e) : Cardinality(InputDomain(e, m)) >= 2} |-> WebTexts[inputs[n]]]
Ambiguous(e, query) ==
    \E n \in DOMAIN query : Cardinality(TextMatches(e, n, query[n])) > 1
QueryInputPatch(e, query) ==
    [n \in DOMAIN query |-> CHOOSE v \in InputDomain(e, n) : v \in TextMatches(e, n, query[n])]

-----------------------------------------------------------------------------
(* PreparedStateTransitions *)

\* cancel: whatever is in progress loses its authority to commit.
AbortActive ==
    [i \in DOMAIN portOps |-> IF portOps[i].generation = ctl.active
                              THEN [portOps[i] EXCEPT !.aborted = TRUE] ELSE portOps[i]]

Superseding(target, active, pending) ==
    ctl' = [ctl EXCEPT !.generation = @ + 1, !.target = target, !.active = active,
                       !.pending = pending]

PortOp(kind, next, by, requested) ==
    [kind |-> kind, failure |-> "none", next |-> next, by |-> by, requested |-> requested, stage |-> "queued",
     generation |-> ctl.generation + 1, aborted |-> FALSE, callerAborted |-> FALSE]

\* apply, and restore or reject: behind what is in progress.
Apply(next, by, requested, pending) ==
    /\ Superseding(next, ctl.generation + 1, pending)
    /\ portOps' = Append(AbortActive, PortOp("apply", next, by, requested))

QueueRestore(pending) ==
    /\ Superseding(NoPublication, 0, pending)
    /\ portOps' = Append(AbortActive, PortOp("restore", NoPublication, "none", NoInputs))

PortHead == Head(portOps)
AtStage(stage) == portOps # <<>> /\ PortHead.stage = stage
ToStage(stage) == portOps' = [portOps EXCEPT ![1].stage = stage]
Authorized == PortHead.generation = ctl.generation /\ ~ctl.disposed

\* Pending inputs that a publication shows are no longer pending.
WithoutSatisfied(pending, publication) ==
    IF pending = publication.inputs THEN NoInputs ELSE pending

\* Mutation of GivesUp: a superseded request is forgotten too.
GivesUpSuperseded(outcome) == outcome \in {"failed", "abort"}

\* pendingInputsAfterFailure: a request that was superseded or whose files are
\* missing stays pending for the next publication.
GivesUp(outcome) == outcome = "failed" \/ (outcome = "abort" /\ PortHead.callerAborted)
PendingInputsAfterFailure(outcome) ==
    IF ctl.pending = PortHead.requested /\ GivesUp(outcome) THEN NoInputs ELSE ctl.pending

\* The finally of a transition and what its caller does next: no event comes
\* between them.
Finish(outcome, current) ==
    /\ portOps' = Tail(portOps)
    /\ ctl' = [ctl EXCEPT
           !.current = current,
           !.active = IF @ = PortHead.generation THEN 0 ELSE @,
           !.target = IF PortHead.generation = ctl.generation THEN NoPublication ELSE @,
           !.pending = IF PortHead.kind = "restore" THEN @
                       ELSE IF outcome = "done" THEN WithoutSatisfied(@, PortHead.next)
                       ELSE IF PortHead.by = "update" THEN PendingInputsAfterFailure(outcome)
                       ELSE @]
    /\ wish' = IF \/ /\ PortHead.by = "update" /\ wish = PortHead.requested
                     /\ outcome = "failed" \/ PortHead.callerAborted
                  \/ outcome = "done" /\ current.inputs = wish
               THEN NoInputs ELSE wish
    /\ refreshing' = IF PortHead.by = "refresh" THEN NoRefresh ELSE refreshing

\* An aborted transition that nothing superseded leaves the page as it is.
LeftAsItIs(outcome) ==
    page' = [page EXCEPT
        !.unsettled = @ \/ (outcome = "abort" /\ PortHead.generation = ctl.generation)]

OpStarts ==
    /\ AtStage("queued") /\ PortHead.kind = "apply"
    /\ IF PortHead.aborted
       THEN Finish("abort", ctl.current) /\ LeftAsItIs("abort")
       ELSE ToStage("port") /\ UNCHANGED <<ctl, refreshing, wish, page>>
    /\ UNCHANGED <<serverManifest, happened>>

\* The port checks its signal before it shows the complete state.
PortPublishes ==
    /\ AtStage("port") /\ ~PortHead.aborted
    /\ page' = [view |-> PortHead.next, controls |-> PortHead.next.inputs,
                unsettled |-> page.unsettled]
    /\ ToStage("published")
    /\ UNCHANGED <<ctl, refreshing, serverManifest, wish, happened>>

OpCommits ==
    /\ AtStage("published")
    /\ IF PortHead.aborted
       THEN Finish("abort", ctl.current) /\ LeftAsItIs("abort")
       ELSE /\ Finish("done", IF Authorized THEN PortHead.next ELSE ctl.current)
            /\ page' = [page EXCEPT !.unsettled = FALSE]
    /\ UNCHANGED <<serverManifest, happened>>

\* Mutation of PortRejects: a failure is treated like an abort.
PortRejectsOnly(outcome) == Finish(outcome, ctl.current) /\ LeftAsItIs(outcome)

\* What the application asked for is taken back when a transition fails, not
\* when it is aborted.
PortRejects(outcome) ==
    IF Authorized /\ outcome # "abort" /\ ctl.current # NoPublication
    THEN /\ portOps' = [portOps EXCEPT ![1].stage = "restore", ![1].failure = outcome]
         /\ UNCHANGED <<ctl, refreshing, wish, page>>
    ELSE Finish(outcome, ctl.current) /\ LeftAsItIs(outcome)

\* An AbortError of the port is an abort whoever aborted.
PortFails ==
    /\ AtStage("port")
    /\ \/ PortHead.aborted /\ PortRejects("abort") /\ UNCHANGED happened
       \/ /\ Count("failures", MaxPortFailures)
          /\ \E outcome \in {"missing", "failed", "abort"} : PortRejects(outcome)
    /\ UNCHANGED serverManifest

\* #restoreCurrent, also of a queued restoration that is still the latest.
RestoreStarts ==
    /\ AtStage("queued") /\ PortHead.kind = "restore"
    /\ IF Authorized /\ ctl.current # NoPublication
       THEN ToStage("restore") /\ UNCHANGED <<ctl, refreshing, wish>>
       ELSE Finish("done", ctl.current)
    /\ UNCHANGED <<page, serverManifest, happened>>

PortRestores ==
    /\ AtStage("restore")
    /\ page' = [view |-> ctl.current, controls |-> ctl.current.inputs,
                unsettled |-> page.unsettled /\ ~Authorized]
    /\ Finish(IF PortHead.kind = "restore" THEN "done" ELSE PortHead.failure, ctl.current)
    /\ UNCHANGED <<serverManifest, happened>>

\* The restoration fails too: an AggregateError, whatever failed first.
RestoreFails ==
    /\ AtStage("restore")
    /\ Count("failures", MaxPortFailures)
    /\ page' = [page EXCEPT !.unsettled = TRUE]
    /\ Finish("failed", ctl.current)
    /\ UNCHANGED serverManifest

-----------------------------------------------------------------------------
(* PreparedStateController *)

Started == ~ctl.disposed /\ (ctl.target # NoPublication \/ ctl.current # NoPublication)
Source == IF ctl.target # NoPublication THEN ctl.target ELSE ctl.current

\* updateInputs with a sparse patch, also from a control or a query; linked is
\* what the query's author meant, or NoInputs for a control.  The
\* application already shows the patch in its controls.
UpdateInputs(patch, linked) ==
    LET base == IF ctl.pending # NoInputs THEN ctl.pending ELSE Source.inputs
        requested == patch @@ base
    IN  /\ page' = [page EXCEPT !.controls = requested]
        /\ wish' = IF DOMAIN requested = InputNames(Source.export) /\ requested # ctl.current.inputs
                   THEN IF linked # NoInputs THEN linked ELSE requested
                   ELSE NoInputs
        /\ IF requested = Source.inputs
           THEN IF ctl.target # NoPublication
                THEN ctl' = [ctl EXCEPT !.pending = requested] /\ UNCHANGED portOps
                ELSE QueueRestore(NoInputs)
           ELSE IF Resolves(Source, requested)
           THEN Apply(WithState(Source, requested), "update", requested, requested)
           ELSE QueueRestore(IF DOMAIN requested = InputNames(Source.export)
                             THEN requested ELSE NoInputs)

Patches == UNION {[{n} -> {i[n] : i \in {j \in WebInputs : n \in DOMAIN j}}] :
                     n \in UNION {DOMAIN i : i \in WebInputs}}

UserUpdates ==
    /\ Started
    /\ Count("requests", MaxRequests)
    /\ \E patch \in Patches :
           /\ DOMAIN patch \subseteq InputNames(Source.export)
           /\ UpdateInputs(patch, NoInputs)
    /\ UNCHANGED <<refreshing, serverManifest>>

\* updateQuery with the query of a state, as another page formatted it.
UserFollowsLink ==
    /\ Started
    /\ Count("requests", MaxRequests)
    /\ \E linked \in WebStates[Source.export] :
           LET query == FormatPreparedQuery(Source.export, linked)
               selected == QueryInputPatch(Source.export, query) @@ Source.inputs
           IN  /\ ~Ambiguous(Source.export, query)
               /\ Resolves(Source, selected)
               /\ UpdateInputs(selected, linked)
    /\ UNCHANGED <<refreshing, serverManifest>>

\* The signal of a caller.
CallerAborts ==
    /\ Count("cancels", MaxCancels)
    /\ \E i \in DOMAIN portOps :
           /\ portOps[i].by = "update" /\ ~portOps[i].callerAborted
           /\ portOps' = [portOps EXCEPT ![i].aborted = TRUE, ![i].callerAborted = TRUE]
    /\ UNCHANGED <<ctl, page, refreshing, serverManifest, wish>>

\* cancel(): the request stays pending.  A restoration that waits, or is running,
\* loses its authority as well.
Cancel ==
    /\ ~ctl.disposed
    /\ Count("cancels", MaxCancels)
    /\ Superseding(NoPublication, 0, ctl.pending)
    /\ portOps' = AbortActive
    /\ page' = [page EXCEPT !.unsettled = @ \/ portOps # <<>>]
    /\ UNCHANGED <<refreshing, serverManifest, wish>>

\* replacePublication, up to its await.  A selection the export refuses raises.
ReplacePublication(publication) ==
    LET pending == PendingInputsForPublication(ctl.current, publication, ctl.pending)
        selected == IF pending # NoInputs /\ Resolves(publication, pending)
                    THEN WithState(publication, pending) ELSE publication
        valid == pending = NoInputs \/ DOMAIN pending = InputNames(publication.export)
        metadata == ctl.target = NoPublication /\ SameState(ctl.current, selected)
    IN  /\ wish' = IF pending # ctl.pending \/ (metadata /\ selected.inputs = wish)
                   THEN NoInputs ELSE wish
        /\ IF ~valid THEN /\ refreshing' = NoRefresh
                          /\ UNCHANGED <<ctl, portOps>>
           ELSE IF metadata THEN /\ refreshing' = NoRefresh
                                 /\ ctl' = [ctl EXCEPT !.current = selected,
                                                       !.pending = WithoutSatisfied(pending, selected)]
                                 /\ UNCHANGED portOps
           ELSE /\ refreshing' = [refreshing EXCEPT !.pc = "apply"]
                /\ Apply(selected, "refresh", NoInputs, pending)

\* dispose: the lifecycle aborts everything, and the port is disposed after it.
Dispose ==
    /\ ~ctl.disposed
    /\ ctl' = [ctl EXCEPT !.disposed = TRUE, !.generation = @ + 1,
                          !.target = NoPublication, !.active = 0]
    /\ portOps' = [i \in DOMAIN portOps |-> [portOps[i] EXCEPT !.aborted = TRUE]]
    /\ UNCHANGED <<page, refreshing, serverManifest, wish, happened>>

DisposeEnds ==
    /\ ctl.disposed /\ ~ctl.released /\ portOps = <<>>
    /\ ctl' = [ctl EXCEPT !.released = TRUE, !.current = NoPublication, !.pending = NoInputs]
    /\ UNCHANGED <<portOps, page, refreshing, serverManifest, wish, happened>>

-----------------------------------------------------------------------------
(* PreparedPublicationRefresh *)

Publish ==
    /\ \E m \in WebManifests \ {serverManifest} : serverManifest' = m
    /\ UNCHANGED <<ctl, portOps, page, refreshing, wish, happened>>

\* start and refresh; a second call joins the first.
Refresh ==
    /\ refreshing.pc = "idle" /\ ~ctl.disposed
    /\ Count("requests", MaxRequests)
    /\ refreshing' = [NoRefresh EXCEPT !.pc = "fetch"]
    /\ UNCHANGED <<ctl, portOps, page, serverManifest, wish>>

RefreshAborts ==
    /\ refreshing.pc # "idle" /\ ~refreshing.aborted
    /\ Count("cancels", MaxCancels)
    /\ refreshing' = [refreshing EXCEPT !.aborted = TRUE]
    /\ portOps' = [i \in DOMAIN portOps |->
           IF portOps[i].by = "refresh" THEN [portOps[i] EXCEPT !.aborted = TRUE] ELSE portOps[i]]
    /\ UNCHANGED <<ctl, page, serverManifest, wish>>

\* The manifest is not the document of a prepared export.
ManifestInvalid ==
    /\ refreshing.pc = "fetch" /\ ~refreshing.aborted
    /\ refreshing' = NoRefresh
    /\ UNCHANGED <<ctl, portOps, page, serverManifest, wish, happened>>

\* The manifest cannot be read, the export not opened, or the signal aborted.
RefreshFails ==
    /\ refreshing.pc \in {"fetch", "settle", "open"}
    /\ refreshing.pc = "settle" => refreshing.aborted
    /\ refreshing' = NoRefresh
    /\ UNCHANGED <<ctl, portOps, page, serverManifest, wish, happened>>

\* Both ways to a publication end in the selection against what is current now.
SelectPublication(manifest) ==
    IF ctl.disposed \/ ~Valid(manifest)
    THEN refreshing' = NoRefresh /\ UNCHANGED <<ctl, portOps, wish>>
    ELSE ReplacePublication(PreservePreparedSelection(ctl.current, SelectedState(manifest)))

\* An export that is open already is used again.
ResolveManifest(manifest) ==
    IF ctl.current.export = manifest.export
    THEN SelectPublication(manifest)
    ELSE /\ refreshing' = [refreshing EXCEPT !.pc = "open", !.manifest = manifest]
         /\ UNCHANGED <<ctl, portOps, wish>>

ManifestArrives ==
    /\ refreshing.pc = "fetch" /\ ~refreshing.aborted
    /\ IF ctl.active # 0
       THEN /\ refreshing' = [refreshing EXCEPT !.pc = "settle", !.manifest = serverManifest,
                                  !.waits = Last(portOps).generation]
            /\ UNCHANGED <<ctl, portOps, wish>>
       ELSE ResolveManifest(serverManifest)
    /\ UNCHANGED <<page, serverManifest, happened>>

TransitionSettled ==
    /\ refreshing.pc = "settle" /\ ~refreshing.aborted
    /\ \A i \in DOMAIN portOps : portOps[i].generation > refreshing.waits
    /\ ResolveManifest(refreshing.manifest)
    /\ UNCHANGED <<page, serverManifest, happened>>

ExportOpens ==
    /\ refreshing.pc = "open" /\ ~refreshing.aborted
    /\ SelectPublication(refreshing.manifest)
    /\ UNCHANGED <<page, serverManifest, happened>>

-----------------------------------------------------------------------------
WebNext ==
    \/ OpStarts \/ PortPublishes \/ OpCommits \/ PortFails
    \/ RestoreStarts \/ PortRestores \/ RestoreFails
    \/ UserUpdates \/ UserFollowsLink \/ CallerAborts \/ Cancel
    \/ Dispose \/ DisposeEnds
    \/ Publish \/ Refresh \/ RefreshAborts \/ RefreshFails \/ ManifestInvalid
    \/ ManifestArrives \/ TransitionSettled \/ ExportOpens

WebSpec == WebInit /\ [][WebNext]_webVars

-----------------------------------------------------------------------------
(* Properties *)

Quiet == portOps = <<>> /\ refreshing.pc # "apply" /\ ~ctl.disposed

\* When nothing is in progress, the view and the controls show the committed
\* state, whatever was superseded or failed; only a cancellation or a failed
\* restoration leaves them as they are (prepared-publications.md:222-240).
PageShowsCurrent ==
    Quiet /\ ctl.current # NoPublication /\ ~page.unsettled =>
        SameState(page.view, ctl.current) /\ page.controls = ctl.current.inputs

\* What the user asked for last stays pending until it is shown, a request for it
\* fails or its caller gives up, however many publications and updates come in
\* between (prepared-publications.md:291-296).
WishIsKept ==
    Quiet /\ ctl.current # NoPublication /\ wish # NoInputs => ctl.pending = wish

=============================================================================
