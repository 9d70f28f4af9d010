----------------------------- MODULE ReplayMerge -----------------------------
(***************************************************************************)
(* The replay resources of several snapshots, merged for one page:         *)
(* mergeMarimoReplayResources and parseResources of packages/browser/src.  *)
(*                                                                         *)
(* A snapshot lists the lifecycle notifications of its widget models in    *)
(* the order they must be replayed; snapshots of one page overlap.  The    *)
(* merge replays each notification once, in an order every snapshot        *)
(* accepts, or reports that there is none.                                 *)
(***************************************************************************)
EXTENDS Naturals, Sequences, FiniteSets, Functions, SequencesExt, Relation

CONSTANT ReplayInputs   \* sequences of snapshots a page may merge

VARIABLE mg     \* the merge: its input, its maps, its graph and what it emitted

mergeVars == <<mg>>

\* A notification is [model, message], a message [method, esm].
Methods == {"open", "update", "custom", "close"}

EsmAvailable(message, s) ==
    message.method \in {"open", "update"} => message.esm \in DOMAIN s.files \cup {"null", "url"}

ParsesResources(s) ==
    /\ \A i \in DOMAIN s.events :
           /\ s.events[i].model.projection = s.projection
           /\ s.events[i].message.method \in Methods
           /\ EsmAvailable(s.events[i].message, s)
    /\ DOMAIN s.ui = DOMAIN s.functions
    /\ \A id \in DOMAIN s.ui : id.owner = s.owner /\ id.projection = s.projection

Agree(f, g) == \A x \in DOMAIN f \cap DOMAIN g : f[x] = g[x]
Both(f, g) == [x \in DOMAIN f \cup DOMAIN g |-> IF x \in DOMAIN g THEN g[x] ELSE f[x]]

ModelsOf(s) == {s.events[i].model : i \in DOMAIN s.events}
Sequence(s, m) == SelectSeq(s.events, LAMBDA e : e.model = m)
Grouped(s) == [m \in ModelsOf(s) |-> Sequence(s, m)]

\* The i-th notification of a snapshot is the n-th of its model.
Ordinal(s, i) == Cardinality({j \in 1..(i - 1) : s.events[j].model = s.events[i].model})
Keys(s) == [i \in DOMAIN s.events |-> <<s.events[i].model, Ordinal(s, i)>>]

MergeInit ==
    \E input \in ReplayInputs :
        mg = [pc |-> "take", input |-> input, left |-> input, files |-> << >>, ui |-> << >>,
              functions |-> << >>, sequences |-> << >>, events |-> << >>, edges |-> << >>,
              waits |-> << >>, ready |-> << >>, emitted |-> << >>]

Conflict(s) ==
    \/ ~ParsesResources(s)
    \/ ~Agree(mg.files, s.files)
    \/ ~Agree(mg.ui, s.ui) \/ ~Agree(mg.functions, s.functions)
    \/ ~Agree(mg.sequences, Grouped(s))

\* The consecutive notifications of a snapshot.
Steps(s) == LET k == Keys(s) IN [i \in 1..(Len(k) - 1) |-> <<k[i], k[i + 1]>>]

\* Mutation of NewEdges: an edge two snapshots share is counted by each.
EveryEdge(edges, s) == Steps(s)

NewEdges(edges, s) == SelectSeq(Steps(s), LAMBDA e : ~Contains(edges, e))

\* Edges are kept once, and each adds one to what its end waits for.
TakeSnapshot ==
    /\ mg.pc = "take" /\ mg.left # << >>
    /\ LET s == Head(mg.left)
           events == mg.events \o SelectSeq(Keys(s), LAMBDA k : ~Contains(mg.events, k))
           new == NewEdges(mg.edges, s)
       IN mg' = IF Conflict(s) THEN [mg EXCEPT !.pc = "conflict"]
                ELSE [mg EXCEPT
                    !.left = Tail(@),
                    !.files = Both(@, s.files), !.ui = Both(@, s.ui),
                    !.functions = Both(@, s.functions),
                    !.sequences = Both(@, Grouped(s)),
                    !.events = events,
                    !.edges = @ \o SelectSeq(new, LAMBDA e : ~Contains(mg.edges, e)),
                    !.waits = [k \in Range(events) |->
                        (IF k \in DOMAIN mg.waits THEN mg.waits[k] ELSE 0)
                        + Len(SelectSeq(new, LAMBDA e : e[2] = k))]]

StartEmitting ==
    /\ mg.pc = "take" /\ mg.left = << >>
    /\ mg' = [mg EXCEPT !.pc = "emit",
                        !.ready = SelectSeq(mg.events, LAMBDA k : mg.waits[k] = 0)]

Emit ==
    /\ mg.pc = "emit" /\ mg.ready # << >>
    /\ LET k == Head(mg.ready)
           next == SelectSeq(mg.edges, LAMBDA e : e[1] = k)
           waits == [x \in DOMAIN mg.waits |->
                        IF \E i \in DOMAIN next : next[i][2] = x THEN mg.waits[x] - 1
                        ELSE mg.waits[x]]
           freed == SelectSeq(next, LAMBDA e : waits[e[2]] = 0)
       IN mg' = [mg EXCEPT !.waits = waits, !.emitted = Append(@, k),
                           !.ready = Tail(@) \o [i \in DOMAIN freed |-> freed[i][2]]]

MergeEnds ==
    /\ mg.pc = "emit" /\ mg.ready = << >>
    /\ mg' = [mg EXCEPT !.pc = IF Len(mg.emitted) # Len(mg.events) THEN "cyclic" ELSE "done"]

MergeNext == TakeSnapshot \/ StartEmitting \/ Emit \/ MergeEnds

MergeSpec == MergeInit /\ [][MergeNext]_mergeVars

-----------------------------------------------------------------------------
MergeTypeOK ==
    /\ mg.pc \in {"take", "emit", "done", "conflict", "cyclic"}
    /\ IsInjective(mg.events) /\ Range(mg.emitted) \subseteq Range(mg.events)
    /\ DOMAIN mg.waits = Range(mg.events)

\* The place of a notification in the merged order.
Place(k) == CHOOSE i \in DOMAIN mg.emitted : mg.emitted[i] = k

Before == {<<k, l>> \in Range(mg.events) \X Range(mg.events) :
              \E n \in DOMAIN mg.input : \E i, j \in DOMAIN mg.input[n].events :
                  i < j /\ Keys(mg.input[n])[i] = k /\ Keys(mg.input[n])[j] = l}

\* The merged order has every notification of every snapshot once and keeps the
\* order of each; and a merge that gives up was asked for the impossible: the
\* snapshots want some notification before itself.
MergeKeepsEveryOrder ==
    /\ mg.pc = "done" =>
           /\ IsInjective(mg.emitted)
           /\ Range(mg.emitted) = UNION {Range(Keys(mg.input[n])) : n \in DOMAIN mg.input}
           /\ \A e \in Before : Place(e[1]) < Place(e[2])
    /\ mg.pc = "cyclic" =>
           LET R == [e \in Range(mg.events) \X Range(mg.events) |-> e \in Before]
           IN \E k \in Range(mg.events) : TransitiveClosure(R, Range(mg.events))[<<k, k>>]
=============================================================================
