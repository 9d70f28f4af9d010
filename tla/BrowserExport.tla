---------------------------- MODULE BrowserExport ----------------------------
(***************************************************************************)
(* A page reads an immutable export over HTTP: openExport, loadOutputs     *)
(* and verify of packages/browser/src.                                     *)
(*                                                                         *)
(* A read is a request, a body that arrives in chunks, a digest and a      *)
(* loader, with an await between any two of them.  The reads of one call   *)
(* run side by side and share the signal that aborts them.  The server     *)
(* may answer anything; a digest is the identity of the content.           *)
(***************************************************************************)
EXTENDS Naturals, FiniteSets, FiniteSetsExt, Functions

CONSTANTS
    WireIndexes,    \* what index.json may hold
    Responses,      \* [ok, declared, size, intact, forms] a server may answer
    IndexLimit, AssetLimit, TotalLimit, \* bytes of an index, an asset, all assets
    FirstBuffer,    \* bytes the first buffer of a body has
    MaxCalls        \* bound of the calls of the page

ASSUME BrowserExportAssumption ==
    /\ {IndexLimit, AssetLimit, FirstBuffer} \subseteq Nat \ {0}
    /\ \A w \in Responses : w.size \in Nat /\ w.declared \in SUBSET Nat

NoIndex == [none |-> 0]

VARIABLES
    opened,     \* the export the page has opened, or NoIndex
    rd,         \* the reads of the call in progress, by the object they read
    call,       \* the call in progress, or the last one
    made        \* how many calls were made

exportVars == <<opened, rd, call, made>>

-----------------------------------------------------------------------------
(* The index.  A state's fingerprint is the digest of its inputs: here the *)
(* inputs themselves, which the index may get wrong.                       *)

IsAvailable(d) == d.codec # "unavailable"
IsAsset(d) == d.codec \in {"file", "blob"}
Outputs(index) == UNION {Range(index.states[f].outputs) : f \in DOMAIN index.states}

BindingValid(index, b) ==
    /\ b.input \in index.inputs
    /\ b.kind = "range" => b.step > 0 /\ b.start <= b.stop
    /\ b.kind = "options" => b.values # {}

\* An output has one codec and one media type in all the states that have it.
RepresentationsAgree(index) ==
    \A f, g \in DOMAIN index.states, n \in index.outputs :
        LET d == index.states[f].outputs[n]
            e == index.states[g].outputs[n]
        IN IsAvailable(d) /\ IsAvailable(e) => d.codec = e.codec /\ d.media = e.media

\* Descriptors that name one asset state the same facts about it.
AssetsAgree(index) ==
    \A d, e \in {d \in Outputs(index) : IsAsset(d)} :
        d.codec = e.codec /\ d.asset = e.asset => d.size = e.size /\ d.media = e.media

ParsesIndex(index) ==
    /\ index.outputs # {}
    /\ \A b \in index.bindings : BindingValid(index, b)
    /\ index.states # << >>
    /\ \A f \in DOMAIN index.states :
           /\ DOMAIN index.states[f].inputs = index.inputs
           /\ DOMAIN index.states[f].outputs = index.outputs
    /\ Range(index.aliases) \subseteq DOMAIN index.states
    /\ index.default \in DOMAIN index.states
    /\ RepresentationsAgree(index)
    /\ AssetsAgree(index)

FingerprintsHold(index) == \A f \in DOMAIN index.states : index.states[f].inputs = f

UniqueAssets(index) == {[asset |-> d.asset, size |-> d.size, codec |-> d.codec] :
                            d \in {d \in Outputs(index) : IsAsset(d)}}

\* The states the map of an opened export finds under a vector of inputs.
StatesByInputs(index, i) == {f \in DOMAIN index.states : index.states[f].inputs = i}

-----------------------------------------------------------------------------
\* The caller's signal, its fetch or a loader asked for the abort; else a failure did.
NoPageCall == [kind |-> "none", aborted |-> FALSE, asked |-> FALSE, failure |-> "none",
           left |-> {}, result |-> "none"]

\* A read of an object; expected is {} when nothing states its size.
Read(want, expected, limit) ==
    [pc |-> "fetch", want |-> want, expected |-> expected, limit |-> limit,
     served |-> [ok |-> FALSE, declared |-> {}, size |-> 0, intact |-> FALSE,
                 forms |-> {}],
     size |-> 0, capacity |-> 0, lock |-> FALSE, pending |-> FALSE, outcome |-> "none"]

Over(read, outcome) == [read EXCEPT !.pc = "done", !.outcome = outcome]

\* What load or verify does before it awaits anything.
StartRead(d, fits) ==
    LET read == Read(d, {d.size}, AssetLimit) IN
    CASE ~fits -> Over(read, "loader_unavailable")
      [] d.codec = "scalar" -> [read EXCEPT !.pc = "load"]
      [] d.size > AssetLimit -> Over(read, "read_limit_exceeded")
      [] OTHER -> read

ExportInit ==
    /\ opened = NoIndex /\ rd = << >> /\ call = NoPageCall /\ made = 0

InProgress == call.kind # "none" /\ call.result = "none"

\* The page makes one call at a time, once the streams of the last are free.
BeginCall(next, reads) ==
    /\ ~InProgress /\ made < MaxCalls
    /\ \A r \in DOMAIN rd : ~rd[r].lock
    /\ made' = made + 1 /\ rd' = reads /\ call' = next
    /\ UNCHANGED opened

OpenExport(index) ==
    /\ opened = NoIndex
    /\ BeginCall([NoPageCall EXCEPT !.kind = "open"],
             [o \in {"index"} |-> Read(index, {}, IndexLimit)])

\* loadOutputs: a read for each name, started together; fits are the names
\* whose loader accepts the output.
LoadOutputs(f, names, fits) ==
    LET d(n) == opened.states[f].outputs[n]
        reads == [n \in names |-> StartRead(d(n), n \in fits)]
        failed == {n \in names : reads[n].pc = "done"}
    IN
    IF \A n \in names : IsAvailable(d(n))
    THEN \E first \in IF failed = {} THEN {"none"} ELSE failed :
             BeginCall([NoPageCall EXCEPT !.kind = "outputs", !.failure = first,
                                  !.aborted = failed # {}], reads)
    ELSE BeginCall([NoPageCall EXCEPT !.kind = "outputs", !.result = "output_unavailable"], << >>)

\* verify: the assets are read one after the other, if all of them are few bytes.
Verify ==
    LET assets == UniqueAssets(opened)
        total == MapThenSumSet(LAMBDA a : a.size, assets)
    IN BeginCall([NoPageCall EXCEPT !.kind = "verify", !.left = assets,
                  !.result = IF total > TotalLimit THEN "read_limit_exceeded" ELSE "none"],
             << >>)

VerifyNext(a) ==
    /\ InProgress /\ call.kind = "verify" /\ a \in call.left
    /\ \A r \in DOMAIN rd : rd[r].outcome = "value" /\ ~rd[r].lock
    /\ ~call.aborted
    /\ rd' = [o \in {"asset"} |-> StartRead(a, TRUE)]
    /\ call' = [call EXCEPT !.left = @ \ {a}]
    /\ UNCHANGED <<opened, made>>

-----------------------------------------------------------------------------
\* Mutation of Settled: the failure of a sibling that was aborted replaces the first.
SettledLast(r, outcome) ==
    IF call.kind = "outputs" /\ outcome # "value"
    THEN [call EXCEPT !.failure = r, !.aborted = TRUE]
    ELSE call

\* A read settles: the first failure of loadOutputs aborts its siblings.
Settled(r, outcome) ==
    IF call.kind = "outputs" /\ outcome # "value" /\ call.failure = "none"
    THEN [call EXCEPT !.failure = r, !.aborted = TRUE]
    ELSE call

Settle(r, read) ==
    /\ rd' = [rd EXCEPT ![r] = read]
    /\ call' = IF read.pc = "done" THEN Settled(r, read.outcome) ELSE call
    /\ UNCHANGED <<opened, made>>

ReadAt(r, pc) == InProgress /\ rd[r].pc = pc

\* The loop of readBody: it checks the signal before it asks for a chunk, and
\* what ends the loop without a chunk outstanding frees the stream.
NextChunk(read) ==
    IF call.aborted THEN [Over(read, "abort") EXCEPT !.lock = FALSE]
    ELSE [read EXCEPT !.pc = "body", !.lock = TRUE, !.pending = TRUE]

\* throwReadError: an AbortError of the fetch or of the stream, which may be the
\* caller's own, is an abort although no signal says so.
ReadFails(r, abortError) ==
    LET outcome == IF call.aborted \/ abortError THEN "abort" ELSE "read_failed" IN
    /\ rd' = [rd EXCEPT ![r] = Over(@, outcome)]
    /\ call' = [Settled(r, outcome) EXCEPT !.asked = @ \/ (abortError /\ ~call.aborted)]
    /\ UNCHANGED <<opened, made>>

RequestFails(r, abortError) == ReadAt(r, "fetch") /\ ReadFails(r, abortError)

DeclaredOver(read, w) == \E n \in w.declared : n > read.limit
DeclaredDiffers(read, w) == \E n \in w.declared : read.expected \ {n} # {}

\* A fetch the caller provides may ignore the signal.
ResponseArrives(r, w) ==
    LET read == [rd[r] EXCEPT !.served = w, !.capacity = Min({FirstBuffer, rd[r].limit})] IN
    /\ ReadAt(r, "fetch")
    /\ Settle(r, CASE ~w.ok -> Over(read, "read_failed")
                   [] DeclaredOver(read, w) -> Over(read, "read_limit_exceeded")
                   [] DeclaredDiffers(read, w) -> Over(read, "integrity_failed")
                   [] OTHER -> NextChunk(read))

\* Mutation of Grown: the buffer doubles without regard to the limit.
GrownFreely(read, required) ==
    IF required <= read.capacity THEN read.capacity ELSE Max({required, 2 * read.capacity})

\* The buffer doubles, never beyond the limit.
Grown(read, required) ==
    IF required <= read.capacity THEN read.capacity
    ELSE Min({read.limit, Max({required, 2 * read.capacity})})

ChunkArrives(r, n) ==
    LET read == rd[r]
        required == read.size + n
    IN
    /\ ReadAt(r, "body") /\ ~call.aborted /\ required <= read.served.size
    /\ Settle(r, IF n > read.limit - read.size
                 THEN [Over(read, "read_limit_exceeded") EXCEPT !.lock = FALSE, !.pending = FALSE]
                 ELSE NextChunk([read EXCEPT !.size = required,
                                             !.capacity = Grown(read, required)]))

BodyEnds(r) ==
    LET read == [rd[r] EXCEPT !.lock = FALSE, !.pending = FALSE] IN
    /\ ReadAt(r, "body") /\ ~call.aborted /\ read.size = read.served.size
    /\ Settle(r, IF read.expected \ {read.size} # {} THEN Over(read, "integrity_failed")
                 ELSE [read EXCEPT !.pc = "digest"])

BodyFails(r, abortError) ==
    ReadAt(r, "body") /\ ~call.aborted /\ ReadFails(r, abortError)

\* The signal wins the race with a chunk that is outstanding; the stream stays
\* locked until that chunk settles.
BodyAborts(r) ==
    /\ ReadAt(r, "body") /\ call.aborted
    /\ Settle(r, Over(rd[r], "abort"))

\* Mutation of Freed: the lock is released while its chunk is outstanding.
FreedEarly(read) == [read EXCEPT !.lock = FALSE]

Freed(read) == [read EXCEPT !.lock = FALSE, !.pending = FALSE]

DeferredRelease(r) ==
    /\ rd[r].pc = "done" /\ rd[r].lock
    /\ rd' = [rd EXCEPT ![r] = Freed(rd[r])]
    /\ UNCHANGED <<opened, call, made>>

\* An asset has the digest its descriptor names, then the form its codec has.
BodyVerified(read) == read.size \in read.expected /\ read.served.intact

ValidNativeFile(read) == read.want.codec = "file" => "framing" \in read.served.forms

\* The envelope of a blob is canonical and repeats the facts of its descriptor.
DecodesBlob(read) == read.want.codec = "blob" => {"envelope", "facts"} \subseteq read.served.forms

AssetVerified(r) ==
    /\ ReadAt(r, "digest") /\ call.kind # "open"
    /\ Settle(r, CASE ~BodyVerified(rd[r]) -> Over(rd[r], "integrity_failed")
                   [] call.aborted -> Over(rd[r], "abort")
                   [] ~ValidNativeFile(rd[r]) -> Over(rd[r], "decode_failed")
                   [] ~DecodesBlob(rd[r]) -> Over(rd[r], "asset_invalid")
                   [] call.kind = "verify" -> Over(rd[r], "value")
                   [] OTHER -> [rd[r] EXCEPT !.pc = "load"])

LoaderEnds(r, outcome) ==
    /\ ReadAt(r, "load") /\ ~call.aborted
    /\ rd' = [rd EXCEPT ![r] = Over(@, outcome)]
    /\ call' = [Settled(r, outcome) EXCEPT !.asked = outcome = "abort"]
    /\ UNCHANGED <<opened, made>>

LoaderAborts(r) ==
    /\ ReadAt(r, "load") /\ call.aborted
    /\ Settle(r, Over(rd[r], "abort"))

\* The index: strict and canonical JSON, the schema, then every fingerprint.
IndexFault(read) ==
    CASE ~read.served.intact \/ "json" \notin read.served.forms -> "export_invalid"
      [] ~read.want.canonical -> "export_noncanonical"
      [] ~ParsesIndex(read.want) -> "export_invalid"
      [] call.aborted -> "abort"
      [] ~FingerprintsHold(read.want) -> "export_invalid"
      [] OTHER -> "none"

IndexDecoded(r) ==
    LET fault == IndexFault(rd[r]) IN
    /\ ReadAt(r, "digest") /\ call.kind = "open"
    /\ rd' = [rd EXCEPT ![r] = Over(@, IF fault = "none" THEN "value" ELSE fault)]
    /\ opened' = IF fault = "none" THEN rd[r].want ELSE opened
    /\ UNCHANGED <<call, made>>

-----------------------------------------------------------------------------
Others == {r \in DOMAIN rd : rd[r].outcome \notin {"value", "abort"}} \ {call.failure}

\* loadOutputs waits for all its reads, whatever the first of them did.
CallOutcome ==
    CASE call.failure # "none" -> IF Others = {} THEN rd[call.failure].outcome
                                   ELSE "aggregate"
      [] call.aborted -> "abort"
      [] OTHER -> "value"

OutputsSettle ==
    /\ InProgress /\ call.kind = "outputs"
    /\ \A r \in DOMAIN rd : rd[r].pc = "done"
    /\ call' = [call EXCEPT !.result = CallOutcome]
    /\ UNCHANGED <<opened, rd, made>>

\* openExport ends with its read; verify with its last asset, or the first
\* that fails.
OpenSettles ==
    /\ InProgress /\ call.kind = "open"
    /\ \E r \in DOMAIN rd : rd[r].pc = "done" /\ call' = [call EXCEPT !.result = rd[r].outcome]
    /\ UNCHANGED <<opened, rd, made>>

VerifySettles ==
    LET bad == {rd[r].outcome : r \in DOMAIN rd} \ {"value"} IN
    /\ InProgress /\ call.kind = "verify"
    /\ \A r \in DOMAIN rd : rd[r].pc = "done"
    /\ bad # {} \/ call.left = {} \/ call.aborted
    /\ call' = [call EXCEPT !.result = CASE bad # {} -> CHOOSE o \in bad : TRUE
                                         [] call.left # {} -> "abort"
                                         [] OTHER -> "value"]
    /\ UNCHANGED <<opened, rd, made>>

UserAborts ==
    /\ InProgress /\ ~call.asked
    /\ call' = [call EXCEPT !.aborted = TRUE, !.asked = TRUE]
    /\ UNCHANGED <<opened, rd, made>>

ExportNext ==
    \/ \E w \in WireIndexes : OpenExport(w)
    \/ /\ opened # NoIndex
       /\ \/ \E f \in DOMAIN opened.states, fits \in SUBSET opened.outputs :
                 LoadOutputs(f, opened.outputs, fits)
          \/ Verify
    \/ \E a \in call.left : VerifyNext(a)
    \/ \E r \in DOMAIN rd :
          \/ \E abortError \in BOOLEAN :
                 RequestFails(r, abortError) \/ BodyFails(r, abortError)
          \/ \E w \in Responses : ResponseArrives(r, w)
          \/ \E n \in 1..2 : ChunkArrives(r, n)
          \/ BodyEnds(r) \/ BodyAborts(r) \/ DeferredRelease(r)
          \/ AssetVerified(r) \/ IndexDecoded(r)
          \/ \E o \in {"value", "decode_failed", "abort"} : LoaderEnds(r, o)
          \/ LoaderAborts(r)
    \/ OutputsSettle \/ OpenSettles \/ VerifySettles \/ UserAborts

\* What an abort leaves to do: the runtime runs the tasks it made ready, and
\* fetch rejects.  Nothing makes a server answer or a loader return.
Unwinds ==
    \/ /\ call.aborted
       /\ \E r \in DOMAIN rd : \/ RequestFails(r, TRUE) \/ BodyAborts(r) \/ LoaderAborts(r)
                              \/ AssetVerified(r) \/ IndexDecoded(r)
    \/ OutputsSettle \/ OpenSettles \/ VerifySettles

ExportSpec == ExportInit /\ [][ExportNext]_exportVars /\ WF_exportVars(Unwinds)

-----------------------------------------------------------------------------
ReadErrors == {"abort", "read_failed", "read_limit_exceeded", "integrity_failed",
               "decode_failed", "asset_invalid", "loader_unavailable", "export_invalid",
               "export_noncanonical"}

ExportTypeOK ==
    /\ opened \in WireIndexes \cup {NoIndex}
    /\ made \in 0..MaxCalls
    /\ call.kind \in {"none", "open", "outputs", "verify"}
    /\ call.asked => call.aborted \/ call.kind # "outputs"
    /\ call.failure \in DOMAIN rd \cup {"none"}
    /\ call.result \in ReadErrors \cup {"none", "value", "aggregate", "output_unavailable"}
    /\ \A r \in DOMAIN rd :
           /\ rd[r].pc \in {"fetch", "body", "digest", "load", "done"}
           /\ rd[r].outcome \in ReadErrors \cup {"none", "value"}
           /\ rd[r].outcome = "none" <=> rd[r].pc # "done"
           /\ rd[r].pending => rd[r].lock
           /\ rd[r].size \in Nat /\ rd[r].capacity \in Nat

\* No byte beyond the caller's limit is ever held, whatever the server declares
\* or sends, and the buffer has room for what was read.
MemoryIsBounded ==
    \A r \in DOMAIN rd : rd[r].size <= rd[r].capacity /\ rd[r].capacity <= rd[r].limit

\* What a call returns is verified: every output that loaded has the bytes its
\* descriptor names, and all of them did or the call failed.
ValuesAreVerified ==
    call.result = "value" =>
        /\ \A r \in DOMAIN rd : rd[r].outcome = "value"
        /\ call.kind # "open" =>
               \A r \in DOMAIN rd : rd[r].want.codec # "scalar" => BodyVerified(rd[r])

\* An abort is reported only when the caller, its fetch or a loader asked for it:
\* that of the siblings of a failed read never hides the failure, or adds to it.
AbortIsAskedFor ==
    ~call.asked =>
        /\ call.result # "abort"
        /\ call.result = "aggregate" =>
               \E r, o \in DOMAIN rd : r # o /\ {rd[r].outcome, rd[o].outcome}
                                                  \cap {"value", "abort"} = {}

\* In an opened export the inputs of a state lead to that state and no other,
\* and the default and the aliases lead to one.
EveryStateResolves ==
    opened # NoIndex =>
        /\ \A f \in DOMAIN opened.states :
               StatesByInputs(opened, opened.states[f].inputs) = {f}
        /\ {opened.default} \cup Range(opened.aliases) \subseteq DOMAIN opened.states

\* A call that is aborted ends, though a server never answers, a body stalls or
\* a loader hangs.
AbortedCallsEnd == call.aborted ~> call.result # "none"

\* What an export returns is what was published: see its parts.
ExportReadsAreSound ==
    /\ MemoryIsBounded
    /\ ValuesAreVerified
    /\ AbortIsAskedFor
    /\ EveryStateResolves
=============================================================================
