--------------------------- MODULE ArtifactLeases ---------------------------
(***************************************************************************)
(* Artifact leases of one export repository.                               *)
(*                                                                         *)
(* A prepared state or export generation stays readable while a process    *)
(* has a handle to it: opening or committing it writes a lease row in the  *)
(* catalog, a heartbeat thread renews the row, and retention removes only  *)
(* artifacts without one.  Handles are counted in memory and released in   *)
(* the background, by deleting the row if it still has the expiry that the *)
(* released handles last confirmed.                                        *)
(*                                                                         *)
(* Time is relative and discrete.  Every call of expiry() reads a later    *)
(* clock than the calls before, and only the order of the readings still   *)
(* in use matters, so a reading is one more than the latest of those; 0 is *)
(* expired.  Expire lets the clock pass the next of them.  An expired row  *)
(* counts as none: transactions that look at leases delete or ignore it.   *)
(***************************************************************************)
EXTENDS Integers, FiniteSets

CONSTANTS
    Owners,              \* lease managers, one per opened repository
    Artifacts,           \* (kind, key, instance) of states and generations
    None,
    MaxAhead,            \* bound: expiry readings in use at once
    MaxHandles,          \* bound: handles of one kind to one artifact
    MaxClosed,           \* bound: managers that close
    MaxCrashed,          \* bound: managers that crash
    MaxGone,             \* bound: managers that close, crash or fail
    ReleaseWhileOpening, \* whether a handle may be released, by another thread
                         \* or the garbage collector, while its artifact opens
    CatalogBusy          \* whether a heartbeat may find the catalog busy

ASSUME ArtifactBoundAssumption ==
    /\ MaxAhead \in Nat
    /\ MaxHandles \in Nat \ {0}
    /\ MaxClosed \in Nat
    /\ MaxCrashed \in Nat
    /\ MaxGone \in Nat
    /\ ReleaseWhileOpening \in BOOLEAN
    /\ CatalogBusy \in BOOLEAN

ASSUME ArtifactNoneAssumption == None \notin Owners /\ None \notin Artifacts

VARIABLES
    indexed,    \* artifacts with a row in prepared_states or generations
    trees,      \* artifacts whose directory is in its place
    lease,      \* artifact_leases: expires_at_us of each owner and artifact
    status,     \* of each lease manager
    failed,     \* LeaseManager._failure is set
    handles,    \* the live counts of LeaseManager
    confirmed,  \* LeaseManager._confirmed_artifact_expires_at_us
    pending,    \* LeaseManager._pending_artifact_releases
    beat,       \* the heartbeat thread inside _maintain
    op,         \* what the holder of the maintenance lock is doing
    abandoned   \* history: lease rows of openings and commits that failed

vars == <<indexed, trees, lease, status, failed, handles, confirmed, pending, beat, op, abandoned>>
stored == <<indexed, trees>>
manager == <<status, failed, handles, confirmed, pending>>

\* base and retained handles end with their manager, detached ones outlive it.
Kinds == {"attached", "detached"}
NoRelease == -1

Stamps == 0..MaxAhead
NoHandles == [k \in Kinds |-> 0]
NoReleases == [a \in Artifacts |-> NoRelease]
NoBeat == [pc |-> "idle", releases |-> NoReleases, live |-> {}, stamp |-> 0,
           lost |-> {}, closed |-> FALSE]
NoOp == [pc |-> "none", kind |-> "prune", owner |-> None, artifact |-> None,
         stamp |-> 0, victims |-> {}, moved |-> {}, fresh |-> FALSE]

OpPcs == {"none", "lookup", "flush", "decide", "install", "publish", "handle"}
OpSet == [pc : OpPcs, kind : {"open", "commit", "prune"}, owner : Owners \cup {None},
          artifact : Artifacts \cup {None}, stamp : Stamps, victims : SUBSET Artifacts,
          moved : SUBSET Artifacts, fresh : BOOLEAN]
BeatSet == [pc : {"idle", "release", "start", "update", "confirm", "dead"},
            releases : [Artifacts -> Stamps \cup {NoRelease}], live : SUBSET Artifacts,
            stamp : Stamps, lost : SUBSET Artifacts, closed : BOOLEAN]

TypeOK ==
    /\ indexed \in SUBSET Artifacts
    /\ trees \in SUBSET Artifacts
    /\ lease \in [Owners -> [Artifacts -> Stamps]]
    /\ status \in [Owners -> {"open", "closed", "stopped", "crashed"}]
    /\ failed \in [Owners -> BOOLEAN]
    /\ handles \in [Owners -> [Artifacts -> [Kinds -> 0..MaxHandles]]]
    /\ confirmed \in [Owners -> [Artifacts -> Stamps]]
    /\ pending \in [Owners -> [Artifacts -> Stamps \cup {NoRelease}]]
    /\ beat \in [Owners -> BeatSet]
    /\ op \in OpSet
    /\ abandoned \in SUBSET (Owners \X Artifacts)

Init ==
    /\ indexed = {}
    /\ trees = {}
    /\ lease = [o \in Owners |-> [a \in Artifacts |-> 0]]
    /\ status = [o \in Owners |-> "open"]
    /\ failed = [o \in Owners |-> FALSE]
    /\ handles = [o \in Owners |-> [a \in Artifacts |-> NoHandles]]
    /\ confirmed = [o \in Owners |-> [a \in Artifacts |-> 0]]
    /\ pending = [o \in Owners |-> NoReleases]
    /\ beat = [o \in Owners |-> NoBeat]
    /\ op = NoOp
    /\ abandoned = {}

-----------------------------------------------------------------------------
(* Shared definitions *)

Later(a, b) == IF a > b THEN a ELSE b

Live(o, a) == \E k \in Kinds : handles[o][a][k] > 0
LiveArtifacts(o) == {a \in Artifacts : Live(o, a)}
Detached(o) == {a \in Artifacts : handles[o][a]["detached"] > 0}
Leased == {a \in Artifacts : \E o \in Owners : lease[o][a] > 0}

\* The manager fails, or has failed, as soon as it looks at its deadlines.
Poisoned(o) == failed[o] \/ \E a \in LiveArtifacts(o) : confirmed[o][a] = 0

Running(o) == status[o] \in {"open", "closed"}

Idle == op.pc = "none"
At(o, a, pc) == op.owner = o /\ op.artifact = a /\ op.pc = pc

Outstanding ==
    UNION {{lease[o][a], confirmed[o][a], pending[o][a], beat[o].releases[a], beat[o].stamp} :
               o \in Owners, a \in Artifacts} \cup {op.stamp, 0}

\* LeaseManager.expiry: a reading later than every one in use.
ReadExpiry(stamp) ==
    /\ stamp - 1 \in Outstanding
    /\ \A other \in Outstanding : other < stamp

\* LeaseManager.release and close: the row goes to the heartbeat, with the
\* expiry that was last confirmed.
Due(o, gone) ==
    [a \in Artifacts |-> IF a \in gone THEN confirmed[o][a] ELSE pending[o][a]]
Forgotten(o, gone) ==
    [a \in Artifacts |-> IF a \in gone THEN 0 ELSE confirmed[o][a]]

Closed == {o \in Owners : status[o] \in {"closed", "stopped"}}
Crashed == {o \in Owners : status[o] = "crashed"}

\* The bound MaxGone; a manager that finds its leases lost fails in any case.
MayGo == Cardinality(Closed \cup Crashed \cup {o \in Owners : failed[o]}) < MaxGone

Opening(o, a) == op.owner = o /\ op.artifact = a

\* The bound MaxHandles, with room for the handle that an opening will add.
MayHold(o, a, k) ==
    handles[o][a][k] + (IF Opening(o, a) /\ k = "attached" THEN 1 ELSE 0) < MaxHandles

Goto(pc) == op' = [op EXCEPT !.pc = pc]
EndOp == op' = NoOp

-----------------------------------------------------------------------------
(* ArtifactRepository.current and lookup_prepared_states *)

BeginOpen(o, a) ==
    /\ Idle
    /\ status[o] = "open"
    /\ ~Poisoned(o)
    /\ MayHold(o, a, "attached")
    /\ \E stamp \in Stamps :
           /\ ReadExpiry(stamp)
           /\ op' = [NoOp EXCEPT !.pc = "lookup", !.kind = "open", !.owner = o,
                                 !.artifact = a, !.stamp = stamp]
    /\ UNCHANGED <<stored, lease, manager, beat, abandoned>>

\* INSERT ... ON CONFLICT DO UPDATE SET expires_at_us = MAX(...)
AcquireRow(o, a) == lease' = [lease EXCEPT ![o][a] = Later(@, op.stamp)]

OpenLookup(o, a) ==
    /\ At(o, a, "lookup")
    /\ a \in indexed
    /\ AcquireRow(o, a)
    /\ Goto("handle")
    /\ UNCHANGED <<stored, manager, beat, abandoned>>

OpenMissing(o, a) ==
    /\ At(o, a, "lookup")
    /\ a \notin indexed
    /\ EndOp
    /\ UNCHANGED <<stored, lease, manager, beat, abandoned>>

\* The row that an opening or commit acquired stays until it expires.
Abandon(o, a) == abandoned' = IF lease[o][a] > 0 THEN abandoned \cup {<<o, a>>} ELSE abandoned

\* Recovery puts trees left in quarantine back and removes unindexed ones.
Recovered == trees' = indexed

OpenCorrupt(o, a) ==
    /\ At(o, a, "handle")
    /\ a \notin trees
    /\ Recovered
    /\ EndOp
    /\ Abandon(o, a)
    /\ UNCHANGED <<indexed, lease, manager, beat>>

Recover(o) ==
    /\ Idle
    /\ status[o] = "open"
    /\ Recovered
    /\ UNCHANGED <<indexed, lease, manager, beat, op, abandoned>>

Acquirable(o) == status[o] = "open" /\ ~Poisoned(o) /\ op.stamp > 0

\* Mutation of AcquireHandle: the new expiry is added to the confirmed one.
AcquireHandleAdds(o, a) ==
    /\ At(o, a, "handle")
    /\ a \in trees
    /\ Acquirable(o)
    /\ handles' = [handles EXCEPT ![o][a]["attached"] = @ + 1]
    /\ confirmed' = [confirmed EXCEPT ![o][a] = op.stamp + @]
    /\ pending' = [pending EXCEPT ![o][a] = NoRelease]
    /\ EndOp
    /\ abandoned' = abandoned \ {<<o, a>>}
    /\ UNCHANGED <<stored, lease, status, failed, beat>>

\* Mutation of AcquireHandle: the release that waits is not cancelled.
AcquireHandleKeepsRelease(o, a) ==
    /\ At(o, a, "handle")
    /\ a \in trees
    /\ Acquirable(o)
    /\ handles' = [handles EXCEPT ![o][a]["attached"] = @ + 1]
    /\ confirmed' = [confirmed EXCEPT ![o][a] = Later(op.stamp, @)]
    /\ EndOp
    /\ abandoned' = abandoned \ {<<o, a>>}
    /\ UNCHANGED <<stored, lease, status, failed, pending, beat>>

\* The tree is verified, then LeaseManager.acquire counts the handle.
AcquireHandle(o, a) ==
    /\ At(o, a, "handle")
    /\ a \in trees
    /\ Acquirable(o)
    /\ handles' = [handles EXCEPT ![o][a]["attached"] = @ + 1]
    /\ confirmed' = [confirmed EXCEPT ![o][a] = Later(op.stamp, @)]
    /\ pending' = [pending EXCEPT ![o][a] = NoRelease]
    /\ EndOp
    /\ abandoned' = abandoned \ {<<o, a>>}
    /\ UNCHANGED <<stored, lease, status, failed, beat>>

AcquireRefused(o, a) ==
    /\ At(o, a, "handle")
    /\ a \in trees
    /\ ~Acquirable(o)
    /\ EndOp
    /\ Abandon(o, a)
    /\ UNCHANGED <<stored, lease, manager, beat>>

-----------------------------------------------------------------------------
(* prune, and the admission of commit_prepared_state and commit_export *)

BeginPrune(o) ==
    /\ Idle
    /\ status[o] = "open"
    /\ op' = [NoOp EXCEPT !.pc = "flush", !.kind = "prune", !.owner = o]
    /\ UNCHANGED <<stored, lease, manager, beat, abandoned>>

BeginCommit(o, a) ==
    /\ Idle
    /\ status[o] = "open"
    /\ MayHold(o, a, "attached")
    /\ op' = [NoOp EXCEPT !.pc = "flush", !.kind = "commit", !.owner = o, !.artifact = a]
    /\ UNCHANGED <<stored, lease, manager, beat, abandoned>>

Flushed(o) == pending[o] = NoReleases /\ beat[o].pc \in {"idle", "dead"}

\* Mutation of Evictable: leases are not looked at.
EvictableIgnoringLeases == indexed \ {op.artifact}

\* Which unleased artifacts retention gives up is left open here.
Evictable == indexed \ (Leased \cup {op.artifact})

\* flush_releases has returned; the victims of the snapshot are moved away.
QuarantineVictims(o) ==
    /\ op.owner = o
    /\ op.pc = "flush"
    /\ Flushed(o)
    /\ ~Poisoned(o)
    /\ \E victims \in SUBSET Evictable :
           /\ trees' = trees \ victims
           /\ op' = [op EXCEPT !.pc = "decide", !.victims = victims,
                               !.moved = victims \cap trees]
    /\ UNCHANGED <<indexed, lease, manager, beat, abandoned>>

\* flush_releases raises the failure of the heartbeat.
FlushRefused(o) ==
    /\ op.owner = o
    /\ op.pc = "flush"
    /\ Poisoned(o)
    /\ failed' = [failed EXCEPT ![o] = TRUE]
    /\ EndOp
    /\ UNCHANGED <<stored, lease, status, handles, confirmed, pending, beat, abandoned>>

\* The catalog rechecks the victims; what it did not remove is put back.
CommitPrune(o) ==
    /\ op.owner = o
    /\ op.pc = "decide"
    /\ \E matched \in SUBSET (op.victims \cap Evictable) :
           /\ indexed' = indexed \ matched
           /\ trees' = trees \cup (op.moved \ matched)
    /\ op' = IF op.kind = "prune" THEN NoOp
             ELSE [op EXCEPT !.pc = "install", !.victims = {}, !.moved = {}]
    /\ UNCHANGED <<lease, manager, beat, abandoned>>

PruneFails(o) ==
    /\ op.owner = o
    /\ op.pc = "decide"
    /\ trees' = trees \cup op.moved
    /\ EndOp
    /\ UNCHANGED <<indexed, lease, manager, beat, abandoned>>

-----------------------------------------------------------------------------
(* The rest of commit_prepared_state and commit_export *)

\* expiry() is read, then atomic_install puts the tree in its place.
Install(o, a) ==
    /\ At(o, a, "install")
    /\ ~Poisoned(o)
    /\ \E stamp \in Stamps :
           /\ ReadExpiry(stamp)
           /\ op' = [op EXCEPT !.pc = "publish", !.stamp = stamp, !.fresh = a \notin trees]
    /\ trees' = trees \cup {a}
    /\ UNCHANGED <<indexed, lease, manager, beat, abandoned>>

Publish(o, a) ==
    /\ At(o, a, "publish")
    /\ indexed' = indexed \cup {a}
    /\ AcquireRow(o, a)
    /\ Goto("handle")
    /\ UNCHANGED <<trees, manager, beat, abandoned>>

\* A tree that was not there before is retired again.
PublishFails(o, a) ==
    /\ At(o, a, "publish")
    /\ trees' = IF op.fresh THEN trees \ {a} ELSE trees
    /\ EndOp
    /\ UNCHANGED <<indexed, lease, manager, beat, abandoned>>

\* A failure before anything was changed: a busy catalog, a limit, a stale
\* fence, a flush that takes longer than 10 s.
OpFails(o) ==
    /\ op.owner = o
    /\ op.pc \in {"lookup", "flush", "install"}
    /\ EndOp
    /\ UNCHANGED <<stored, lease, manager, beat, abandoned>>

-----------------------------------------------------------------------------
(* Handles *)

\* ArtifactLease.retain and detach
Retain(o, a, k) ==
    /\ status[o] = "open"
    /\ ~Poisoned(o)
    /\ Live(o, a)
    /\ MayHold(o, a, k)
    /\ handles' = [handles EXCEPT ![o][a][k] = @ + 1]
    /\ pending' = [pending EXCEPT ![o][a] = NoRelease]
    /\ UNCHANGED <<stored, lease, status, failed, confirmed, beat, op, abandoned>>

\* ArtifactLease.close or its finalizer
Release(o, a, k) ==
    LET last == \A j \in Kinds : handles[o][a][j] = IF j = k THEN 1 ELSE 0
        gone == IF last THEN {a} ELSE {}
    IN
    /\ Running(o)
    /\ handles[o][a][k] > 0
    /\ ReleaseWhileOpening \/ ~Opening(o, a)
    /\ handles' = [handles EXCEPT ![o][a][k] = @ - 1]
    /\ pending' = [pending EXCEPT ![o] = Due(o, gone)]
    /\ confirmed' = [confirmed EXCEPT ![o] = Forgotten(o, gone)]
    /\ UNCHANGED <<stored, lease, status, failed, beat, op, abandoned>>

\* A call on a handle notices that a confirmed deadline has passed.
NoticeExpiry(o) ==
    /\ Running(o)
    /\ Poisoned(o)
    /\ ~failed[o] /\ MayGo
    /\ failed' = [failed EXCEPT ![o] = TRUE]
    /\ UNCHANGED <<stored, lease, status, handles, confirmed, pending, beat, op, abandoned>>

\* Closing ends attached handles; detached ones keep the heartbeat going.
CloseManager(o) ==
    LET gone == LiveArtifacts(o) \ Detached(o) IN
    /\ status[o] = "open"
    /\ Cardinality(Closed) < MaxClosed
    /\ MayGo
    /\ status' = [status EXCEPT ![o] = "closed"]
    /\ handles' = [handles EXCEPT ![o] = [a \in Artifacts |->
                                              [handles[o][a] EXCEPT !["attached"] = 0]]]
    /\ pending' = [pending EXCEPT ![o] = Due(o, gone)]
    /\ confirmed' = [confirmed EXCEPT ![o] = Forgotten(o, gone)]
    /\ UNCHANGED <<stored, lease, failed, beat, op, abandoned>>

-----------------------------------------------------------------------------
(* LeaseManager._maintain in the heartbeat thread *)

\* Only artifacts without a handle are taken from the pending releases.
BeatSnapshot(o) ==
    /\ Running(o)
    /\ beat[o].pc = "idle"
    /\ \/ status[o] = "closed"
       \/ LiveArtifacts(o) # {}
       \/ pending[o] # NoReleases
    /\ beat' = [beat EXCEPT ![o] = [NoBeat EXCEPT
           !.pc = "release",
           !.releases = [a \in Artifacts |-> IF Live(o, a) THEN NoRelease ELSE pending[o][a]],
           !.live = LiveArtifacts(o),
           !.closed = status[o] = "closed"]]
    /\ pending' = [pending EXCEPT ![o] =
           [a \in Artifacts |-> IF Live(o, a) THEN pending[o][a] ELSE NoRelease]]
    /\ UNCHANGED <<stored, lease, status, failed, handles, confirmed, op, abandoned>>

\* Mutation of DeletedRow: the expiry of the row is not compared.
DeletedRowAnyExpiry(o, a) == IF beat[o].releases[a] # NoRelease THEN 0 ELSE lease[o][a]

\* DELETE ... AND expires_at_us = ?
DeletedRow(o, a) == IF lease[o][a] = beat[o].releases[a] THEN 0 ELSE lease[o][a]

BeatRelease(o) ==
    /\ beat[o].pc = "release"
    /\ lease' = [lease EXCEPT ![o] = [a \in Artifacts |-> DeletedRow(o, a)]]
    /\ beat' = [beat EXCEPT ![o].pc = "start"]
    /\ UNCHANGED <<stored, manager, op, abandoned>>

BeatStart(o) ==
    /\ beat[o].pc = "start"
    /\ beat[o].live \cap LiveArtifacts(o) # {}
    /\ ~Poisoned(o)
    /\ \E stamp \in Stamps :
           /\ ReadExpiry(stamp)
           /\ beat' = [beat EXCEPT ![o] = [@ EXCEPT !.pc = "update", !.stamp = stamp,
                            !.live = beat[o].live \cap LiveArtifacts(o)]]
    /\ UNCHANGED <<stored, lease, manager, op, abandoned>>

\* UPDATE ... SET expires_at_us = MAX(...) WHERE ... AND expires_at_us > ?
BeatUpdate(o) ==
    /\ beat[o].pc = "update"
    /\ lease' = [lease EXCEPT ![o] = [a \in Artifacts |->
           IF a \in beat[o].live /\ lease[o][a] > 0
           THEN Later(lease[o][a], beat[o].stamp) ELSE lease[o][a]]]
    /\ beat' = [beat EXCEPT ![o] = [@ EXCEPT !.pc = "confirm", !.releases = NoReleases,
                            !.lost = {a \in beat[o].live : lease[o][a] = 0}]]
    /\ UNCHANGED <<stored, manager, op, abandoned>>

\* The end of _maintain: a closed manager with nothing left to do stops.
EndBeat(o, left) ==
    /\ beat' = [beat EXCEPT ![o] = NoBeat]
    /\ status' = IF beat[o].closed /\ Detached(o) = {} /\ left = NoReleases
                 THEN [status EXCEPT ![o] = "stopped"] ELSE status

BeatNothing(o) ==
    /\ beat[o].pc = "start"
    /\ beat[o].live \cap LiveArtifacts(o) = {}
    /\ beat[o].live = {} \/ ~Poisoned(o)
    /\ EndBeat(o, pending[o])
    /\ UNCHANGED <<stored, lease, failed, handles, confirmed, pending, op, abandoned>>

\* Mutation of RenewedReleases: a release during the renewal keeps its expiry.
RenewedReleasesUnchanged(o) == pending[o]

\* An artifact released while its row was renewed is deleted at its new expiry.
RenewedReleases(o) ==
    [a \in Artifacts |->
        IF a \in beat[o].live \ beat[o].lost /\ ~Live(o, a) /\ pending[o][a] # NoRelease
        THEN Later(beat[o].stamp, pending[o][a]) ELSE pending[o][a]]

BeatConfirm(o) ==
    /\ beat[o].pc = "confirm"
    /\ pending' = [pending EXCEPT ![o] = RenewedReleases(o)]
    /\ confirmed' = [confirmed EXCEPT ![o] = [a \in Artifacts |->
           IF ~Poisoned(o) /\ Live(o, a) /\ a \in beat[o].live \ beat[o].lost
           THEN Later(beat[o].stamp, confirmed[o][a]) ELSE confirmed[o][a]]]
    /\ failed' = [failed EXCEPT ![o] = Poisoned(o) \/ beat[o].lost # {}]
    /\ EndBeat(o, RenewedReleases(o))
    /\ UNCHANGED <<stored, lease, handles, op, abandoned>>

\* What a failed round had taken goes back to the pending releases, whatever
\* has happened to them in the meantime.
Restored(o) ==
    [a \in Artifacts |-> IF beat[o].releases[a] # NoRelease
                         THEN beat[o].releases[a] ELSE pending[o][a]]

\* A closed manager without detached handles does not try again.
GivesUp(o) == beat[o].closed /\ Detached(o) = {}

\* The round is about to run one of its transactions.
InTransaction(o) ==
    \/ beat[o].pc = "release" /\ beat[o].releases # NoReleases
    \/ beat[o].pc = "update"

BeatBusy(o) ==
    /\ CatalogBusy
    /\ InTransaction(o)
    /\ pending' = [pending EXCEPT ![o] = IF GivesUp(o) THEN NoReleases ELSE Restored(o)]
    /\ status' = IF GivesUp(o) THEN [status EXCEPT ![o] = "stopped"] ELSE status
    /\ beat' = [beat EXCEPT ![o] = NoBeat]
    /\ UNCHANGED <<stored, lease, failed, handles, confirmed, op, abandoned>>

\* Another error, or a manager that has failed, ends the heartbeat thread.
BeatFail(o) ==
    /\ \/ InTransaction(o) /\ MayGo
       \/ beat[o].pc = "start" /\ beat[o].live # {} /\ Poisoned(o)
    /\ pending' = [pending EXCEPT ![o] = IF GivesUp(o) THEN NoReleases ELSE Restored(o)]
    /\ status' = IF GivesUp(o) THEN [status EXCEPT ![o] = "stopped"] ELSE status
    /\ failed' = [failed EXCEPT ![o] = ~GivesUp(o) \/ Poisoned(o)]
    /\ beat' = [beat EXCEPT ![o] = [NoBeat EXCEPT !.pc = "dead"]]
    /\ UNCHANGED <<stored, lease, handles, confirmed, op, abandoned>>

-----------------------------------------------------------------------------
(* Crashes and time *)

\* The catalog and the trees stay; the maintenance lock is released.
Crash(o) ==
    /\ Running(o)
    /\ Cardinality(Crashed) < MaxCrashed
    /\ MayGo
    /\ status' = [status EXCEPT ![o] = "crashed"]
    /\ handles' = [handles EXCEPT ![o] = [a \in Artifacts |-> NoHandles]]
    /\ confirmed' = [confirmed EXCEPT ![o] = [a \in Artifacts |-> 0]]
    /\ pending' = [pending EXCEPT ![o] = NoReleases]
    /\ beat' = [beat EXCEPT ![o] = NoBeat]
    /\ failed' = [failed EXCEPT ![o] = FALSE]
    /\ op' = IF op.owner = o THEN NoOp ELSE op
    /\ abandoned' = abandoned \ ({o} \X Artifacts)
    /\ UNCHANGED <<stored, lease>>

Less(stamp) == IF stamp > 0 THEN stamp - 1 ELSE stamp

Expire ==
    /\ \E stamp \in Outstanding : stamp > 0
    /\ lease' = [o \in Owners |-> [a \in Artifacts |-> Less(lease[o][a])]]
    /\ confirmed' = [o \in Owners |-> [a \in Artifacts |-> Less(confirmed[o][a])]]
    /\ pending' = [o \in Owners |-> [a \in Artifacts |-> Less(pending[o][a])]]
    /\ beat' = [o \in Owners |-> [beat[o] EXCEPT
           !.stamp = Less(@),
           !.releases = [a \in Artifacts |-> Less(beat[o].releases[a])]]]
    /\ op' = [op EXCEPT !.stamp = Less(@)]
    /\ abandoned' = {row \in abandoned : lease[row[1]][row[2]] > 1}
    /\ UNCHANGED <<stored, status, failed, handles>>

-----------------------------------------------------------------------------
(* Specification *)

Open(o) ==
    \/ Recover(o)
    \/ \E a \in Artifacts :
           \/ BeginOpen(o, a) \/ OpenLookup(o, a) \/ OpenMissing(o, a) \/ OpenCorrupt(o, a)
           \/ AcquireHandle(o, a) \/ AcquireRefused(o, a)

PruneOrCommit(o) ==
    \/ BeginPrune(o) \/ QuarantineVictims(o) \/ FlushRefused(o) \/ CommitPrune(o)
    \/ PruneFails(o) \/ OpFails(o)
    \/ \E a \in Artifacts :
           BeginCommit(o, a) \/ Install(o, a) \/ Publish(o, a) \/ PublishFails(o, a)

Handle(o) ==
    \/ \E a \in Artifacts, k \in Kinds : Retain(o, a, k) \/ Release(o, a, k)
    \/ NoticeExpiry(o)

Heartbeat(o) ==
    \/ BeatSnapshot(o) \/ BeatRelease(o) \/ BeatStart(o) \/ BeatUpdate(o) \/ BeatNothing(o)
    \/ BeatConfirm(o) \/ BeatBusy(o) \/ BeatFail(o)

Next ==
    \/ \E o \in Owners : Open(o) \/ PruneOrCommit(o) \/ Handle(o) \/ Heartbeat(o)
                         \/ CloseManager(o) \/ Crash(o)
    \/ Expire

Spec == Init /\ [][Next]_vars

\* The heartbeat thread runs, its transactions get the catalog when they keep
\* trying, the clock advances, and a flush that waits is woken between rounds.
Fairness ==
    /\ WF_vars(Expire)
    /\ \A o \in Owners :
           /\ WF_vars(BeatSnapshot(o))
           /\ SF_vars(BeatRelease(o))
           /\ WF_vars(BeatStart(o))
           /\ SF_vars(BeatUpdate(o))
           /\ WF_vars(BeatNothing(o))
           /\ WF_vars(BeatConfirm(o))
           /\ SF_vars(QuarantineVictims(o))
           /\ WF_vars(FlushRefused(o))

FairSpec == Spec /\ Fairness

-----------------------------------------------------------------------------
(* Properties *)

\* "Retention treats active leases as pinned" (repository.md:279): as long as a
\* manager has not failed, the artifact of each of its handles has a durable
\* lease at least as long as the one confirmed, a catalog row and its tree.
HandlesArePinned ==
    \A o \in Owners, a \in Artifacts :
        Live(o, a) /\ ~Poisoned(o) =>
            /\ confirmed[o][a] > 0
            /\ lease[o][a] >= confirmed[o][a]
            /\ a \in indexed \cap trees

\* Once the releases of an open manager are flushed, its only lease rows are
\* those of its handles and of openings that failed (test_release_during_heartbeat_renewal_removes_renewed_lease).
FlushedReleasesLeaveNoLease ==
    \A o \in Owners, a \in Artifacts :
        lease[o][a] > 0 /\ status[o] = "open" /\ ~Poisoned(o) /\ Flushed(o)
            => Live(o, a) \/ Opening(o, a) \/ <<o, a>> \in abandoned

\* A prune or an admission gets past flush_releases, even without its timeout:
\* what it waits for is only the deletion of rows.
FlushEnds == op.pc = "flush" ~> op.pc # "flush"

\* The handles of managers that have not failed, as pins.
Pins == {pin \in Owners \X Artifacts : Live(pin[1], pin[2]) /\ ~Poisoned(pin[1])}

Pinned == INSTANCE PinnedArtifacts WITH available <- indexed \cap trees, pins <- Pins

\* Leases with their heartbeat, expiry, crashes and background releases keep
\* every artifact that a working handle reads (artifact_lifecycle.py prune).
ImplementsPinnedArtifacts == Pinned!Spec
=============================================================================
