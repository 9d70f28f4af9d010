-------------------------- MODULE ReservationFence --------------------------
(***************************************************************************)
(* Preparation reservations of one export repository.                      *)
(*                                                                         *)
(* Every opened repository owns a LeaseManager with its own owner token    *)
(* and heartbeat thread.  A preparation of an identity claims a row of the *)
(* preparation_reservations table, looks the current generation up, and    *)
(* commits a generation under the cross-process maintenance lock; the      *)
(* final transaction rechecks owner, fence and pointer.                    *)
(*                                                                         *)
(* Time is relative.  A deadline is kept as the time LEFT until it (the    *)
(* value in the code minus the clock), and a transaction whose now_us was  *)
(* read before it got the catalog lock keeps the AGE of that reading.      *)
(* Tick lets one unit pass, so the model has no horizon.                   *)
(***************************************************************************)
EXTENDS Integers, FiniteSets

CONSTANTS
    Owners,        \* lease managers, one per opened repository (uuid owner)
    Identities,    \* RepositoryIdentity keys
    Instances,     \* generation instances a preparation can produce
    None,          \* the NULL of the catalog
    TTL,           \* lease_ttl_seconds, in ticks
    MaxWait,       \* bound: how old a now_us can be when its transaction runs
    MaxFence,      \* bound: fences the counter gives out
    MaxGone,       \* bound: lease managers that close, fail or crash
    FlushCanStop   \* whether flush_releases may end before the release did

ASSUME TimeAssumption ==
    /\ TTL \in Nat \ {0}
    /\ MaxWait \in Nat
    /\ MaxWait >= TTL

ASSUME BoundAssumption ==
    /\ MaxFence \in Nat
    /\ MaxGone \in Nat
    /\ FlushCanStop \in BOOLEAN

ASSUME NoneAssumption ==
    /\ None \notin Owners
    /\ None \notin Instances
    /\ None \notin Owners \X Identities

VARIABLES
    rows,      \* preparation_reservations: one row per identity, or NoRow
    counter,   \* repository_counters.preparation_fence
    granted,   \* history: the fence last given out for each identity
    committed, \* history: the fence under which its pointer was last set
    current,   \* identities.current_instance
    lock,      \* worker that holds the maintenance lock, or None
    status,    \* of each lease manager
    held,      \* LeaseManager._reservations with the confirmed deadlines
    pending,   \* LeaseManager._pending_reservation_releases
    beat,      \* the heartbeat thread inside _maintain
    prep       \* the preparation of each owner and identity

vars == <<rows, counter, granted, committed, current, lock, status, held, pending, beat, prep>>
catalog == <<rows, counter, granted, committed, current>>

Fences == 0..MaxFence

NoRow == [owner |-> None, fence |-> 0, left |-> 0]
NoHold == [fence |-> 0, left |-> 0]
NoBeat == [pc |-> "idle", releases |-> {}, renew |-> [i \in Identities |-> 0],
           lost |-> {}, age |-> 0, closed |-> FALSE]
NoPrep == [pc |-> "idle", fence |-> 0, observed |-> None, candidate |-> None, age |-> 0]

Statuses == {"open", "closed", "stopped", "failed", "crashed"}
BeatPcs == {"idle", "release", "renew", "update", "confirm"}
LockedPcs == {"admit", "check", "guard", "commit"}
WorkingPcs == {"reserved", "planned", "waiting"} \cup LockedPcs
\* Points at which a transaction waits with a clock reading already taken.
StampedPcs == {"claim", "check", "commit"}
PrepPcs == {"idle", "claim", "record", "closing", "flush"} \cup WorkingPcs

RowSet == [owner : Owners \cup {None}, fence : Fences, left : -MaxWait..TTL]
HoldSet == [fence : Fences, left : 0..TTL]
BeatSet == [pc : BeatPcs, releases : SUBSET Identities, renew : [Identities -> Fences],
            lost : SUBSET Identities, age : 0..MaxWait, closed : BOOLEAN]
PrepSet == [pc : PrepPcs, fence : Fences, observed : Instances \cup {None},
            candidate : Instances \cup {None}, age : 0..MaxWait]

TypeOK ==
    /\ rows \in [Identities -> RowSet]
    /\ counter \in Fences
    /\ granted \in [Identities -> Fences]
    /\ committed \in [Identities -> Fences]
    /\ current \in [Identities -> Instances \cup {None}]
    /\ lock \in (Owners \X Identities) \cup {None}
    /\ status \in [Owners -> Statuses]
    /\ held \in [Owners -> [Identities -> HoldSet]]
    /\ pending \in [Owners -> SUBSET Identities]
    /\ beat \in [Owners -> BeatSet]
    /\ prep \in [Owners -> [Identities -> PrepSet]]

Init ==
    /\ rows = [i \in Identities |-> NoRow]
    /\ counter = 0
    /\ granted = [i \in Identities |-> 0]
    /\ committed = [i \in Identities |-> 0]
    /\ current = [i \in Identities |-> None]
    /\ lock = None
    /\ status = [o \in Owners |-> "open"]
    /\ held = [o \in Owners |-> [i \in Identities |-> NoHold]]
    /\ pending = [o \in Owners |-> {}]
    /\ beat = [o \in Owners |-> NoBeat]
    /\ prep = [o \in Owners |-> [i \in Identities |-> NoPrep]]

-----------------------------------------------------------------------------
(* Shared definitions *)

Later(a, b) == IF a > b THEN a ELSE b

\* The reservations of o that are left once the expired ones are dropped.
Unexpired(o) == [i \in Identities |-> IF held[o][i].left > 0 THEN held[o][i] ELSE NoHold]

\* LeaseManager.reservation_alive for the reservation object of a preparation.
ReservationAlive(o, i) ==
    /\ status[o] = "open"
    /\ held[o][i].fence # 0
    /\ held[o][i].fence = prep[o][i].fence
    /\ held[o][i].left > 0

\* Mutation of WithoutExpired: expired rows are never deleted.
WithoutExpiredKeepsAll(age) == [i \in Identities |-> IF age < 0 THEN NoRow ELSE rows[i]]

\* The table after a DELETE of the rows expired at a clock reading of that age.
WithoutExpired(age) ==
    [i \in Identities |-> IF rows[i].left + age <= 0 THEN NoRow ELSE rows[i]]

\* Mutation of RequireReservation: only the expiry is checked.
RequireReservationAnyOwner(o, i) == rows[i].left + prep[o][i].age > 0

RequireReservation(o, i) ==
    /\ rows[i].owner = o
    /\ rows[i].fence = prep[o][i].fence
    /\ rows[i].left + prep[o][i].age > 0

RequireReplacement(o, i) ==
    IF prep[o][i].observed = None
    THEN current[i] \in {None, prep[o][i].candidate}
    ELSE current[i] = prep[o][i].observed

\* The bound MaxGone: o has left already, or one more manager may leave.
MayLeave(o) ==
    \/ status[o] # "open"
    \/ Cardinality({p \in Owners : status[p] # "open"}) < MaxGone

Goto(o, i, pc) == prep' = [prep EXCEPT ![o][i] = [@ EXCEPT !.pc = pc, !.age = 0]]

\* Leave the maintenance lock, if this worker is the one that holds it.
Unlock(o, i) == lock' = IF lock = <<o, i>> THEN None ELSE lock

-----------------------------------------------------------------------------
(* PreparationRepository.reserve_preparation *)

\* The claim lock of the process is free (pc = idle); expiry and clock are
\* read before the claim transaction gets the catalog lock.
BeginClaim(o, i) ==
    /\ status[o] = "open"
    /\ prep[o][i].pc = "idle"
    /\ held' = [held EXCEPT ![o] = Unexpired(o)]
    /\ prep' = [prep EXCEPT ![o][i] = [NoPrep EXCEPT !.pc = "claim"]]
    /\ UNCHANGED <<catalog, lock, status, pending, beat>>

\* Another owner has the identity: the poll loop starts again.
ClaimRefused(o, i) ==
    /\ prep[o][i].pc = "claim"
    /\ WithoutExpired(prep[o][i].age)[i].owner \notin {None, o}
    /\ rows' = WithoutExpired(prep[o][i].age)
    /\ prep' = [prep EXCEPT ![o][i] = NoPrep]
    /\ UNCHANGED <<counter, granted, committed, current, lock, status, held, pending, beat>>

\* Mutation of ClaimExtended: the lease is added to the expiry in the row.
ClaimExtendedAdds(o, i) ==
    LET live == WithoutExpired(prep[o][i].age) IN
    /\ prep[o][i].pc = "claim"
    /\ live[i].owner = o
    /\ rows' = [live EXCEPT ![i].left = @ + TTL - prep[o][i].age]
    /\ prep' = [prep EXCEPT ![o][i] = [@ EXCEPT !.pc = "record", !.fence = live[i].fence]]
    /\ UNCHANGED <<counter, granted, committed, current, lock, status, held, pending, beat>>

\* The row is already this owner's: it is extended and keeps its fence.
ClaimExtended(o, i) ==
    LET live == WithoutExpired(prep[o][i].age) IN
    /\ prep[o][i].pc = "claim"
    /\ live[i].owner = o
    /\ rows' = [live EXCEPT ![i].left = Later(@, TTL - prep[o][i].age)]
    /\ prep' = [prep EXCEPT ![o][i] = [@ EXCEPT !.pc = "record", !.fence = live[i].fence]]
    /\ UNCHANGED <<counter, granted, committed, current, lock, status, held, pending, beat>>

\* Mutation of ClaimGranted: the counter does not advance.
ClaimGrantedSameCounter(o, i) ==
    LET live == WithoutExpired(prep[o][i].age) IN
    /\ prep[o][i].pc = "claim"
    /\ live[i].owner = None
    /\ counter < MaxFence
    /\ granted' = [granted EXCEPT ![i] = counter + 1]
    /\ rows' = [live EXCEPT ![i] = [owner |-> o, fence |-> counter + 1,
                                    left |-> TTL - prep[o][i].age]]
    /\ prep' = [prep EXCEPT ![o][i] = [@ EXCEPT !.pc = "record", !.fence = counter + 1]]
    /\ UNCHANGED <<counter, committed, current, lock, status, held, pending, beat>>

\* The identity is free: the counter advances and a row is inserted.
ClaimGranted(o, i) ==
    LET live == WithoutExpired(prep[o][i].age) IN
    /\ prep[o][i].pc = "claim"
    /\ live[i].owner = None
    /\ counter < MaxFence
    /\ counter' = counter + 1
    /\ granted' = [granted EXCEPT ![i] = counter + 1]
    /\ rows' = [live EXCEPT ![i] = [owner |-> o, fence |-> counter + 1,
                                    left |-> TTL - prep[o][i].age]]
    /\ prep' = [prep EXCEPT ![o][i] = [@ EXCEPT !.pc = "record", !.fence = counter + 1]]
    /\ UNCHANGED <<committed, current, lock, status, held, pending, beat>>

\* The claim transaction did not get the catalog lock in time.
ClaimBusy(o, i) ==
    /\ prep[o][i].pc = "claim"
    /\ prep' = [prep EXCEPT ![o][i] = NoPrep]
    /\ UNCHANGED <<catalog, lock, status, held, pending, beat>>

\* The manager records the claim, or finds itself closed or the expiry past.
Recordable(o, i) ==
    /\ status[o] = "open"
    /\ TTL > prep[o][i].age
    /\ Unexpired(o)[i].fence \in {0, prep[o][i].fence}

RecordClaim(o, i) ==
    /\ prep[o][i].pc = "record"
    /\ Recordable(o, i)
    /\ held' = [held EXCEPT ![o] = [Unexpired(o) EXCEPT ![i] =
                    [fence |-> prep[o][i].fence,
                     left |-> Later(@.left, TTL - prep[o][i].age)]]]
    /\ pending' = [pending EXCEPT ![o] = @ \ {i}]
    /\ Goto(o, i, "reserved")
    /\ UNCHANGED <<catalog, lock, status, beat>>

RecordRefused(o, i) ==
    /\ prep[o][i].pc = "record"
    /\ ~Recordable(o, i)
    /\ held' = [held EXCEPT ![o] = Unexpired(o)]
    /\ prep' = [prep EXCEPT ![o][i] = NoPrep]
    /\ UNCHANGED <<catalog, lock, status, pending, beat>>

\* PreparationReservation.close, whatever ended the preparation.
CloseReservation(o, i) ==
    /\ prep[o][i].pc = "closing"
    /\ held' = [held EXCEPT ![o][i] = NoHold]
    /\ pending' = [pending EXCEPT ![o] = IF held[o][i].fence = 0 THEN @ ELSE @ \cup {i}]
    /\ prep' = [prep EXCEPT ![o][i] = [NoPrep EXCEPT !.pc = "flush"]]
    /\ UNCHANGED <<catalog, lock, status, beat>>

\* Mutation of Flushed: a release the heartbeat already took is not waited for.
FlushedIgnoringBeat(o) == pending[o] = {}

Flushed(o) == pending[o] = {} /\ beat[o].pc = "idle"

\* flush_releases returns and the claim lock of the process is released.  The
\* wait is bounded, and an error or interrupt in it is suppressed.
FlushReleases(o, i) ==
    /\ prep[o][i].pc = "flush"
    /\ Flushed(o) \/ status[o] = "failed" \/ FlushCanStop
    /\ prep' = [prep EXCEPT ![o][i] = NoPrep]
    /\ UNCHANGED <<catalog, lock, status, held, pending, beat>>

-----------------------------------------------------------------------------
(* The reserved part of prepare and capture_session, and commit_export *)

\* preparation.current holds the maintenance lock; the generation matches
\* the plan and is returned.
ReuseExact(o, i) ==
    /\ prep[o][i].pc = "reserved"
    /\ lock = None
    /\ current[i] # None
    /\ Goto(o, i, "closing")
    /\ UNCHANGED <<catalog, lock, status, held, pending, beat>>

\* There is none, or the live session's plan does not match the one there.
LookupExact(o, i) ==
    /\ prep[o][i].pc = "reserved"
    /\ lock = None
    /\ prep' = [prep EXCEPT ![o][i] = [@ EXCEPT !.pc = "planned", !.observed = current[i]]]
    /\ UNCHANGED <<catalog, lock, status, held, pending, beat>>

\* stage_export and StagedExport.commit both require a live reservation.
StageExport(o, i) ==
    /\ prep[o][i].pc = "planned"
    /\ ReservationAlive(o, i)
    /\ Goto(o, i, "waiting")
    /\ UNCHANGED <<catalog, lock, status, held, pending, beat>>

EnterCommit(o, i) ==
    /\ prep[o][i].pc = "waiting"
    /\ lock = None
    /\ lock' = <<o, i>>
    /\ \E instance \in Instances :
           prep' = [prep EXCEPT ![o][i] = [@ EXCEPT !.pc = "admit", !.candidate = instance]]
    /\ UNCHANGED <<catalog, status, held, pending, beat>>

\* Retention drops expired leases and the pointers of identities it evicts;
\* an identity under preparation is protected.
ApplyRetention(evicted) ==
    /\ rows' = WithoutExpired(0)
    /\ evicted \subseteq {i \in Identities : rows'[i] = NoRow}
    /\ current' = [i \in Identities |-> IF i \in evicted THEN None ELSE current[i]]

\* Admission flushes this manager's releases, then applies retention.
Admit(o, i) ==
    /\ prep[o][i].pc = "admit"
    /\ Flushed(o)
    /\ status[o] # "failed"
    /\ \E evicted \in SUBSET Identities : ApplyRetention(evicted)
    /\ Goto(o, i, "check")
    /\ UNCHANGED <<counter, granted, committed, lock, status, held, pending, beat>>

CheckCommit(o, i) ==
    /\ prep[o][i].pc = "check"
    /\ RequireReservation(o, i)
    /\ RequireReplacement(o, i)
    /\ Goto(o, i, "guard")
    /\ UNCHANGED <<catalog, lock, status, held, pending, beat>>

\* The cancellation guard passes and the tree is installed.
Install(o, i) ==
    /\ prep[o][i].pc = "guard"
    /\ ReservationAlive(o, i)
    /\ Goto(o, i, "commit")
    /\ UNCHANGED <<catalog, lock, status, held, pending, beat>>

\* The final transaction; the handle is returned after it.
CommitGeneration(o, i) ==
    /\ prep[o][i].pc = "commit"
    /\ RequireReservation(o, i)
    /\ RequireReplacement(o, i)
    /\ current' = [current EXCEPT ![i] = prep[o][i].candidate]
    /\ committed' = [committed EXCEPT ![i] = prep[o][i].fence]
    /\ Unlock(o, i)
    /\ Goto(o, i, "closing")
    /\ UNCHANGED <<rows, counter, granted, status, held, pending, beat>>

\* A failed check, a limit, a busy catalog, cancellation or a failing capture:
\* the exception leaves the maintenance lock and closes the reservation.
Abort(o, i) ==
    /\ prep[o][i].pc \in WorkingPcs
    /\ Unlock(o, i)
    /\ Goto(o, i, "closing")
    /\ UNCHANGED <<catalog, status, held, pending, beat>>

-----------------------------------------------------------------------------
(* The heartbeat thread: LeaseManager._maintain *)

HasWork(o) == pending[o] # {} \/ \E i \in Identities : held[o][i].fence # 0

BeatSnapshot(o) ==
    /\ status[o] \in {"open", "closed"}
    /\ beat[o].pc = "idle"
    /\ HasWork(o)
    /\ held' = [held EXCEPT ![o] = Unexpired(o)]
    /\ pending' = [pending EXCEPT ![o] = {}]
    /\ beat' = [beat EXCEPT ![o] =
                   [NoBeat EXCEPT !.pc = IF pending[o] = {} THEN "renew" ELSE "release",
                                  !.releases = pending[o],
                                  !.renew = [i \in Identities |-> Unexpired(o)[i].fence],
                                  !.closed = status[o] = "closed"]]
    /\ UNCHANGED <<catalog, lock, status, prep>>

\* catalog.release_lifecycle deletes by owner and identity.
BeatRelease(o) ==
    /\ beat[o].pc = "release"
    /\ rows' = [i \in Identities |->
                   IF i \in beat[o].releases /\ rows[i].owner = o THEN NoRow ELSE rows[i]]
    /\ beat' = [beat EXCEPT ![o] = [@ EXCEPT !.pc = "renew"]]
    /\ UNCHANGED <<counter, granted, committed, current, lock, status, held, pending, prep>>

\* Reservations that are gone by now are left out; expiry is read.
BeatStart(o) ==
    LET renew == [i \in Identities |-> IF Unexpired(o)[i].fence = 0 THEN 0 ELSE beat[o].renew[i]]
    IN
    /\ beat[o].pc = "renew"
    /\ held' = [held EXCEPT ![o] = Unexpired(o)]
    /\ beat' = [beat EXCEPT ![o] = IF \A i \in Identities : renew[i] = 0
                                   THEN NoBeat
                                   ELSE [@ EXCEPT !.pc = "update", !.renew = renew]]
    /\ UNCHANGED <<catalog, lock, status, pending, prep>>

\* catalog.renew_lifecycle reads the clock inside its transaction.
BeatUpdate(o) ==
    LET renewed == {i \in Identities : /\ beat[o].renew[i] # 0
                                       /\ rows[i].owner = o
                                       /\ rows[i].left > 0}
    IN
    /\ beat[o].pc = "update"
    /\ rows' = [i \in Identities |->
                   IF i \in renewed
                   THEN [rows[i] EXCEPT !.left = Later(@, TTL - beat[o].age)]
                   ELSE rows[i]]
    /\ beat' = [beat EXCEPT ![o] =
                   [@ EXCEPT !.pc = "confirm",
                             !.lost = {i \in Identities : beat[o].renew[i] # 0} \ renewed]]
    /\ UNCHANGED <<counter, granted, committed, current, lock, status, held, pending, prep>>

\* Mutation of Confirmed: the deadline is counted from the confirmation.
ConfirmedFromNow(o, i) ==
    LET hold == Unexpired(o)[i] IN
    CASE hold.fence = 0 \/ hold.fence # beat[o].renew[i] -> hold
      [] hold.fence # 0 /\ hold.fence = beat[o].renew[i] /\ i \in beat[o].lost -> NoHold
      [] OTHER -> [hold EXCEPT !.left = TTL]

\* Deadlines move only for the reservation that was snapshotted (its fence),
\* and only if the new expiry is still ahead.
Confirmed(o, i) ==
    LET hold == Unexpired(o)[i] IN
    CASE hold.fence = 0 \/ hold.fence # beat[o].renew[i] -> hold
      [] hold.fence # 0 /\ hold.fence = beat[o].renew[i] /\ i \in beat[o].lost -> NoHold
      [] OTHER -> IF TTL > beat[o].age
                  THEN [hold EXCEPT !.left = Later(@, TTL - beat[o].age)]
                  ELSE hold

BeatConfirm(o) ==
    /\ beat[o].pc = "confirm"
    /\ held' = [held EXCEPT ![o] = [i \in Identities |-> Confirmed(o, i)]]
    /\ beat' = [beat EXCEPT ![o] = NoBeat]
    /\ UNCHANGED <<catalog, lock, status, pending, prep>>

\* A busy catalog restores the releases for the next round; a manager that was
\* closed at the snapshot drops them and stops.
BeatBusy(o) ==
    /\ beat[o].pc \in {"release", "update"}
    /\ pending' = [pending EXCEPT ![o] = IF beat[o].closed THEN {} ELSE @ \cup beat[o].releases]
    /\ status' = [status EXCEPT ![o] = IF beat[o].closed THEN "stopped" ELSE @]
    /\ beat' = [beat EXCEPT ![o] = NoBeat]
    /\ UNCHANGED <<catalog, lock, held, prep>>

\* Any other catalog error ends the thread and poisons the manager.
BeatFail(o) ==
    /\ beat[o].pc \in {"release", "update"}
    /\ ~beat[o].closed
    /\ MayLeave(o)
    /\ pending' = [pending EXCEPT ![o] = @ \cup beat[o].releases]
    /\ status' = [status EXCEPT ![o] = "failed"]
    /\ beat' = [beat EXCEPT ![o] = NoBeat]
    /\ UNCHANGED <<catalog, lock, held, prep>>

\* Mutation of BeatStop: the thread ends as soon as the manager is closed.
BeatStopAtOnce(o) ==
    /\ status[o] = "closed"
    /\ beat[o].pc = "idle"
    /\ status' = [status EXCEPT ![o] = "stopped"]
    /\ UNCHANGED <<catalog, lock, held, pending, beat, prep>>

\* A closed manager with nothing left to release ends its thread.
BeatStop(o) ==
    /\ status[o] = "closed"
    /\ beat[o].pc = "idle"
    /\ ~HasWork(o)
    /\ status' = [status EXCEPT ![o] = "stopped"]
    /\ UNCHANGED <<catalog, lock, held, pending, beat, prep>>

-----------------------------------------------------------------------------
(* Closing, crashes, time, and the other users of the maintenance lock *)

\* LeaseManager.close, at any point of its preparations.
CloseManager(o) ==
    /\ status[o] = "open"
    /\ MayLeave(o)
    /\ status' = [status EXCEPT ![o] = "closed"]
    /\ pending' = [pending EXCEPT ![o] = @ \cup {i \in Identities : held[o][i].fence # 0}]
    /\ held' = [held EXCEPT ![o] = [i \in Identities |-> NoHold]]
    /\ UNCHANGED <<catalog, lock, beat, prep>>

\* The process dies; SQLite releases its maintenance lock.
Crash(o) ==
    /\ status[o] # "crashed"
    /\ MayLeave(o)
    /\ status' = [status EXCEPT ![o] = "crashed"]
    /\ held' = [held EXCEPT ![o] = [i \in Identities |-> NoHold]]
    /\ pending' = [pending EXCEPT ![o] = {}]
    /\ beat' = [beat EXCEPT ![o] = NoBeat]
    /\ prep' = [prep EXCEPT ![o] = [i \in Identities |-> NoPrep]]
    /\ lock' = IF lock # None /\ lock[1] = o THEN None ELSE lock
    /\ UNCHANGED catalog

\* ExportRepository.prune of any process.
Prune ==
    /\ lock = None
    /\ \E evicted \in SUBSET Identities : ApplyRetention(evicted)
    /\ UNCHANGED <<counter, granted, committed, lock, status, held, pending, beat, prep>>

\* Recovery removes a generation whose tree turned out corrupt, reserved or not.
RecoverCorrupt(i) ==
    /\ lock = None
    /\ current[i] # None
    /\ current' = [current EXCEPT ![i] = None]
    /\ UNCHANGED <<rows, counter, granted, committed, lock, status, held, pending, beat, prep>>

Less(left, floor) == Later(left - 1, floor)
Older(age) == IF age < MaxWait THEN age + 1 ELSE MaxWait

\* A waiting transaction gives up (it is Busy) before it is older than MaxWait.
Tick ==
    /\ \A o \in Owners, i \in Identities :
           prep[o][i].pc \in StampedPcs => prep[o][i].age < MaxWait
    /\ rows' = [i \in Identities |->
                   IF rows[i].owner = None THEN rows[i]
                   ELSE [rows[i] EXCEPT !.left = Less(@, -MaxWait)]]
    /\ held' = [o \in Owners |-> [i \in Identities |->
                   [held[o][i] EXCEPT !.left = Less(@, 0)]]]
    /\ prep' = [o \in Owners |-> [i \in Identities |->
                   IF prep[o][i].pc \in StampedPcs \cup {"record"}
                   THEN [prep[o][i] EXCEPT !.age = Older(@)] ELSE prep[o][i]]]
    /\ beat' = [o \in Owners |->
                   IF beat[o].pc \in {"update", "confirm"}
                   THEN [beat[o] EXCEPT !.age = Older(@)] ELSE beat[o]]
    /\ UNCHANGED <<counter, granted, committed, current, lock, status, pending>>

-----------------------------------------------------------------------------

Claim(o, i) ==
    \/ BeginClaim(o, i) \/ ClaimRefused(o, i) \/ ClaimExtended(o, i)
    \/ ClaimGranted(o, i) \/ ClaimBusy(o, i)
    \/ RecordClaim(o, i) \/ RecordRefused(o, i)

Work(o, i) ==
    \/ ReuseExact(o, i) \/ LookupExact(o, i) \/ StageExport(o, i)
    \/ EnterCommit(o, i) \/ Admit(o, i) \/ CheckCommit(o, i)
    \/ Install(o, i) \/ CommitGeneration(o, i) \/ Abort(o, i)

Release(o, i) == CloseReservation(o, i) \/ FlushReleases(o, i)

Heartbeat(o) ==
    \/ BeatSnapshot(o) \/ BeatRelease(o) \/ BeatStart(o) \/ BeatUpdate(o)
    \/ BeatConfirm(o) \/ BeatBusy(o) \/ BeatFail(o) \/ BeatStop(o)

Next ==
    \/ \E o \in Owners, i \in Identities : Claim(o, i) \/ Work(o, i) \/ Release(o, i)
    \/ \E o \in Owners : Heartbeat(o) \/ CloseManager(o) \/ Crash(o)
    \/ Prune
    \/ \E i \in Identities : RecoverCorrupt(i)
    \/ Tick

Spec == Init /\ [][Next]_vars

-----------------------------------------------------------------------------
(* Fairness: threads run, time passes, every operation ends by its timeout,  *)
(* and a catalog that is busy now and then lets a retrying writer in.        *)

ClaimFairness(o, i) ==
    /\ WF_vars(BeginClaim(o, i))
    /\ SF_vars(ClaimRefused(o, i) \/ ClaimExtended(o, i) \/ ClaimGranted(o, i))
    /\ WF_vars(ClaimBusy(o, i))
    /\ WF_vars(RecordClaim(o, i) \/ RecordRefused(o, i))

HeartbeatFairness(o) ==
    /\ WF_vars(BeatSnapshot(o))
    /\ SF_vars(BeatRelease(o))
    /\ WF_vars(BeatStart(o))
    /\ SF_vars(BeatUpdate(o))
    /\ WF_vars(BeatConfirm(o))
    /\ WF_vars(BeatStop(o))

Fairness ==
    /\ WF_vars(Tick)
    /\ \A o \in Owners : HeartbeatFairness(o)
    /\ \A o \in Owners, i \in Identities :
           ClaimFairness(o, i) /\ WF_vars(Work(o, i)) /\ WF_vars(Release(o, i))

FairSpec == Spec /\ Fairness

-----------------------------------------------------------------------------
(* Properties *)

\* A reservation its owner still believes in is backed by the durable row with
\* its owner and fence, and the row does not expire before the owner's
\* confirmed deadline (leases.py: claim_reservation, _maintain, close).
LiveReservationIsDurable ==
    \A o \in Owners, i \in Identities :
        status[o] = "open" /\ held[o][i].fence # 0 /\ held[o][i].left > 0 =>
            /\ rows[i].owner = o
            /\ rows[i].fence = held[o][i].fence
            /\ rows[i].left >= held[o][i].left

\* No two processes hold a live reservation of one identity at once: the
\* exclusive right of PreparationReservation (handles.py:290).
ExclusivePreparation ==
    \A i \in Identities, o, p \in Owners :
        ReservationAlive(o, i) /\ ReservationAlive(p, i) => o = p

\* A reservation is durable and exclusive for as long as its owner believes in
\* it, whatever heartbeats, releases and flushes it races with.
ReservationsHold == LiveReservationIsDurable /\ ExclusivePreparation

\* A fence identifies one claim: it is never held by preparations of two
\* owners or of two identities, whatever happened to the rows in between.
FencesAreUnique ==
    \A o, p \in Owners, i, j \in Identities :
        prep[o][i].fence = prep[p][j].fence /\ prep[o][i].fence # 0 => o = p /\ i = j

Believes(o, i) == status[o] = "open" /\ held[o][i].fence # 0

\* A row whose owner crashed, failed, closed or gave the claim up does not keep
\* the identity reserved for ever: expiry and the claims of others remove it,
\* or its owner takes it up again (sqlite/leases.py claim_reservation).
OrphanRowReclaimed ==
    \A o \in Owners, i \in Identities :
        (rows[i].owner = o /\ ~Believes(o, i))
            ~> (rows[i].owner # o \/ Believes(o, i) \/ counter = MaxFence)

\* Ending a preparation never waits for ever for the heartbeat to delete its
\* row, however often the catalog is busy (flush_releases without its timeout).
FlushEnds ==
    \A o \in Owners, i \in Identities :
        prep[o][i].pc = "flush" ~> prep[o][i].pc # "flush"

\* Reservations end: an abandoned one is reclaimed, and a flush of a release.
ReservationsEnd == OrphanRowReclaimed /\ FlushEnds

Pointer == INSTANCE FencedPointer

\* "Every state and generation commit proves: ... the reservation has not
\* expired" (repository.md, Reservations and fencing).
CommitsBeforeExpiry ==
    [][\A i \in Identities :
           current'[i] \notin {current[i], None} => rows[i].left > 0]_vars

\* Commits go through only under the latest fence of their identity: a stale
\* worker cannot replace a newer generation (sqlite/generations.py commit).
ImplementsFencedPointer == Pointer!Spec
=============================================================================
