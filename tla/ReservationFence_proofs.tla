----------------------- MODULE ReservationFence_proofs -----------------------
(***************************************************************************)
(* Proofs about ReservationFence.  None of them uses the bounds MaxFence   *)
(* and MaxGone beyond their types, and only ReservationsAreHeld depends on *)
(* FlushCanStop: it holds if flush_releases waits for the release.         *)
(***************************************************************************)
EXTENDS ReservationFence, TLAPS

USE TimeAssumption, BoundAssumption, NoneAssumption

-----------------------------------------------------------------------------
(* Operators *)

LEMMA UnexpiredType ==
    ASSUME TypeOK, NEW o \in Owners
    PROVE  Unexpired(o) \in [Identities -> HoldSet]
BY DEF TypeOK, Unexpired, HoldSet, NoHold, Fences

LEMMA WithoutExpiredType ==
    ASSUME TypeOK, NEW age \in 0..MaxWait
    PROVE  WithoutExpired(age) \in [Identities -> RowSet]
BY DEF TypeOK, WithoutExpired, RowSet, NoRow, Fences

LEMMA ConfirmedType ==
    ASSUME TypeOK, NEW o \in Owners, NEW i \in Identities
    PROVE  Confirmed(o, i) \in HoldSet
<1>1. Unexpired(o)[i] \in HoldSet
  BY UnexpiredType
<1>2. beat[o] \in BeatSet
  BY DEF TypeOK
<1> QED
  BY <1>1, <1>2 DEF Confirmed, HoldSet, BeatSet, NoHold, Later, Fences

LEMMA NullRecords ==
    /\ NoRow \in RowSet
    /\ NoHold \in HoldSet
    /\ NoBeat \in BeatSet
    /\ NoPrep \in PrepSet
BY DEF NoRow, RowSet, NoHold, HoldSet, NoBeat, BeatSet, NoPrep, PrepSet, Fences, BeatPcs, PrepPcs

-----------------------------------------------------------------------------
(* Type correctness *)

LEMMA TypeInit == Init => TypeOK
BY NullRecords DEF Init, TypeOK, Fences, Statuses

\* Records with some fields replaced.
LEMMA RowFields ==
    ASSUME NEW x \in RowSet, NEW left \in -MaxWait..TTL
    PROVE  [x EXCEPT !.left = left] \in RowSet
BY DEF RowSet

LEMMA HoldFields ==
    ASSUME NEW x \in HoldSet, NEW left \in 0..TTL
    PROVE  [x EXCEPT !.left = left] \in HoldSet
BY SMTT(60) DEF HoldSet

LEMMA PrepFields ==
    ASSUME NEW x \in PrepSet, NEW pc \in PrepPcs
    PROVE  /\ [x EXCEPT !.pc = pc, !.age = 0] \in PrepSet
           /\ \A f \in Fences : [x EXCEPT !.pc = pc, !.fence = f] \in PrepSet
           /\ \A v \in Instances \cup {None} : [x EXCEPT !.pc = pc, !.observed = v] \in PrepSet
           /\ \A v \in Instances : [x EXCEPT !.pc = pc, !.candidate = v] \in PrepSet
<1>1. [x EXCEPT !.pc = pc, !.age = 0] \in PrepSet
  <2>1. 0 \in 0..MaxWait
    OBVIOUS
  <2> HIDE TimeAssumption, BoundAssumption, NoneAssumption
  <2> QED
    BY <2>1 DEF PrepSet
<1>2. ASSUME NEW f \in Fences PROVE [x EXCEPT !.pc = pc, !.fence = f] \in PrepSet
  BY DEF PrepSet
<1>3. ASSUME NEW v \in Instances \cup {None}
      PROVE  [x EXCEPT !.pc = pc, !.observed = v] \in PrepSet
  BY DEF PrepSet
<1>4. ASSUME NEW v \in Instances PROVE [x EXCEPT !.pc = pc, !.candidate = v] \in PrepSet
  BY DEF PrepSet
<1> QED
  BY <1>1, <1>2, <1>3, <1>4

LEMMA PrepUpdate ==
    ASSUME TypeOK, NEW o \in Owners, NEW i \in Identities, NEW r \in PrepSet
    PROVE  [prep EXCEPT ![o][i] = r] \in [Owners -> [Identities -> PrepSet]]
BY DEF TypeOK

LEMMA GotoType ==
    ASSUME TypeOK, NEW o \in Owners, NEW i \in Identities, NEW pc \in PrepPcs, Goto(o, i, pc)
    PROVE  prep' \in [Owners -> [Identities -> PrepSet]]
<1>1. prep[o][i] \in PrepSet
  BY SMTT(60) DEF TypeOK
<1>2. [prep[o][i] EXCEPT !.pc = pc, !.age = 0] \in PrepSet
  BY <1>1, PrepFields
<1> QED
  BY <1>2, PrepUpdate DEF Goto

LEMMA ClaimType ==
    ASSUME TypeOK, NEW o \in Owners, NEW i \in Identities, Claim(o, i)
    PROVE  TypeOK'
<1> USE DEF catalog
<1>p. prep[o][i] \in PrepSet
  BY DEF TypeOK
<1>a. prep[o][i].age \in 0..MaxWait
  BY <1>p DEF PrepSet
<1>u. Unexpired(o) \in [Identities -> HoldSet]
  BY UnexpiredType
<1>w. WithoutExpired(prep[o][i].age) \in [Identities -> RowSet]
  BY <1>a, WithoutExpiredType
<1>1. CASE BeginClaim(o, i)
  BY <1>1, <1>u, NullRecords DEF BeginClaim, TypeOK, NoPrep, PrepSet, PrepPcs, Fences
<1>2. CASE ClaimRefused(o, i)
  BY <1>2, <1>w, NullRecords DEF ClaimRefused, TypeOK
<1>3. CASE ClaimExtended(o, i)
  <2> DEFINE live == WithoutExpired(prep[o][i].age)
             row == [live[i] EXCEPT !.left = Later(@, TTL - prep[o][i].age)]
             r == [prep[o][i] EXCEPT !.pc = "record", !.fence = live[i].fence]
  <2>1. live[i] \in RowSet
    BY <1>w
  <2>a. Later(live[i].left, TTL - prep[o][i].age) \in -MaxWait..TTL
    BY <2>1, <1>a DEF RowSet, Later
  <2>b. live[i].fence \in Fences /\ "record" \in PrepPcs
    BY SMTT(60), <2>1 DEF RowSet, PrepPcs
  <2>2. row \in RowSet /\ r \in PrepSet
    BY <2>1, <2>a, <2>b, <1>p, RowFields, PrepFields
  <2>3. rows' = [live EXCEPT ![i] = row] /\ prep' = [prep EXCEPT ![o][i] = r]
    BY <1>3 DEF ClaimExtended
  <2>4. rows' \in [Identities -> RowSet]
    BY SMTT(60), <2>2, <2>3, <1>w
  <2>5. prep' \in [Owners -> [Identities -> PrepSet]]
    BY <2>2, <2>3, PrepUpdate
  <2> QED
    BY <1>3, <2>4, <2>5 DEF ClaimExtended, TypeOK
<1>4. CASE ClaimGranted(o, i)
  <2> DEFINE live == WithoutExpired(prep[o][i].age)
             row == [owner |-> o, fence |-> counter + 1, left |-> TTL - prep[o][i].age]
             r == [prep[o][i] EXCEPT !.pc = "record", !.fence = counter + 1]
  <2>1. counter + 1 \in Fences
    BY <1>4 DEF ClaimGranted, TypeOK, Fences
  <2>a. "record" \in PrepPcs
    BY DEF PrepPcs
  <2>2. row \in RowSet /\ r \in PrepSet
    <3>1. row \in RowSet
      BY SMTT(60), <2>1, <1>a DEF RowSet
    <3>2. r \in PrepSet
      BY <2>1, <2>a, <1>p, PrepFields
    <3> QED
      BY <3>1, <3>2
  <2>3. rows' = [live EXCEPT ![i] = row] /\ prep' = [prep EXCEPT ![o][i] = r]
    BY <1>4 DEF ClaimGranted
  <2>4. rows' \in [Identities -> RowSet]
    BY <2>2, <2>3, <1>w
  <2>5. prep' \in [Owners -> [Identities -> PrepSet]]
    BY <2>2, <2>3, PrepUpdate
  <2>6. counter' \in Fences /\ granted' \in [Identities -> Fences]
    BY <1>4, <2>1 DEF ClaimGranted, TypeOK
  <2> QED
    BY <1>4, <2>4, <2>5, <2>6 DEF ClaimGranted, TypeOK
<1>5. CASE ClaimBusy(o, i)
  BY <1>5, NullRecords DEF ClaimBusy, TypeOK
<1>6. CASE RecordClaim(o, i)
  <2> DEFINE hold == [fence |-> prep[o][i].fence,
                      left |-> Later(Unexpired(o)[i].left, TTL - prep[o][i].age)]
  <2>1. hold \in HoldSet
    BY <1>6, <1>p, <1>u DEF RecordClaim, Recordable, HoldSet, PrepSet, Later
  <2>2. held' = [held EXCEPT ![o] = [Unexpired(o) EXCEPT ![i] = hold]]
    BY <1>6 DEF RecordClaim
  <2>3. held' \in [Owners -> [Identities -> HoldSet]]
    BY <2>1, <2>2, <1>u DEF TypeOK
  <2>4. prep' \in [Owners -> [Identities -> PrepSet]]
    BY <1>6, GotoType DEF RecordClaim, PrepPcs, WorkingPcs
  <2>5. pending' \in [Owners -> SUBSET Identities]
    BY <1>6 DEF RecordClaim, TypeOK
  <2> QED
    BY <1>6, <2>3, <2>4, <2>5 DEF RecordClaim, TypeOK
<1>7. CASE RecordRefused(o, i)
  BY <1>7, <1>u, NullRecords DEF RecordRefused, TypeOK
<1> QED
  BY <1>1, <1>2, <1>3, <1>4, <1>5, <1>6, <1>7 DEF Claim

LEMMA RetentionType ==
    ASSUME TypeOK, NEW evicted, ApplyRetention(evicted)
    PROVE  /\ rows' \in [Identities -> RowSet]
           /\ current' \in [Identities -> Instances \cup {None}]
<1>1. 0 \in 0..MaxWait
  OBVIOUS
<1>2. WithoutExpired(0) \in [Identities -> RowSet]
  BY <1>1, WithoutExpiredType
<1> QED
  BY <1>2 DEF ApplyRetention, TypeOK

LEMMA WorkType ==
    ASSUME TypeOK, NEW o \in Owners, NEW i \in Identities, Work(o, i)
    PROVE  TypeOK'
<1> USE DEF catalog
<1>p. prep[o][i] \in PrepSet
  BY DEF TypeOK
<1>q. PrepPcs \subseteq PrepPcs /\ LockedPcs \subseteq PrepPcs /\ {"closing", "planned", "waiting"} \subseteq PrepPcs
  BY DEF PrepPcs, WorkingPcs, LockedPcs
<1>l. ASSUME Unlock(o, i) PROVE lock' \in (Owners \X Identities) \cup {None}
  BY <1>l DEF Unlock, TypeOK
<1>1. CASE ReuseExact(o, i)
  BY <1>1, <1>q, GotoType DEF ReuseExact, TypeOK
<1>2. CASE LookupExact(o, i)
  <2>1. current[i] \in Instances \cup {None}
    BY SMTT(60) DEF TypeOK
  <2>2. [prep[o][i] EXCEPT !.pc = "planned", !.observed = current[i]] \in PrepSet
    BY <1>p, <1>q, <2>1, PrepFields
  <2>3. prep' \in [Owners -> [Identities -> PrepSet]]
    BY <1>2, <2>2, PrepUpdate DEF LookupExact
  <2> QED
    BY <1>2, <2>3 DEF LookupExact, TypeOK
<1>3. CASE StageExport(o, i)
  BY <1>3, <1>q, GotoType DEF StageExport, TypeOK
<1>4. CASE EnterCommit(o, i)
  <2>1. PICK v \in Instances :
            prep' = [prep EXCEPT ![o][i] = [prep[o][i] EXCEPT !.pc = "admit", !.candidate = v]]
    BY <1>4 DEF EnterCommit
  <2>2. "admit" \in PrepPcs
    BY SMTT(60) DEF PrepPcs, WorkingPcs, LockedPcs
  <2>3. [prep[o][i] EXCEPT !.pc = "admit", !.candidate = v] \in PrepSet
    BY <1>p, <2>2, PrepFields
  <2>4. prep' \in [Owners -> [Identities -> PrepSet]]
    BY <2>1, <2>3, PrepUpdate
  <2> QED
    BY <1>4, <2>4 DEF EnterCommit, TypeOK
<1>5. CASE Admit(o, i)
  <2>1. "check" \in PrepPcs
    BY DEF PrepPcs, WorkingPcs, LockedPcs
  <2>2. prep' \in [Owners -> [Identities -> PrepSet]]
    BY <1>5, <2>1, GotoType DEF Admit
  <2>3. /\ rows' \in [Identities -> RowSet]
        /\ current' \in [Identities -> Instances \cup {None}]
    BY <1>5, RetentionType DEF Admit
  <2> QED
    BY <1>5, <2>2, <2>3 DEF Admit, TypeOK
<1>6. CASE CheckCommit(o, i)
  <2>1. "guard" \in PrepPcs
    BY DEF PrepPcs, WorkingPcs, LockedPcs
  <2> QED
    BY <1>6, <2>1, GotoType DEF CheckCommit, TypeOK
<1>7. CASE Install(o, i)
  <2>1. "commit" \in PrepPcs
    BY DEF PrepPcs, WorkingPcs, LockedPcs
  <2> QED
    BY <1>7, <2>1, GotoType DEF Install, TypeOK
<1>8. CASE CommitGeneration(o, i)
  <2>1. /\ prep[o][i].candidate \in Instances \cup {None}
        /\ prep[o][i].fence \in Fences
    BY <1>p DEF PrepSet
  <2>2. prep' \in [Owners -> [Identities -> PrepSet]]
    BY <1>8, <1>q, GotoType DEF CommitGeneration
  <2> QED
    BY <1>8, <1>l, <2>1, <2>2 DEF CommitGeneration, TypeOK
<1>9. CASE Abort(o, i)
  <2>1. prep' \in [Owners -> [Identities -> PrepSet]]
    BY <1>9, <1>q, GotoType DEF Abort
  <2> QED
    BY <1>9, <1>l, <2>1 DEF Abort, TypeOK
<1> QED
  BY <1>1, <1>2, <1>3, <1>4, <1>5, <1>6, <1>7, <1>8, <1>9 DEF Work

LEMMA ReleaseType ==
    ASSUME TypeOK, NEW o \in Owners, NEW i \in Identities, Release(o, i)
    PROVE  TypeOK'
<1> USE DEF catalog
<1>1. CASE CloseReservation(o, i)
  <2>1. [NoPrep EXCEPT !.pc = "flush"] \in PrepSet
    BY NullRecords DEF PrepSet, PrepPcs
  <2>2. prep' \in [Owners -> [Identities -> PrepSet]]
    BY <1>1, <2>1, PrepUpdate DEF CloseReservation
  <2>3. pending' \in [Owners -> SUBSET Identities]
    BY <1>1 DEF CloseReservation, TypeOK
  <2>4. held' \in [Owners -> [Identities -> HoldSet]]
    BY <1>1, NullRecords DEF CloseReservation, TypeOK
  <2> QED
    BY <1>1, <2>2, <2>3, <2>4 DEF CloseReservation, TypeOK
<1>2. CASE FlushReleases(o, i)
  BY SMTT(60), <1>2, NullRecords DEF FlushReleases, TypeOK
<1> QED
  BY <1>1, <1>2 DEF Release

LEMMA BeatFields ==
    ASSUME NEW x \in BeatSet
    PROVE  /\ [x EXCEPT !.pc = "renew"] \in BeatSet
           /\ \A r \in [Identities -> Fences] : [x EXCEPT !.pc = "update", !.renew = r] \in BeatSet
           /\ \A l \in SUBSET Identities : [x EXCEPT !.pc = "confirm", !.lost = l] \in BeatSet
<1>1. [x EXCEPT !.pc = "renew"] \in BeatSet
  BY DEF BeatSet, BeatPcs
<1>2. ASSUME NEW r \in [Identities -> Fences]
      PROVE  [x EXCEPT !.pc = "update", !.renew = r] \in BeatSet
  BY DEF BeatSet, BeatPcs
<1>3. ASSUME NEW l \in SUBSET Identities
      PROVE  [x EXCEPT !.pc = "confirm", !.lost = l] \in BeatSet
  BY DEF BeatSet, BeatPcs
<1> QED
  BY <1>1, <1>2, <1>3

LEMMA BeatUpdateType ==
    ASSUME TypeOK, NEW o \in Owners, NEW r \in BeatSet
    PROVE  [beat EXCEPT ![o] = r] \in [Owners -> BeatSet]
BY DEF TypeOK

LEMMA HeartbeatType ==
    ASSUME TypeOK, NEW o \in Owners, Heartbeat(o)
    PROVE  TypeOK'
<1> USE DEF catalog
<1>b. beat[o] \in BeatSet
  BY DEF TypeOK
<1>u. Unexpired(o) \in [Identities -> HoldSet]
  BY UnexpiredType
<1>1. CASE BeatSnapshot(o)
  <2> DEFINE renew == [i \in Identities |-> Unexpired(o)[i].fence]
             r == [NoBeat EXCEPT !.pc = IF pending[o] = {} THEN "renew" ELSE "release",
                                 !.releases = pending[o],
                                 !.renew = renew,
                                 !.closed = status[o] = "closed"]
  <2>1. renew \in [Identities -> Fences] /\ pending[o] \in SUBSET Identities
    BY SMTT(60), <1>u DEF HoldSet, TypeOK
  <2>2. r \in BeatSet
    <3> HIDE DEF renew
    <3> QED
      BY <2>1, NullRecords DEF BeatSet, BeatPcs
  <2>3. beat' \in [Owners -> BeatSet]
    <3>1. beat' = [beat EXCEPT ![o] = r]
      BY <1>1 DEF BeatSnapshot
    <3> QED
      BY <3>1, <2>2, BeatUpdateType
  <2>4. held' \in [Owners -> [Identities -> HoldSet]]
    BY <1>1, <1>u DEF BeatSnapshot, TypeOK
  <2> QED
    BY <1>1, <2>3, <2>4 DEF BeatSnapshot, TypeOK
<1>2. CASE BeatRelease(o)
  <2>1. beat' \in [Owners -> BeatSet]
    BY <1>2, <1>b, BeatFields, BeatUpdateType DEF BeatRelease
  <2>2. rows' \in [Identities -> RowSet]
    BY <1>2, NullRecords DEF BeatRelease, TypeOK
  <2> QED
    BY <1>2, <2>1, <2>2 DEF BeatRelease, TypeOK
<1>3. CASE BeatStart(o)
  <2> DEFINE renew == [i \in Identities |->
                          IF Unexpired(o)[i].fence = 0 THEN 0 ELSE beat[o].renew[i]]
  <2>1. renew \in [Identities -> Fences]
    BY <1>b DEF BeatSet, Fences
  <2>2. [beat[o] EXCEPT !.pc = "update", !.renew = renew] \in BeatSet
    <3> HIDE DEF renew
    <3> QED
      BY <2>1, <1>b, BeatFields
  <2>3. beat' \in [Owners -> BeatSet]
    <3>1. \/ beat' = [beat EXCEPT ![o] = NoBeat]
          \/ beat' = [beat EXCEPT ![o] = [beat[o] EXCEPT !.pc = "update", !.renew = renew]]
      BY <1>3 DEF BeatStart
    <3> HIDE DEF renew
    <3> QED
      BY <3>1, <2>2, NullRecords, BeatUpdateType
  <2>4. held' \in [Owners -> [Identities -> HoldSet]]
    BY <1>3, <1>u DEF BeatStart, TypeOK
  <2> QED
    BY <1>3, <2>3, <2>4 DEF BeatStart, TypeOK
<1>4. CASE BeatUpdate(o)
  <2> DEFINE renewed == {i \in Identities : /\ beat[o].renew[i] # 0
                                            /\ rows[i].owner = o
                                            /\ rows[i].left > 0}
             lost == {i \in Identities : beat[o].renew[i] # 0} \ renewed
  <2>1. lost \in SUBSET Identities
    OBVIOUS
  <2>2. [beat[o] EXCEPT !.pc = "confirm", !.lost = lost] \in BeatSet
    <3> HIDE DEF lost
    <3> QED
      BY <2>1, <1>b, BeatFields
  <2>3. beat' \in [Owners -> BeatSet]
    <3>1. beat' = [beat EXCEPT ![o] = [beat[o] EXCEPT !.pc = "confirm", !.lost = lost]]
      BY <1>4 DEF BeatUpdate
    <3> HIDE DEF lost
    <3> QED
      BY <3>1, <2>2, BeatUpdateType
  <2>4. ASSUME NEW i \in Identities
        PROVE  [rows[i] EXCEPT !.left = Later(rows[i].left, TTL - beat[o].age)] \in RowSet
    <3>1. rows[i] \in RowSet
      BY DEF TypeOK
    <3>2. Later(rows[i].left, TTL - beat[o].age) \in -MaxWait..TTL
      BY <3>1, <1>b DEF RowSet, BeatSet, Later
    <3> QED
      BY <3>1, <3>2, RowFields
  <2>5. rows' \in [Identities -> RowSet]
    <3>1. rows' = [i \in Identities |->
                      IF i \in renewed
                      THEN [rows[i] EXCEPT !.left = Later(rows[i].left, TTL - beat[o].age)]
                      ELSE rows[i]]
      BY <1>4 DEF BeatUpdate
    <3> HIDE DEF renewed
    <3> QED
      BY <3>1, <2>4 DEF TypeOK
  <2> QED
    BY <1>4, <2>3, <2>5 DEF BeatUpdate, TypeOK
<1>5. CASE BeatConfirm(o)
  <2>1. [i \in Identities |-> Confirmed(o, i)] \in [Identities -> HoldSet]
    BY ConfirmedType
  <2>2. held' \in [Owners -> [Identities -> HoldSet]]
    BY <1>5, <2>1 DEF BeatConfirm, TypeOK
  <2>3. beat' \in [Owners -> BeatSet]
    BY <1>5, NullRecords, BeatUpdateType DEF BeatConfirm
  <2> QED
    BY <1>5, <2>2, <2>3 DEF BeatConfirm, TypeOK
<1>6. CASE BeatBusy(o) \/ BeatFail(o)
  <2>1. beat[o].releases \in SUBSET Identities
    BY <1>b DEF BeatSet
  <2>2. pending' \in [Owners -> SUBSET Identities]
    <3>1. pending[o] \cup beat[o].releases \in SUBSET Identities
      BY <2>1 DEF TypeOK
    <3>2. \/ pending' = [pending EXCEPT ![o] = {}]
          \/ pending' = [pending EXCEPT ![o] = pending[o] \cup beat[o].releases]
      BY <1>6 DEF BeatBusy, BeatFail
    <3> QED
      BY <3>1, <3>2, SMTT(20) DEF TypeOK
  <2>3. status' \in [Owners -> Statuses]
    BY <1>6 DEF BeatBusy, BeatFail, TypeOK, Statuses
  <2>4. beat' \in [Owners -> BeatSet]
    BY <1>6, NullRecords, BeatUpdateType DEF BeatBusy, BeatFail
  <2> QED
    BY <1>6, <2>2, <2>3, <2>4 DEF BeatBusy, BeatFail, TypeOK
<1>7. CASE BeatStop(o)
  BY <1>7 DEF BeatStop, TypeOK, Statuses
<1> QED
  BY <1>1, <1>2, <1>3, <1>4, <1>5, <1>6, <1>7 DEF Heartbeat

LEMMA LeaveType ==
    ASSUME TypeOK, NEW o \in Owners, CloseManager(o) \/ Crash(o)
    PROVE  TypeOK'
<1> USE DEF catalog
<1>1. CASE CloseManager(o)
  <2>1. pending' \in [Owners -> SUBSET Identities]
    BY <1>1 DEF CloseManager, TypeOK
  <2>2. held' \in [Owners -> [Identities -> HoldSet]]
    BY <1>1, NullRecords DEF CloseManager, TypeOK
  <2>3. status' \in [Owners -> Statuses]
    BY <1>1 DEF CloseManager, TypeOK, Statuses
  <2> QED
    BY <1>1, <2>1, <2>2, <2>3 DEF CloseManager, TypeOK
<1>2. CASE Crash(o)
  <2>1. held' \in [Owners -> [Identities -> HoldSet]]
    BY <1>2, NullRecords DEF Crash, TypeOK
  <2>2. prep' \in [Owners -> [Identities -> PrepSet]]
    BY <1>2, NullRecords DEF Crash, TypeOK
  <2>3. /\ status' \in [Owners -> Statuses]
        /\ pending' \in [Owners -> SUBSET Identities]
    BY <1>2 DEF Crash, TypeOK, Statuses
  <2>4. beat' \in [Owners -> BeatSet]
    BY <1>2, NullRecords, BeatUpdateType DEF Crash
  <2>5. lock' \in (Owners \X Identities) \cup {None}
    BY <1>2 DEF Crash, TypeOK
  <2> QED
    BY <1>2, <2>1, <2>2, <2>3, <2>4, <2>5 DEF Crash, TypeOK
<1> QED
  BY <1>1, <1>2

LEMMA TickType ==
    ASSUME TypeOK, Tick
    PROVE  TypeOK'
<1>1. rows' \in [Identities -> RowSet]
  <2>1. ASSUME NEW i \in Identities
        PROVE  /\ rows[i] \in RowSet
               /\ [rows[i] EXCEPT !.left = Less(rows[i].left, -MaxWait)] \in RowSet
    <3>1. rows[i] \in RowSet
      BY DEF TypeOK
    <3>2. Less(rows[i].left, -MaxWait) \in -MaxWait..TTL
      BY <3>1 DEF RowSet, Less, Later
    <3> QED
      BY <3>1, <3>2, RowFields
  <2> QED
    BY <2>1 DEF Tick
<1>2. held' \in [Owners -> [Identities -> HoldSet]]
  <2>1. ASSUME NEW o \in Owners, NEW i \in Identities
        PROVE  [held[o][i] EXCEPT !.left = Less(held[o][i].left, 0)] \in HoldSet
    <3>1. held[o][i] \in HoldSet
      BY DEF TypeOK
    <3>2. Less(held[o][i].left, 0) \in 0..TTL
      BY <3>1 DEF HoldSet, Less, Later
    <3> QED
      BY <3>1, <3>2, HoldFields
  <2> QED
    BY <2>1 DEF Tick
<1>3. prep' \in [Owners -> [Identities -> PrepSet]]
  <2>1. ASSUME NEW o \in Owners, NEW i \in Identities
        PROVE  /\ prep[o][i] \in PrepSet
               /\ [prep[o][i] EXCEPT !.age = Older(prep[o][i].age)] \in PrepSet
    <3>1. prep[o][i] \in PrepSet
      BY DEF TypeOK
    <3>2. Older(prep[o][i].age) \in 0..MaxWait
      BY <3>1 DEF PrepSet, Older
    <3> QED
      BY <3>1, <3>2 DEF PrepSet
  <2> QED
    BY <2>1 DEF Tick
<1>4. beat' \in [Owners -> BeatSet]
  <2>1. ASSUME NEW o \in Owners
        PROVE  /\ beat[o] \in BeatSet
               /\ [beat[o] EXCEPT !.age = Older(beat[o].age)] \in BeatSet
    <3>1. beat[o] \in BeatSet
      BY DEF TypeOK
    <3>2. Older(beat[o].age) \in 0..MaxWait
      BY <3>1 DEF BeatSet, Older
    <3> QED
      BY <3>1, <3>2 DEF BeatSet
  <2> QED
    BY <2>1 DEF Tick
<1> QED
  BY <1>1, <1>2, <1>3, <1>4 DEF Tick, TypeOK

LEMMA TypeStep ==
    ASSUME TypeOK, [Next]_vars
    PROVE  TypeOK'
<1>1. CASE UNCHANGED vars
  BY <1>1 DEF TypeOK, vars
<1>2. ASSUME NEW o \in Owners, NEW i \in Identities,
             Claim(o, i) \/ Work(o, i) \/ Release(o, i)
      PROVE  TypeOK'
  BY <1>2, ClaimType, WorkType, ReleaseType
<1>3. ASSUME NEW o \in Owners, Heartbeat(o) \/ CloseManager(o) \/ Crash(o)
      PROVE  TypeOK'
  BY <1>3, HeartbeatType, LeaveType
<1>4. CASE Prune
  BY <1>4, RetentionType DEF Prune, TypeOK
<1>5. ASSUME NEW i \in Identities, RecoverCorrupt(i)
      PROVE  TypeOK'
  BY <1>5 DEF RecoverCorrupt, TypeOK
<1> QED
  BY <1>1, <1>2, <1>3, <1>4, <1>5, TickType DEF Next

\* Every reachable state has its type, for any number of owners, identities and
\* instances: no deadline, clock age or fence leaves the range it is kept in.
THEOREM TypeCorrect == Spec => []TypeOK
BY TypeInit, TypeStep, PTL DEF Spec

-----------------------------------------------------------------------------
(* Fencing: the inductive invariant *)

\* A reserved identity has the fence given out last for it; fences given out
\* for different identities differ; and a preparation that has the fence of a
\* row is the preparation of the row's owner and identity.
RowsAreGranted ==
    \A i \in Identities :
        rows[i].owner # None => rows[i].fence = granted[i] /\ granted[i] # 0

GrantsAreCounted ==
    /\ \A i \in Identities : granted[i] <= counter
    /\ \A i, j \in Identities : granted[i] = granted[j] /\ granted[i] # 0 => i = j

PreparationsAreCounted ==
    \A o \in Owners, i \in Identities : prep[o][i].fence <= counter

FencesMatchRows ==
    \A o \in Owners, i, j \in Identities :
        rows[j].owner # None /\ prep[o][i].fence = rows[j].fence
            => o = rows[j].owner /\ i = j

CandidatesAreInstances ==
    \A o \in Owners, i \in Identities :
        prep[o][i].pc \in LockedPcs => prep[o][i].candidate \in Instances

FenceInv ==
    /\ RowsAreGranted
    /\ GrantsAreCounted
    /\ PreparationsAreCounted
    /\ FencesMatchRows
    /\ FencesAreUnique

\* What every step but a claim leaves alone: rows only disappear or change
\* their deadline, and preparations keep their fence or end.
RowsKept ==
    \A i \in Identities :
        \/ rows'[i].owner = None
        \/ rows'[i].owner = rows[i].owner /\ rows'[i].fence = rows[i].fence

PreparationsKept ==
    \A o \in Owners, i \in Identities : prep'[o][i].fence \in {0, prep[o][i].fence}

LEMMA FenceInit == Init => FenceInv
BY DEF Init, FenceInv, RowsAreGranted, GrantsAreCounted, PreparationsAreCounted, FencesMatchRows,
   FencesAreUnique, NoRow, NoPrep

LEMMA QuietStep ==
    ASSUME TypeOK, FenceInv, UNCHANGED <<counter, granted>>, RowsKept, PreparationsKept
    PROVE  FenceInv'
<1>1. ASSUME NEW o \in Owners, NEW i \in Identities
      PROVE  prep[o][i].fence \in Fences /\ prep[o][i] \in PrepSet
  BY DEF TypeOK, PrepSet
<1>2. RowsAreGranted'
  BY DEF FenceInv, RowsAreGranted, RowsKept
<1>3. GrantsAreCounted'
  BY DEF FenceInv, GrantsAreCounted
<1>4. PreparationsAreCounted'
  <2>1. counter \in Nat
    BY DEF TypeOK, Fences
  <2> QED
    BY <2>1 DEF FenceInv, PreparationsAreCounted, PreparationsKept
<1>5. FencesMatchRows'
  BY DEF FenceInv, FencesMatchRows, RowsAreGranted, PreparationsKept, RowsKept
<1>6. FencesAreUnique'
  BY DEF FenceInv, FencesAreUnique, PreparationsKept
<1> QED
  BY <1>2, <1>3, <1>4, <1>5, <1>6 DEF FenceInv

LEMMA ExpiryKeepsRows ==
    ASSUME NEW age, NEW i \in Identities
    PROVE  \/ WithoutExpired(age)[i].owner = None
           \/ WithoutExpired(age)[i] = rows[i]
BY DEF WithoutExpired, NoRow

LEMMA GotoKeepsFence ==
    ASSUME TypeOK, NEW o \in Owners, NEW i \in Identities, NEW pc, Goto(o, i, pc)
    PROVE  PreparationsKept
<1>1. ASSUME NEW p \in Owners, NEW j \in Identities
      PROVE  prep'[p][j].fence = prep[p][j].fence
  <2>1. prep[p][j] \in PrepSet /\ prep[o][i] \in PrepSet
    BY DEF TypeOK
  <2>2. prep' = [prep EXCEPT ![o][i] = [prep[o][i] EXCEPT !.pc = pc, !.age = 0]]
    BY DEF Goto
  <2>3. [prep[o][i] EXCEPT !.pc = pc, !.age = 0].fence = prep[o][i].fence
    BY <2>1 DEF PrepSet
  <2> QED
    BY <2>2, <2>3 DEF TypeOK
<1> QED
  BY <1>1 DEF PreparationsKept

LEMMA ClaimKeepsFences ==
    ASSUME TypeOK, FenceInv, NEW o \in Owners, NEW i \in Identities, Claim(o, i)
    PROVE  FenceInv'
<1> USE DEF catalog
<1>p. \A p \in Owners, j \in Identities : prep[p][j] \in PrepSet /\ prep[p][j].fence \in Nat
  BY DEF TypeOK, PrepSet, Fences
<1>g. counter \in Nat /\ \A j \in Identities : granted[j] \in Nat
  BY DEF TypeOK, Fences
<1>1. CASE BeginClaim(o, i) \/ ClaimRefused(o, i) \/ ClaimBusy(o, i) \/ RecordRefused(o, i)
  <2>1. RowsKept
    BY <1>1, ExpiryKeepsRows DEF BeginClaim, ClaimRefused, ClaimBusy, RecordRefused, RowsKept
  <2>2. \E r \in {NoPrep, [NoPrep EXCEPT !.pc = "claim"]} : prep' = [prep EXCEPT ![o][i] = r]
    BY <1>1 DEF BeginClaim, ClaimRefused, ClaimBusy, RecordRefused
  <2>3. PreparationsKept
    BY <2>2 DEF PreparationsKept, TypeOK, NoPrep
  <2>4. UNCHANGED <<counter, granted>>
    BY <1>1 DEF BeginClaim, ClaimRefused, ClaimBusy, RecordRefused
  <2> QED
    BY <2>1, <2>3, <2>4, QuietStep
<1>2. CASE RecordClaim(o, i)
  <2>1. PreparationsKept
    BY <1>2, GotoKeepsFence DEF RecordClaim
  <2> QED
    BY <1>2, <2>1, QuietStep DEF RecordClaim, RowsKept
<1>3. CASE ClaimExtended(o, i)
  <2> DEFINE live == WithoutExpired(prep[o][i].age)
  <2>1. live[i] = rows[i] /\ rows[i].owner = o
    BY <1>3, ExpiryKeepsRows DEF ClaimExtended
  <2>2. RowsKept
    <3>1. rows' = [live EXCEPT ![i].left = Later(live[i].left, TTL - prep[o][i].age)]
      BY <1>3 DEF ClaimExtended
    <3>2. prep[o][i].age \in 0..MaxWait
      BY <1>p DEF PrepSet
    <3>3. live \in [Identities -> RowSet]
      BY <3>2, WithoutExpiredType
    <3>4. ASSUME NEW j \in Identities
          PROVE  rows'[j].owner = live[j].owner /\ rows'[j].fence = live[j].fence
      <4> HIDE DEF live
      <4> QED
        BY <3>1, <3>3 DEF RowSet
    <3>5. ASSUME NEW j \in Identities PROVE live[j].owner = None \/ live[j] = rows[j]
      BY ExpiryKeepsRows
    <3> HIDE DEF live
    <3> QED
      BY <3>4, <3>5 DEF RowsKept
  <2>3. ASSUME NEW p \in Owners, NEW j \in Identities
        PROVE  prep'[p][j].fence = IF p = o /\ j = i THEN rows[i].fence ELSE prep[p][j].fence
    <3>1. prep' = [prep EXCEPT ![o][i] =
                      [prep[o][i] EXCEPT !.pc = "record", !.fence = rows[i].fence]]
      BY <1>3, <2>1 DEF ClaimExtended
    <3>2. [prep[o][i] EXCEPT !.pc = "record", !.fence = rows[i].fence].fence = rows[i].fence
      BY <1>p DEF PrepSet
    <3> QED
      BY <3>1, <3>2 DEF TypeOK
  <2>4. UNCHANGED <<counter, granted>>
    BY <1>3 DEF ClaimExtended
  <2>5. rows[i].fence = granted[i] /\ granted[i] # 0
    BY <2>1 DEF FenceInv, RowsAreGranted
  <2>6. RowsAreGranted' /\ GrantsAreCounted'
    BY <2>2, <2>4 DEF FenceInv, RowsAreGranted, GrantsAreCounted, RowsKept
  <2>7. PreparationsAreCounted'
    BY <2>3, <2>4, <2>5 DEF FenceInv, PreparationsAreCounted, GrantsAreCounted
  <2>8. FencesMatchRows'
    <3> SUFFICES ASSUME NEW p \in Owners, NEW j \in Identities, NEW k \in Identities,
                        rows'[k].owner # None, prep'[p][j].fence = rows'[k].fence
                 PROVE  p = rows'[k].owner /\ j = k
      BY DEF FencesMatchRows
    <3>1. rows'[k].owner = rows[k].owner /\ rows'[k].fence = rows[k].fence
      BY <2>2 DEF RowsKept
    <3>2. CASE p = o /\ j = i
      <4>1. granted[i] = granted[k]
        BY <2>3, <2>5, <3>1, <3>2 DEF FenceInv, RowsAreGranted
      <4> QED
        BY <4>1, <2>1, <2>5, <3>1, <3>2 DEF FenceInv, GrantsAreCounted
    <3>3. CASE ~(p = o /\ j = i)
      BY <2>3, <3>1, <3>3 DEF FenceInv, FencesMatchRows
    <3> QED
      BY <3>2, <3>3
  <2>9. FencesAreUnique'
    <3>1. ASSUME NEW p \in Owners, NEW j \in Identities, prep[p][j].fence = rows[i].fence
          PROVE  p = o /\ j = i
      BY <2>1, <3>1 DEF FenceInv, FencesMatchRows
    <3> QED
      BY <2>3, <3>1 DEF FenceInv, FencesAreUnique
  <2> QED
    BY <2>6, <2>7, <2>8, <2>9 DEF FenceInv
<1>4. CASE ClaimGranted(o, i)
  <2> DEFINE live == WithoutExpired(prep[o][i].age)
             row == [owner |-> o, fence |-> counter + 1, left |-> TTL - prep[o][i].age]
  <2>1. /\ counter' = counter + 1
        /\ granted' = [granted EXCEPT ![i] = counter + 1]
        /\ rows' = [live EXCEPT ![i] = row]
    BY <1>4 DEF ClaimGranted
  <2>2. ASSUME NEW j \in Identities
        PROVE  rows'[j] = IF j = i THEN row ELSE live[j]
    BY <2>1 DEF WithoutExpired
  <2>3. ASSUME NEW p \in Owners, NEW j \in Identities
        PROVE  prep'[p][j].fence = IF p = o /\ j = i THEN counter + 1 ELSE prep[p][j].fence
    <3>1. prep' = [prep EXCEPT ![o][i] =
                      [prep[o][i] EXCEPT !.pc = "record", !.fence = counter + 1]]
      BY <1>4 DEF ClaimGranted
    <3>2. [prep[o][i] EXCEPT !.pc = "record", !.fence = counter + 1].fence = counter + 1
      BY <1>p DEF PrepSet
    <3> QED
      BY <3>1, <3>2 DEF TypeOK
  <2>4. ASSUME NEW j \in Identities
        PROVE  granted'[j] = IF j = i THEN counter + 1 ELSE granted[j]
    BY <2>1 DEF TypeOK
  <2>5. ASSUME NEW j \in Identities PROVE live[j].owner = None \/ live[j] = rows[j]
    BY ExpiryKeepsRows
  <2>6. row.owner = o /\ row.fence = counter + 1
    OBVIOUS
  <2> HIDE DEF row, live
  <2>7. RowsAreGranted'
    BY <1>g, <2>2, <2>4, <2>5, <2>6 DEF FenceInv, RowsAreGranted
  <2>8. GrantsAreCounted'
    BY <1>g, <2>1, <2>4 DEF FenceInv, GrantsAreCounted
  <2>9. PreparationsAreCounted'
    BY <1>g, <1>p, <2>1, <2>3 DEF FenceInv, PreparationsAreCounted
  <2>10. FencesMatchRows'
    <3> SUFFICES ASSUME NEW p \in Owners, NEW j \in Identities, NEW k \in Identities,
                        rows'[k].owner # None, prep'[p][j].fence = rows'[k].fence
                 PROVE  p = rows'[k].owner /\ j = k
      BY DEF FencesMatchRows
    <3>1. prep[p][j].fence <= counter /\ granted[k] <= counter
      BY DEF FenceInv, PreparationsAreCounted, GrantsAreCounted
    <3>2. CASE k = i
      BY <1>g, <1>p, <2>2, <2>3, <2>6, <3>1, <3>2
    <3>3. CASE k # i
      <4>1. rows'[k] = rows[k] /\ rows[k].owner # None
        BY <2>2, <2>5, <3>3
      <4>2. rows[k].fence = granted[k]
        BY <4>1 DEF FenceInv, RowsAreGranted
      <4>3. prep'[p][j].fence = prep[p][j].fence
        BY <1>g, <2>3, <3>1, <4>1, <4>2
      <4> QED
        BY <4>1, <4>3 DEF FenceInv, FencesMatchRows
    <3> QED
      BY <3>2, <3>3
  <2>11. FencesAreUnique'
    <3> SUFFICES ASSUME NEW p \in Owners, NEW q \in Owners, NEW j \in Identities, NEW k \in Identities,
                        prep'[p][j].fence = prep'[q][k].fence, prep'[p][j].fence # 0
                 PROVE  p = q /\ j = k
      BY DEF FencesAreUnique
    <3>1. prep[p][j].fence <= counter /\ prep[q][k].fence <= counter
      BY DEF FenceInv, PreparationsAreCounted
    <3> QED
      BY <1>g, <1>p, <2>3, <3>1 DEF FenceInv, FencesAreUnique
  <2> QED
    BY <2>7, <2>8, <2>9, <2>10, <2>11 DEF FenceInv
<1> QED
  BY <1>1, <1>2, <1>3, <1>4 DEF Claim

LEMMA RetentionKeepsRows ==
    ASSUME TypeOK, NEW evicted, ApplyRetention(evicted)
    PROVE  RowsKept
BY ExpiryKeepsRows DEF ApplyRetention, RowsKept

LEMMA WorkIsQuiet ==
    ASSUME TypeOK, NEW o \in Owners, NEW i \in Identities, Work(o, i) \/ Release(o, i)
    PROVE  UNCHANGED <<counter, granted>> /\ RowsKept /\ PreparationsKept
<1> USE DEF catalog
<1>p. \A p \in Owners, j \in Identities : prep[p][j] \in PrepSet
  BY SMTT(60) DEF TypeOK
<1>1. UNCHANGED <<counter, granted>>
  BY DEF Work, Release, ReuseExact, LookupExact, StageExport, EnterCommit, Admit, CheckCommit,
     Install, CommitGeneration, Abort, CloseReservation, FlushReleases
<1>2. RowsKept
  <2>1. CASE Admit(o, i)
    BY <2>1, RetentionKeepsRows DEF Admit
  <2>2. CASE ~Admit(o, i)
    <3>1. UNCHANGED rows
      BY <2>2 DEF Work, Release, ReuseExact, LookupExact, StageExport, EnterCommit, CheckCommit,
         Install, CommitGeneration, Abort, CloseReservation, FlushReleases
    <3> QED
      BY SMTT(60), <3>1 DEF RowsKept
  <2> QED
    BY <2>1, <2>2
<1>3. PreparationsKept
  <2>1. CASE \E pc : Goto(o, i, pc)
    BY <2>1, GotoKeepsFence
  <2>2. CASE LookupExact(o, i)
    <3>1. [prep[o][i] EXCEPT !.pc = "planned", !.observed = current[i]].fence = prep[o][i].fence
      BY <1>p DEF PrepSet
    <3> QED
      BY <2>2, <3>1 DEF LookupExact, PreparationsKept, TypeOK
  <2>3. CASE EnterCommit(o, i)
    <3>1. PICK v \in Instances :
              prep' = [prep EXCEPT ![o][i] = [prep[o][i] EXCEPT !.pc = "admit", !.candidate = v]]
      BY <2>3 DEF EnterCommit
    <3>2. [prep[o][i] EXCEPT !.pc = "admit", !.candidate = v].fence = prep[o][i].fence
      BY <1>p DEF PrepSet
    <3> QED
      BY <3>1, <3>2 DEF PreparationsKept, TypeOK
  <2>4. CASE CloseReservation(o, i) \/ FlushReleases(o, i)
    <3>1. NoPrep.fence = 0 /\ [NoPrep EXCEPT !.pc = "flush"].fence = 0
      BY DEF NoPrep
    <3>2. PICK r \in {NoPrep, [NoPrep EXCEPT !.pc = "flush"]} : prep' = [prep EXCEPT ![o][i] = r]
      BY <2>4 DEF CloseReservation, FlushReleases
    <3>3. r.fence = 0
      BY <3>1
    <3> QED
      BY <3>2, <3>3 DEF PreparationsKept, TypeOK
  <2>5. \/ \E pc : Goto(o, i, pc)
        \/ LookupExact(o, i) \/ EnterCommit(o, i)
        \/ CloseReservation(o, i) \/ FlushReleases(o, i)
    BY DEF Work, Release, ReuseExact, StageExport, Admit, CheckCommit, Install, CommitGeneration, Abort
  <2> QED
    BY <2>1, <2>2, <2>3, <2>4, <2>5
<1> QED
  BY <1>1, <1>2, <1>3

LEMMA OtherIsQuiet ==
    ASSUME TypeOK,
           \/ \E o \in Owners : Heartbeat(o) \/ CloseManager(o) \/ Crash(o)
           \/ Prune
           \/ \E i \in Identities : RecoverCorrupt(i)
           \/ Tick
    PROVE  UNCHANGED <<counter, granted>> /\ RowsKept /\ PreparationsKept
<1> USE DEF catalog
<1>p. \A p \in Owners, j \in Identities : prep[p][j] \in PrepSet
  BY DEF TypeOK
<1>r. \A j \in Identities : rows[j] \in RowSet
  BY SMTT(60) DEF TypeOK
<1>1. UNCHANGED <<counter, granted>>
  BY ZenonT(60) DEF Heartbeat, BeatSnapshot, BeatRelease, BeatStart, BeatUpdate, BeatConfirm, BeatBusy,
     BeatFail, BeatStop, CloseManager, Crash, Prune, RecoverCorrupt, Tick
<1>2. RowsKept
  <2>1. CASE \E o \in Owners : BeatRelease(o)
    BY <2>1 DEF BeatRelease, RowsKept, NoRow
  <2>2. CASE \E o \in Owners : BeatUpdate(o)
    <3>1. PICK o \in Owners : BeatUpdate(o)
      BY <2>2
    <3> DEFINE renewed == {i \in Identities : /\ beat[o].renew[i] # 0
                                              /\ rows[i].owner = o
                                              /\ rows[i].left > 0}
               left(i) == Later(rows[i].left, TTL - beat[o].age)
    <3>2. rows' = [i \in Identities |-> IF i \in renewed
                                        THEN [rows[i] EXCEPT !.left = left(i)] ELSE rows[i]]
      BY <3>1 DEF BeatUpdate
    <3> HIDE DEF renewed, left
    <3> QED
      BY <3>2, <1>r DEF RowsKept, RowSet
  <2>3. CASE Prune
    BY <2>3, RetentionKeepsRows DEF Prune
  <2>4. CASE Tick
    <3>1. rows' = [i \in Identities |->
                      IF rows[i].owner = None THEN rows[i]
                      ELSE [rows[i] EXCEPT !.left = Less(rows[i].left, -MaxWait)]]
      BY <2>4 DEF Tick
    <3> QED
      BY <3>1, <1>r DEF RowsKept, RowSet
  <2>5. CASE UNCHANGED rows
    BY <2>5 DEF RowsKept
  <2>6. \/ \E o \in Owners : BeatRelease(o)
        \/ \E o \in Owners : BeatUpdate(o)
        \/ Prune \/ Tick \/ UNCHANGED rows
    BY DEF Heartbeat, BeatSnapshot, BeatStart, BeatConfirm, BeatBusy, BeatFail, BeatStop,
       CloseManager, Crash, RecoverCorrupt
  <2> QED
    BY <2>1, <2>2, <2>3, <2>4, <2>5, <2>6
<1>3. PreparationsKept
  <2>1. CASE \E o \in Owners : Crash(o)
    BY <2>1 DEF Crash, PreparationsKept, NoPrep, TypeOK
  <2>2. CASE Tick
    <3>1. ASSUME NEW o \in Owners, NEW i \in Identities
          PROVE  prep'[o][i].fence = prep[o][i].fence
      <4>1. [prep[o][i] EXCEPT !.age = Older(prep[o][i].age)].fence = prep[o][i].fence
        BY <1>p DEF PrepSet
      <4> QED
        BY <2>2, <4>1 DEF Tick
    <3> QED
      BY <3>1 DEF PreparationsKept
  <2>3. CASE UNCHANGED prep
    BY SMTT(60), <2>3 DEF PreparationsKept
  <2>4. (\E o \in Owners : Crash(o)) \/ Tick \/ UNCHANGED prep
    BY DEF Heartbeat, BeatSnapshot, BeatRelease, BeatStart, BeatUpdate, BeatConfirm, BeatBusy,
       BeatFail, BeatStop, CloseManager, Prune, RecoverCorrupt
  <2> QED
    BY <2>1, <2>2, <2>3, <2>4
<1> QED
  BY <1>1, <1>2, <1>3

LEMMA FenceStep ==
    ASSUME TypeOK, FenceInv, [Next]_vars
    PROVE  FenceInv'
<1>1. CASE UNCHANGED vars
  BY <1>1, QuietStep DEF vars, RowsKept, PreparationsKept
<1>2. CASE \E o \in Owners, i \in Identities : Claim(o, i)
  BY <1>2, ClaimKeepsFences
<1>3. CASE \E o \in Owners, i \in Identities : Work(o, i) \/ Release(o, i)
  BY <1>3, WorkIsQuiet, QuietStep
<1>4. CASE \/ \E o \in Owners : Heartbeat(o) \/ CloseManager(o) \/ Crash(o)
           \/ Prune
           \/ \E i \in Identities : RecoverCorrupt(i)
           \/ Tick
  BY <1>4, OtherIsQuiet, QuietStep
<1> QED
  BY <1>1, <1>2, <1>3, <1>4 DEF Next

\* No two preparations, of whatever owners and identities, ever have the same
\* fence: counter and rows never give one out twice.
THEOREM FencesUnique == Spec => []FencesAreUnique
<1>1. FenceInv => FencesAreUnique
  BY DEF FenceInv
<1> QED
  BY <1>1, TypeInit, FenceInit, TypeStep, FenceStep, PTL DEF Spec

-----------------------------------------------------------------------------
(* Commits are fenced: ReservationFence implements FencedPointer *)

LEMMA GotoKeepsCandidates ==
    ASSUME TypeOK, CandidatesAreInstances,
           NEW o \in Owners, NEW i \in Identities, NEW pc, Goto(o, i, pc),
           pc \in LockedPcs => prep[o][i].pc \in LockedPcs
    PROVE  CandidatesAreInstances'
<1>1. ASSUME NEW p \in Owners, NEW j \in Identities, prep'[p][j].pc \in LockedPcs
      PROVE  prep'[p][j].candidate = prep[p][j].candidate /\ prep[p][j].pc \in LockedPcs
  <2>1. prep[o][i] \in PrepSet
    BY DEF TypeOK
  <2>2. prep' = [prep EXCEPT ![o][i] = [prep[o][i] EXCEPT !.pc = pc, !.age = 0]]
    BY DEF Goto
  <2>3. /\ [prep[o][i] EXCEPT !.pc = pc, !.age = 0].candidate = prep[o][i].candidate
        /\ [prep[o][i] EXCEPT !.pc = pc, !.age = 0].pc = pc
    BY <2>1 DEF PrepSet
  <2> QED
    BY <1>1, <2>2, <2>3 DEF TypeOK
<1> QED
  BY <1>1 DEF CandidatesAreInstances

LEMMA CandidatesInit == Init => CandidatesAreInstances
BY DEF Init, CandidatesAreInstances, NoPrep, LockedPcs

LEMMA CandidatesStep ==
    ASSUME TypeOK, CandidatesAreInstances, [Next]_vars
    PROVE  CandidatesAreInstances'
<1> USE DEF catalog
<1>p. \A p \in Owners, j \in Identities : prep[p][j] \in PrepSet
  BY DEF TypeOK
<1>1. ASSUME NEW o \in Owners, NEW i \in Identities, NEW r,
             prep' = [prep EXCEPT ![o][i] = r],
             r.pc \notin LockedPcs \/ r.candidate \in Instances
      PROVE  CandidatesAreInstances'
  BY <1>1 DEF CandidatesAreInstances, TypeOK
<1>2. ASSUME NEW o \in Owners, NEW i \in Identities, Claim(o, i)
      PROVE  CandidatesAreInstances'
  <2>1. CASE RecordClaim(o, i)
    BY <2>1, GotoKeepsCandidates DEF RecordClaim, LockedPcs
  <2>2. CASE BeginClaim(o, i)
    <3>1. [NoPrep EXCEPT !.pc = "claim"].pc = "claim"
      BY DEF NoPrep
    <3> QED
      BY <2>2, <3>1, <1>1 DEF BeginClaim, LockedPcs
  <2>3. CASE ClaimRefused(o, i) \/ ClaimBusy(o, i) \/ RecordRefused(o, i)
    <3>1. NoPrep.pc = "idle"
      BY DEF NoPrep
    <3> QED
      BY <2>3, <3>1, <1>1 DEF ClaimRefused, ClaimBusy, RecordRefused, LockedPcs
  <2>4. CASE ClaimExtended(o, i) \/ ClaimGranted(o, i)
    <3>1. PICK f : prep' = [prep EXCEPT ![o][i] =
                               [prep[o][i] EXCEPT !.pc = "record", !.fence = f]]
      BY <2>4 DEF ClaimExtended, ClaimGranted
    <3>2. [prep[o][i] EXCEPT !.pc = "record", !.fence = f].pc = "record"
      BY <1>p DEF PrepSet
    <3> QED
      BY <3>1, <3>2, <1>1 DEF LockedPcs
  <2> QED
    BY <1>2, <2>1, <2>2, <2>3, <2>4 DEF Claim
<1>3. ASSUME NEW o \in Owners, NEW i \in Identities, Work(o, i) \/ Release(o, i)
      PROVE  CandidatesAreInstances'
  <2>1. CASE EnterCommit(o, i)
    <3>1. PICK v \in Instances :
              prep' = [prep EXCEPT ![o][i] = [prep[o][i] EXCEPT !.pc = "admit", !.candidate = v]]
      BY <2>1 DEF EnterCommit
    <3>2. [prep[o][i] EXCEPT !.pc = "admit", !.candidate = v].candidate = v
      BY <1>p DEF PrepSet
    <3> QED
      BY <3>1, <3>2, <1>1
  <2>2. CASE LookupExact(o, i)
    <3>1. [prep[o][i] EXCEPT !.pc = "planned", !.observed = current[i]].pc = "planned"
      BY <1>p DEF PrepSet
    <3>2. prep' = [prep EXCEPT ![o][i] =
                      [prep[o][i] EXCEPT !.pc = "planned", !.observed = current[i]]]
      BY <2>2 DEF LookupExact
    <3> QED
      BY <3>1, <3>2, <1>1 DEF LockedPcs
  <2>3. CASE CloseReservation(o, i) \/ FlushReleases(o, i)
    <3>1. NoPrep.pc = "idle" /\ [NoPrep EXCEPT !.pc = "flush"].pc = "flush"
      BY DEF NoPrep
    <3>2. \/ prep' = [prep EXCEPT ![o][i] = NoPrep]
          \/ prep' = [prep EXCEPT ![o][i] = [NoPrep EXCEPT !.pc = "flush"]]
      BY <2>3 DEF CloseReservation, FlushReleases
    <3> QED
      BY <3>1, <3>2, <1>1 DEF LockedPcs
  <2>4. CASE ReuseExact(o, i) \/ StageExport(o, i) \/ CommitGeneration(o, i) \/ Abort(o, i)
    BY <2>4, GotoKeepsCandidates DEF ReuseExact, StageExport, CommitGeneration, Abort, LockedPcs
  <2>5. CASE Admit(o, i) \/ CheckCommit(o, i) \/ Install(o, i)
    BY <2>5, GotoKeepsCandidates DEF Admit, CheckCommit, Install, LockedPcs
  <2> QED
    BY <1>3, <2>1, <2>2, <2>3, <2>4, <2>5 DEF Work, Release
<1>4. ASSUME NEW o \in Owners, Crash(o)
      PROVE  CandidatesAreInstances'
  <2>1. NoPrep.pc \notin LockedPcs
    BY DEF NoPrep, LockedPcs
  <2> QED
    BY <1>4, <2>1 DEF Crash, CandidatesAreInstances, TypeOK
<1>5. CASE Tick
  <2>1. ASSUME NEW o \in Owners, NEW i \in Identities
        PROVE  /\ prep'[o][i].pc = prep[o][i].pc
               /\ prep'[o][i].candidate = prep[o][i].candidate
    <3>1. /\ [prep[o][i] EXCEPT !.age = Older(prep[o][i].age)].pc = prep[o][i].pc
          /\ [prep[o][i] EXCEPT !.age = Older(prep[o][i].age)].candidate = prep[o][i].candidate
      BY <1>p DEF PrepSet
    <3> QED
      BY <1>5, <3>1 DEF Tick
  <2> QED
    BY <2>1 DEF CandidatesAreInstances
<1>6. CASE UNCHANGED prep
  BY SMTT(60), <1>6 DEF CandidatesAreInstances
<1>7. \/ \E o \in Owners, i \in Identities : Claim(o, i) \/ Work(o, i) \/ Release(o, i)
      \/ \E o \in Owners : Crash(o)
      \/ Tick
      \/ UNCHANGED prep
  BY DEF Next, vars, Heartbeat, BeatSnapshot, BeatRelease, BeatStart, BeatUpdate, BeatConfirm,
     BeatBusy, BeatFail, BeatStop, CloseManager, Prune, RecoverCorrupt
<1> QED
  BY <1>2, <1>3, <1>4, <1>5, <1>6, <1>7

LEMMA RetentionClears ==
    ASSUME TypeOK, NEW evicted \in SUBSET Identities, ApplyRetention(evicted),
           UNCHANGED <<granted, committed>>
    PROVE  Pointer!Clear
BY DEF ApplyRetention, Pointer!Clear

LEMMA PointerInit == Init => Pointer!Init
BY DEF Init, Pointer!Init

LEMMA PointerStep ==
    ASSUME TypeOK, FenceInv, CandidatesAreInstances, [Next]_vars
    PROVE  [Pointer!Next]_(Pointer!vars)
<1> USE DEF catalog
<1>g. counter \in Nat /\ \A j \in Identities : granted[j] \in Nat
  BY DEF TypeOK, Fences
<1>1. ASSUME NEW o \in Owners, NEW i \in Identities, ClaimGranted(o, i)
      PROVE  Pointer!Grant(i)
  <2>1. granted' = [granted EXCEPT ![i] = counter + 1] /\ UNCHANGED <<committed, current>>
    BY <1>1 DEF ClaimGranted
  <2>2. granted'[i] = counter + 1
    BY <2>1 DEF TypeOK
  <2>3. ASSUME NEW j \in Identities PROVE granted'[i] > granted[j]
    BY <1>g, <2>2 DEF FenceInv, GrantsAreCounted
  <2> QED
    <3>1. granted'[i] \in Nat
      BY <1>g, <2>2
    <3>2. granted' = [granted EXCEPT ![i] = granted'[i]]
      BY <2>1, <2>2
    <3> QED
      BY <3>1, <3>2, <2>1, <2>3 DEF Pointer!Grant
<1>2. ASSUME NEW o \in Owners, NEW i \in Identities, CommitGeneration(o, i)
      PROVE  Pointer!Commit(i)
  <2>1. rows[i].owner = o /\ rows[i].fence = prep[o][i].fence
    BY <1>2 DEF CommitGeneration, RequireReservation
  <2>2. prep[o][i].fence = granted[i] /\ granted[i] # 0
    BY <2>1 DEF FenceInv, RowsAreGranted
  <2>3. prep[o][i].candidate \in Instances
    BY <1>2 DEF CommitGeneration, CandidatesAreInstances, LockedPcs
  <2> QED
    BY <1>2, <2>2, <2>3 DEF CommitGeneration, Pointer!Commit
<1>3. ASSUME NEW o \in Owners, NEW i \in Identities, Admit(o, i)
      PROVE  Pointer!Clear
  BY <1>3, RetentionClears DEF Admit
<1>4. CASE Prune
  <2>1. Pointer!Clear
    BY <1>4, RetentionClears DEF Prune
  <2> QED
    BY <2>1 DEF Pointer!Next
<1>5. ASSUME NEW i \in Identities, RecoverCorrupt(i)
      PROVE  Pointer!Clear
  <2>1. current' = [j \in Identities |-> IF j \in {i} THEN None ELSE current[j]]
    BY <1>5 DEF RecoverCorrupt, TypeOK
  <2>2. {i} \in SUBSET Identities
    OBVIOUS
  <2> QED
    BY <1>5, <2>1, <2>2 DEF RecoverCorrupt, Pointer!Clear
<1>6. \/ \E o \in Owners, i \in Identities :
             ClaimGranted(o, i) \/ CommitGeneration(o, i) \/ Admit(o, i)
      \/ Prune
      \/ \E i \in Identities : RecoverCorrupt(i)
      \/ UNCHANGED <<granted, committed, current>>
  <2>1. ASSUME NEW o \in Owners, NEW i \in Identities, Claim(o, i), ~ClaimGranted(o, i)
        PROVE  UNCHANGED <<granted, committed, current>>
    BY SMTT(60), <2>1 DEF Claim, BeginClaim, ClaimRefused, ClaimExtended, ClaimBusy, RecordClaim, RecordRefused
  <2>2. ASSUME NEW o \in Owners, NEW i \in Identities, Work(o, i) \/ Release(o, i),
               ~CommitGeneration(o, i), ~Admit(o, i)
        PROVE  UNCHANGED <<granted, committed, current>>
    BY <2>2 DEF Work, Release, ReuseExact, LookupExact, StageExport, EnterCommit, CheckCommit,
       Install, Abort, CloseReservation, FlushReleases
  <2>3. ASSUME NEW o \in Owners, Heartbeat(o) \/ CloseManager(o) \/ Crash(o)
        PROVE  UNCHANGED <<granted, committed, current>>
    BY <2>3 DEF Heartbeat, BeatSnapshot, BeatRelease, BeatStart, BeatUpdate, BeatConfirm, BeatBusy,
       BeatFail, BeatStop, CloseManager, Crash
  <2>4. CASE Tick \/ UNCHANGED vars
    BY <2>4 DEF Tick, vars
  <2> QED
    BY SMTT(60), <2>1, <2>2, <2>3, <2>4 DEF Next
<1> QED
  BY <1>1, <1>2, <1>3, <1>4, <1>5, <1>6 DEF Pointer!Next, Pointer!vars

\* Every pointer is set under the fence given out last for its identity, and
\* fences only grow: a worker whose reservation was taken over cannot replace
\* the generation of a newer one, however the two interleave.
THEOREM CommitsAreFenced == Spec => ImplementsFencedPointer
<1> DEFINE Inv == TypeOK /\ FenceInv /\ CandidatesAreInstances
<1>1. Init => Inv
  BY TypeInit, FenceInit, CandidatesInit
<1>2. Inv /\ [Next]_vars => Inv'
  BY TypeStep, FenceStep, CandidatesStep
<1>3. Inv /\ [Next]_vars => [Pointer!Next]_(Pointer!vars)
  BY PointerStep
<1> QED
  BY <1>1, <1>2, <1>3, PointerInit, PTL DEF Spec, ImplementsFencedPointer, Pointer!Spec

-----------------------------------------------------------------------------
(* Reservations hold: the inductive invariant *)

\* A manager believes in a reservation only while its preparation is at work.
HeldIsPrepared ==
    \A o \in Owners, i \in Identities :
        held[o][i] = NoHold \/ (/\ prep[o][i].pc \in WorkingPcs \cup {"closing"}
                                /\ held[o][i].fence = prep[o][i].fence)

\* What the heartbeat has been asked to release is waited for by flush_releases,
\* so that nobody claims the identity again before.
ReleasesAreAwaited ==
    \A o \in Owners :
        /\ beat[o].pc = "idle" => beat[o].releases = {}
        /\ status[o] = "open" =>
               \A i \in pending[o] \cup beat[o].releases : prep[o][i].pc = "flush"

\* The row of o for i lives at least that long.
Backed(o, i, left) == rows[i].owner = o /\ rows[i].left >= left

\* A claim that its manager has not recorded yet, a renewal that it has not
\* confirmed yet, and what it believes in, are in the table with the deadlines
\* that will be recorded.
ClaimIsDurable(o, i) ==
    status[o] = "open" /\ prep[o][i].pc = "record" /\ prep[o][i].age < TTL =>
        Backed(o, i, TTL - prep[o][i].age) /\ rows[i].fence = prep[o][i].fence

RenewalIsDurable(o, i) ==
    beat[o].pc = "confirm" /\ beat[o].renew[i] # 0 /\ i \notin beat[o].lost /\ beat[o].age < TTL =>
        Backed(o, i, TTL - beat[o].age)

HoldIsDurable(o, i) ==
    status[o] = "open" /\ held[o][i].fence # 0 /\ held[o][i].left > 0 =>
        Backed(o, i, held[o][i].left) /\ rows[i].fence = held[o][i].fence

DeadlinesAreDurable ==
    \A o \in Owners, i \in Identities :
        ClaimIsDurable(o, i) /\ RenewalIsDurable(o, i) /\ HoldIsDurable(o, i)

ReservationInv == HeldIsPrepared /\ ReleasesAreAwaited /\ DeadlinesAreDurable

LEMMA ReservationInit == Init => ReservationInv
BY DEF Init, ReservationInv, HeldIsPrepared, ReleasesAreAwaited, DeadlinesAreDurable,
   ClaimIsDurable, RenewalIsDurable, HoldIsDurable, NoHold, NoBeat, NoPrep

\* Ranges that the arithmetic of deadlines needs
LEMMA DeadlineFacts ==
    ASSUME TypeOK, NEW o \in Owners, NEW i \in Identities
    PROVE  /\ rows[i].left \in Int /\ held[o][i].left \in Nat /\ TTL \in Nat
           /\ prep[o][i].age \in Nat /\ beat[o].age \in Nat
           /\ prep[o][i] \in PrepSet /\ held[o][i] \in HoldSet /\ beat[o] \in BeatSet
           /\ rows[i] \in RowSet
<1>1. /\ prep[o][i] \in PrepSet /\ held[o][i] \in HoldSet /\ beat[o] \in BeatSet
      /\ rows[i] \in RowSet
  BY DEF TypeOK
<1> QED
  BY <1>1 DEF PrepSet, HoldSet, BeatSet, RowSet

\* A row that has not expired is neither deleted nor given to another owner.
RowsLive ==
    \A i \in Identities :
        rows[i].owner # None /\ rows[i].left > 0 =>
            /\ rows'[i].owner = rows[i].owner /\ rows'[i].fence = rows[i].fence
            /\ rows'[i].left >= rows[i].left

LEMMA ExpiryKeepsLive ==
    ASSUME TypeOK, NEW age \in Nat, NEW i \in Identities, rows[i].left > 0
    PROVE  WithoutExpired(age)[i] = rows[i]
<1>1. rows[i].left \in Int
  BY DEF TypeOK, RowSet
<1> QED
  BY <1>1 DEF WithoutExpired

LEMMA RowUnchanged ==
    ASSUME TypeOK, \A i \in Identities : rows[i].left > 0 => rows'[i] = rows[i]
    PROVE  RowsLive
<1>1. \A i \in Identities : rows[i].left \in Int
  BY DEF TypeOK, RowSet
<1> QED
  BY <1>1 DEF RowsLive

LEMMA RetentionLive ==
    ASSUME TypeOK, NEW evicted, ApplyRetention(evicted)
    PROVE  RowsLive
BY ExpiryKeepsLive, RowUnchanged DEF ApplyRetention

LEMMA ClaimLive ==
    ASSUME TypeOK, NEW o \in Owners, NEW i \in Identities, Claim(o, i)
    PROVE  RowsLive
<1> USE DEF catalog
<1> DEFINE age == prep[o][i].age
           live == WithoutExpired(age)
<1>1. age \in 0..MaxWait /\ age \in Nat
  BY DEF TypeOK, PrepSet
<1>2. live \in [Identities -> RowSet]
  BY <1>1, WithoutExpiredType
<1>3. \A j \in Identities : rows[j].left > 0 => live[j] = rows[j]
  BY <1>1, ExpiryKeepsLive
<1>r. \A j \in Identities : rows[j] \in RowSet /\ rows[j].left \in Int
  BY DEF TypeOK, RowSet
<1>4. CASE ClaimExtended(o, i)
  <2>1. rows' = [live EXCEPT ![i].left = Later(live[i].left, TTL - age)]
    BY <1>4 DEF ClaimExtended
  <2> HIDE DEF live, age
  <2>2. /\ \A j \in Identities : j # i => rows'[j] = live[j]
        /\ rows'[i].owner = live[i].owner /\ rows'[i].fence = live[i].fence
        /\ rows'[i].left = Later(live[i].left, TTL - age)
    BY <1>2, <2>1 DEF RowSet
  <2>3. live[i].left \in Int
    BY <1>2 DEF RowSet
  <2>4. Later(live[i].left, TTL - age) >= live[i].left
    BY <1>1, <2>3 DEF Later
  <2> QED
    BY <1>3, <1>r, <2>2, <2>4 DEF RowsLive
<1>5. CASE ClaimGranted(o, i)
  <2>1. live[i].owner = None /\ \A j \in Identities : j # i => rows'[j] = live[j]
    BY <1>5, <1>2 DEF ClaimGranted
  <2> HIDE DEF live, age
  <2> QED
    BY <1>3, <1>r, <2>1 DEF RowsLive
<1>6. CASE ClaimRefused(o, i)
  BY <1>6, <1>3, RowUnchanged DEF ClaimRefused
<1>7. CASE BeginClaim(o, i) \/ ClaimBusy(o, i) \/ RecordClaim(o, i) \/ RecordRefused(o, i)
  BY <1>7, RowUnchanged DEF BeginClaim, ClaimBusy, RecordClaim, RecordRefused
<1> QED
  BY <1>4, <1>5, <1>6, <1>7 DEF Claim

LEMMA UpdateLive ==
    ASSUME TypeOK, NEW o \in Owners, BeatUpdate(o)
    PROVE  /\ RowsLive
           /\ beat'[o].pc = "confirm" /\ beat'[o].age = beat[o].age
           /\ \A i \in Identities :
                  beat'[o].renew[i] # 0 /\ i \notin beat'[o].lost => (Backed(o, i, TTL - beat[o].age))'
           /\ \A p \in Owners : p # o => beat'[p] = beat[p]
<1> DEFINE renewed == {i \in Identities : /\ beat[o].renew[i] # 0
                                          /\ rows[i].owner = o
                                          /\ rows[i].left > 0}
           left(i) == Later(rows[i].left, TTL - beat[o].age)
           lost == {i \in Identities : beat[o].renew[i] # 0} \ renewed
<1>1. /\ rows' = [i \in Identities |-> IF i \in renewed
                                       THEN [rows[i] EXCEPT !.left = left(i)] ELSE rows[i]]
      /\ beat' = [beat EXCEPT ![o] = [beat[o] EXCEPT !.pc = "confirm", !.lost = lost]]
  BY DEF BeatUpdate
<1>2. \A i \in renewed : i \in Identities /\ rows[i].owner = o
  OBVIOUS
<1>3. \A i \in Identities : beat[o].renew[i] # 0 /\ i \notin lost => i \in renewed
  OBVIOUS
<1>4. \A i \in Identities : /\ rows[i] \in RowSet
                            /\ left(i) \in Int /\ left(i) >= rows[i].left
                            /\ left(i) >= TTL - beat[o].age
  BY DeadlineFacts DEF Later
<1>5. beat[o] \in BeatSet
  BY DEF TypeOK
<1> HIDE DEF renewed, left, lost
<1>6. \A i \in Identities :
          IF i \in renewed THEN /\ rows'[i].owner = rows[i].owner /\ rows'[i].fence = rows[i].fence
                                /\ rows'[i].left = left(i)
                           ELSE rows'[i] = rows[i]
  BY <1>1, <1>4 DEF RowSet
<1>7. /\ beat'[o].pc = "confirm" /\ beat'[o].age = beat[o].age
      /\ beat'[o].renew = beat[o].renew /\ beat'[o].lost = lost
      /\ \A p \in Owners : p # o => beat'[p] = beat[p]
  BY <1>1, <1>5 DEF BeatSet, TypeOK
<1>8. RowsLive
  <2>1. \A i \in Identities : rows[i].left \in Int
    BY <1>4 DEF RowSet
  <2> QED
    BY <1>4, <1>6, <2>1 DEF RowsLive
<1>9. ASSUME NEW i \in Identities, beat'[o].renew[i] # 0, i \notin beat'[o].lost
      PROVE  (Backed(o, i, TTL - beat[o].age))'
  <2>1. i \in renewed
    BY <1>3, <1>7, <1>9
  <2>2. rows'[i].owner = o /\ rows'[i].left >= TTL - beat[o].age
    BY <1>2, <1>4, <1>6, <2>1
  <2> QED
    BY <1>7, <2>2 DEF Backed
<1> QED
  BY <1>7, <1>8, <1>9

\* Steps that leave the live rows alone, and record or confirm nothing new
LEMMA DurableStays ==
    ASSUME TypeOK, TypeOK', DeadlinesAreDurable, RowsLive,
           \A o \in Owners : status'[o] = "open" => status[o] = "open",
           \A o \in Owners, i \in Identities :
               /\ prep'[o][i] = prep[o][i] \/ ClaimIsDurable(o, i)'
               /\ held'[o][i] = held[o][i] \/ HoldIsDurable(o, i)'
               /\ beat'[o] = beat[o] \/ RenewalIsDurable(o, i)'
    PROVE  DeadlinesAreDurable'
<1> SUFFICES ASSUME NEW o \in Owners, NEW i \in Identities
             PROVE  ClaimIsDurable(o, i)' /\ RenewalIsDurable(o, i)' /\ HoldIsDurable(o, i)'
  BY DEF DeadlinesAreDurable
<1>1. ClaimIsDurable(o, i) /\ RenewalIsDurable(o, i) /\ HoldIsDurable(o, i)
  BY DEF DeadlinesAreDurable
<1>2. rows[i].left \in Int /\ rows'[i].left \in Int
  BY DEF TypeOK, RowSet
<1>3. ASSUME NEW left \in Int, left > 0, Backed(o, i, left)
      PROVE  Backed(o, i, left)' /\ rows'[i].fence = rows[i].fence
  <2>1. rows[i].owner = o /\ rows[i].left > 0 /\ rows[i].left >= left /\ o # None
    BY <1>2, <1>3, NoneAssumption DEF Backed
  <2>2. rows'[i].owner = o /\ rows'[i].fence = rows[i].fence /\ rows'[i].left >= rows[i].left
    BY <2>1 DEF RowsLive
  <2> QED
    BY <1>2, <2>1, <2>2 DEF Backed
<1>d. /\ TTL - prep[o][i].age \in Int /\ TTL - beat[o].age \in Int
      /\ prep[o][i].age < TTL => TTL - prep[o][i].age > 0
      /\ beat[o].age < TTL => TTL - beat[o].age > 0
      /\ held[o][i].left \in Int
  BY DeadlineFacts
<1>4. ClaimIsDurable(o, i)'
  <2>1. CASE prep'[o][i] = prep[o][i]
    BY <1>1, <1>3, <1>d, <2>1 DEF ClaimIsDurable, Backed
  <2> QED
    BY <2>1
<1>5. RenewalIsDurable(o, i)'
  <2>1. CASE beat'[o] = beat[o]
    BY <1>1, <1>3, <1>d, <2>1 DEF RenewalIsDurable, Backed
  <2> QED
    BY <2>1
<1>6. HoldIsDurable(o, i)'
  <2>1. CASE held'[o][i] = held[o][i]
    BY <1>1, <1>3, <1>d, <2>1 DEF HoldIsDurable, Backed
  <2> QED
    BY <2>1
<1> QED
  BY <1>4, <1>5, <1>6

LEMMA NothingToBack ==
    ASSUME TypeOK, NEW o \in Owners, NEW i \in Identities
    PROVE  /\ prep'[o][i].pc # "record" => ClaimIsDurable(o, i)'
           /\ held'[o][i] = NoHold => HoldIsDurable(o, i)'
           /\ beat'[o].pc # "confirm" => RenewalIsDurable(o, i)'
BY DEF ClaimIsDurable, HoldIsDurable, RenewalIsDurable, NoHold

\* What a step of a preparation does to it, and to no other
LEMMA PrepMoves ==
    ASSUME TypeOK, NEW o \in Owners, NEW i \in Identities, NEW r,
           prep' = [prep EXCEPT ![o][i] = r]
    PROVE  /\ prep'[o][i] = r
           /\ \A p \in Owners, j \in Identities :
                  p # o \/ j # i => prep'[p][j] = prep[p][j]
BY DEF TypeOK

LEMMA GotoFields ==
    ASSUME TypeOK, NEW o \in Owners, NEW i \in Identities, NEW pc, Goto(o, i, pc)
    PROVE  /\ prep'[o][i].pc = pc /\ prep'[o][i].fence = prep[o][i].fence
           /\ \A p \in Owners, j \in Identities :
                  p # o \/ j # i => prep'[p][j] = prep[p][j]
<1> DEFINE r == [prep[o][i] EXCEPT !.pc = pc, !.age = 0]
<1>1. prep[o][i] \in PrepSet
  BY DEF TypeOK
<1>2. r.pc = pc /\ r.fence = prep[o][i].fence
  BY <1>1 DEF PrepSet
<1>3. prep' = [prep EXCEPT ![o][i] = r]
  BY DEF Goto
<1> HIDE DEF r
<1>4. /\ prep'[o][i] = r
      /\ \A p \in Owners, j \in Identities :
             p # o \/ j # i => prep'[p][j] = prep[p][j]
  BY <1>3 DEF TypeOK
<1> QED
  BY <1>2, <1>4

LEMMA WorkFields ==
    ASSUME TypeOK, NEW o \in Owners, NEW i \in Identities, Work(o, i)
    PROVE  /\ prep[o][i].pc \in WorkingPcs
           /\ prep'[o][i].pc \in WorkingPcs \cup {"closing"}
           /\ prep'[o][i].fence = prep[o][i].fence
           /\ \A p \in Owners, j \in Identities :
                  p # o \/ j # i => prep'[p][j] = prep[p][j]
           /\ UNCHANGED <<status, held, pending, beat>>
           /\ RowsLive
<1> USE DEF catalog
<1>p. prep[o][i] \in PrepSet
  BY DEF TypeOK
<1>w. {"reserved", "planned", "waiting", "admit", "check", "guard", "commit"} \subseteq WorkingPcs
  BY SMTT(60) DEF WorkingPcs, LockedPcs
<1>1. prep[o][i].pc \in WorkingPcs /\ UNCHANGED <<status, held, pending, beat>>
  BY <1>w DEF Work, ReuseExact, LookupExact, StageExport, EnterCommit, Admit, CheckCommit, Install,
     CommitGeneration, Abort
<1>2. RowsLive
  <2>1. CASE Admit(o, i)
    BY SMTT(60), <2>1, RetentionLive DEF Admit
  <2>2. CASE ~Admit(o, i)
    BY <2>2, RowUnchanged DEF Work, ReuseExact, LookupExact, StageExport, EnterCommit, CheckCommit,
       Install, CommitGeneration, Abort
  <2> QED
    BY <2>1, <2>2
<1>3. CASE LookupExact(o, i)
  <2>1. prep' = [prep EXCEPT ![o][i] =
                    [prep[o][i] EXCEPT !.pc = "planned", !.observed = current[i]]]
    BY <1>3 DEF LookupExact
  <2>2. /\ [prep[o][i] EXCEPT !.pc = "planned", !.observed = current[i]].pc = "planned"
        /\ [prep[o][i] EXCEPT !.pc = "planned", !.observed = current[i]].fence = prep[o][i].fence
    BY <1>p DEF PrepSet
  <2> QED
    BY <1>w, <1>1, <1>2, <2>1, <2>2, PrepMoves
<1>4. CASE EnterCommit(o, i)
  <2>1. PICK v \in Instances :
            prep' = [prep EXCEPT ![o][i] = [prep[o][i] EXCEPT !.pc = "admit", !.candidate = v]]
    BY <1>4 DEF EnterCommit
  <2>2. /\ [prep[o][i] EXCEPT !.pc = "admit", !.candidate = v].pc = "admit"
        /\ [prep[o][i] EXCEPT !.pc = "admit", !.candidate = v].fence = prep[o][i].fence
    BY <1>p DEF PrepSet
  <2> QED
    BY <1>w, <1>1, <1>2, <2>1, <2>2, PrepMoves
<1>5. CASE \E pc \in WorkingPcs \cup {"closing"} : Goto(o, i, pc)
  BY <1>1, <1>2, <1>5, GotoFields
<1>6. \/ LookupExact(o, i) \/ EnterCommit(o, i)
      \/ \E pc \in WorkingPcs \cup {"closing"} : Goto(o, i, pc)
  BY <1>w DEF Work, ReuseExact, StageExport, Admit, CheckCommit, Install, CommitGeneration, Abort
<1> QED
  BY <1>3, <1>4, <1>5, <1>6

LEMMA WorkReserves ==
    ASSUME TypeOK, TypeOK', ReservationInv, NEW o \in Owners, NEW i \in Identities, Work(o, i)
    PROVE  ReservationInv'
<1>1. /\ prep[o][i].pc \in WorkingPcs
      /\ prep'[o][i].pc \in WorkingPcs \cup {"closing"}
      /\ prep'[o][i].fence = prep[o][i].fence
      /\ \A p \in Owners, j \in Identities : p # o \/ j # i => prep'[p][j] = prep[p][j]
      /\ UNCHANGED <<status, held, pending, beat>>
      /\ RowsLive
  BY WorkFields
<1>2. /\ "flush" \notin WorkingPcs \cup {"closing"} /\ "record" \notin WorkingPcs \cup {"closing"}
  BY DEF WorkingPcs, LockedPcs
<1>3. HeldIsPrepared'
  BY <1>1 DEF ReservationInv, HeldIsPrepared
<1>4. ReleasesAreAwaited'
  <2> SUFFICES ASSUME NEW p \in Owners
               PROVE  /\ beat[p].pc = "idle" => beat[p].releases = {}
                      /\ status[p] = "open" =>
                             \A j \in pending[p] \cup beat[p].releases : prep'[p][j].pc = "flush"
    BY <1>1 DEF ReleasesAreAwaited
  <2>1. pending[p] \cup beat[p].releases \subseteq Identities
    BY DEF TypeOK, BeatSet
  <2> QED
    BY <1>1, <1>2, <2>1 DEF ReservationInv, ReleasesAreAwaited
<1>5. \A p \in Owners, j \in Identities :
          /\ prep'[p][j] = prep[p][j] \/ ClaimIsDurable(p, j)'
          /\ held'[p][j] = held[p][j]
          /\ beat'[p] = beat[p]
  BY <1>1, <1>2, NothingToBack
<1>6. DeadlinesAreDurable'
  BY <1>1, <1>5, DurableStays DEF ReservationInv
<1> QED
  BY <1>3, <1>4, <1>6 DEF ReservationInv

LEMMA UnexpiredFacts ==
    ASSUME NEW o \in Owners, NEW i \in Identities
    PROVE  /\ Unexpired(o)[i] \in {held[o][i], NoHold}
           /\ held[o][i] = NoHold => Unexpired(o)[i] = NoHold
BY DEF Unexpired

LEMMA ReleaseReserves ==
    ASSUME FlushCanStop = FALSE,
           TypeOK, TypeOK', ReservationInv, NEW o \in Owners, NEW i \in Identities, Release(o, i)
    PROVE  ReservationInv'
<1> USE DEF catalog
<1>n. HeldIsPrepared /\ ReleasesAreAwaited
  BY DEF ReservationInv
<1>s. \A p \in Owners : pending[p] \subseteq Identities /\ beat[p].releases \subseteq Identities
  BY DEF TypeOK, BeatSet
<1>w. "flush" \notin WorkingPcs \cup {"closing"}
  BY DEF WorkingPcs, LockedPcs
<1> DEFINE flushing == [NoPrep EXCEPT !.pc = "flush"]
<1>r. NoPrep.pc = "idle" /\ flushing.pc = "flush"
  BY DEF NoPrep
<1>f. CloseReservation(o, i) => prep' = [prep EXCEPT ![o][i] = flushing]
  BY DEF CloseReservation
<1> HIDE DEF flushing
<1>1. CASE CloseReservation(o, i)
  <2>1. /\ prep[o][i].pc = "closing" /\ UNCHANGED <<rows, status, beat>>
        /\ held' = [held EXCEPT ![o][i] = NoHold]
        /\ \A p \in Owners : pending'[p] \subseteq pending[p] \cup (IF p = o THEN {i} ELSE {})
    BY <1>1 DEF CloseReservation, TypeOK
  <2>2. /\ prep'[o][i].pc = "flush"
        /\ \A p \in Owners, j \in Identities : p # o \/ j # i => prep'[p][j] = prep[p][j]
    <3>1. prep' = [prep EXCEPT ![o][i] = flushing]
      BY <1>1, <1>f
    <3>2. /\ prep'[o][i] = flushing
          /\ \A p \in Owners, j \in Identities : p # o \/ j # i => prep'[p][j] = prep[p][j]
      BY <3>1 DEF TypeOK
    <3> QED
      BY <1>r, <3>2
  <2>3. /\ held'[o][i] = NoHold
        /\ \A p \in Owners, j \in Identities : p # o \/ j # i => held'[p][j] = held[p][j]
    BY <2>1 DEF TypeOK
  <2>4. HeldIsPrepared'
    BY <1>n, <2>2, <2>3 DEF HeldIsPrepared
  <2>5. ReleasesAreAwaited'
    <3> SUFFICES ASSUME NEW p \in Owners
                 PROVE  /\ beat[p].pc = "idle" => beat[p].releases = {}
                        /\ status[p] = "open" =>
                               \A j \in pending'[p] \cup beat[p].releases : prep'[p][j].pc = "flush"
      BY <2>1 DEF ReleasesAreAwaited
    <3> QED
      BY <1>n, <1>s, <2>1, <2>2 DEF ReleasesAreAwaited
  <2>6. RowsLive
    BY <2>1, RowUnchanged
  <2>7. DeadlinesAreDurable'
    <3>1. \A p \in Owners, j \in Identities :
              /\ prep'[p][j] = prep[p][j] \/ ClaimIsDurable(p, j)'
              /\ held'[p][j] = held[p][j] \/ HoldIsDurable(p, j)'
              /\ beat'[p] = beat[p]
      BY <2>1, <2>2, <2>3, NothingToBack
    <3> QED
      BY <2>1, <2>6, <3>1, DurableStays DEF ReservationInv
  <2> QED
    BY <2>4, <2>5, <2>7 DEF ReservationInv
<1>2. CASE FlushReleases(o, i)
  <2>1. /\ prep[o][i].pc = "flush" /\ UNCHANGED <<rows, status, held, pending, beat>>
        /\ prep' = [prep EXCEPT ![o][i] = NoPrep]
        /\ Flushed(o) \/ status[o] = "failed"
    BY <1>2 DEF FlushReleases
  <2>2. /\ prep'[o][i].pc = "idle"
        /\ \A p \in Owners, j \in Identities : p # o \/ j # i => prep'[p][j] = prep[p][j]
    <3>1. prep' = [prep EXCEPT ![o][i] = NoPrep]
      BY <2>1
    <3>2. /\ prep'[o][i] = NoPrep
          /\ \A p \in Owners, j \in Identities : p # o \/ j # i => prep'[p][j] = prep[p][j]
      BY <3>1 DEF TypeOK
    <3> QED
      BY <1>r, <3>2
  <2>3. held[o][i] = NoHold
    BY <1>n, <1>w, <2>1 DEF HeldIsPrepared
  <2>4. HeldIsPrepared'
    BY <1>n, <2>1, <2>2, <2>3 DEF HeldIsPrepared
  <2>5. status[o] = "open" => pending[o] = {} /\ beat[o].releases = {}
    BY <1>n, <2>1 DEF Flushed, ReleasesAreAwaited
  <2>6. ReleasesAreAwaited'
    <3> SUFFICES ASSUME NEW p \in Owners
                 PROVE  /\ beat[p].pc = "idle" => beat[p].releases = {}
                        /\ status[p] = "open" =>
                               \A j \in pending[p] \cup beat[p].releases : prep'[p][j].pc = "flush"
      BY <2>1 DEF ReleasesAreAwaited
    <3> QED
      BY <1>n, <1>s, <2>2, <2>5 DEF ReleasesAreAwaited
  <2>7. RowsLive
    BY <2>1, RowUnchanged
  <2>8. DeadlinesAreDurable'
    <3>1. \A p \in Owners, j \in Identities :
              /\ prep'[p][j] = prep[p][j] \/ ClaimIsDurable(p, j)'
              /\ held'[p][j] = held[p][j]
              /\ beat'[p] = beat[p]
      BY <2>1, <2>2, NothingToBack
    <3> QED
      BY <2>1, <2>7, <3>1, DurableStays DEF ReservationInv
  <2> QED
    BY <2>4, <2>6, <2>8 DEF ReservationInv
<1> QED
  BY <1>1, <1>2 DEF Release

\* A step of a preparation that neither works nor is flushed
LEMMA ClaimReleasesNothing ==
    ASSUME TypeOK, HeldIsPrepared, ReleasesAreAwaited, NEW o \in Owners, NEW i \in Identities,
           UNCHANGED <<status, beat>>, \A p \in Owners : pending'[p] \subseteq pending[p],
           prep[o][i].pc \in {"idle", "claim", "record"},
           \A p \in Owners, j \in Identities :
               p # o \/ j # i => /\ prep'[p][j] = prep[p][j]
                                 /\ held'[p][j] \in {held[p][j], NoHold},
           \/ held'[o][i] = NoHold
           \/ /\ prep'[o][i].pc \in WorkingPcs \cup {"closing"}
              /\ held'[o][i].fence = prep'[o][i].fence
    PROVE  HeldIsPrepared' /\ ReleasesAreAwaited'
<1>1. HeldIsPrepared'
  BY DEF HeldIsPrepared
<1>2. \A p \in Owners : pending[p] \subseteq Identities /\ beat[p].releases \subseteq Identities
  BY DEF TypeOK, BeatSet
<1>3. ReleasesAreAwaited'
  <2> SUFFICES ASSUME NEW p \in Owners
               PROVE  /\ beat[p].pc = "idle" => beat[p].releases = {}
                      /\ status[p] = "open" =>
                             \A j \in pending'[p] \cup beat[p].releases : prep'[p][j].pc = "flush"
    BY DEF ReleasesAreAwaited
  <2>1. /\ beat[p].pc = "idle" => beat[p].releases = {}
        /\ status[p] = "open" =>
               \A j \in pending[p] \cup beat[p].releases : prep[p][j].pc = "flush"
    BY DEF ReleasesAreAwaited
  <2> QED
    BY <1>2, <2>1
<1> QED
  BY <1>1, <1>3

\* The row that a claim leaves is the one it will record.
LEMMA ClaimBacked ==
    ASSUME TypeOK, NEW o \in Owners, NEW i \in Identities, ClaimExtended(o, i) \/ ClaimGranted(o, i)
    PROVE  /\ prep'[o][i].pc = "record"
           /\ ClaimIsDurable(o, i)'
           /\ \A p \in Owners, j \in Identities :
                  p # o \/ j # i => prep'[p][j] = prep[p][j]
<1> DEFINE age == prep[o][i].age
           live == WithoutExpired(age)
           r(f) == [prep[o][i] EXCEPT !.pc = "record", !.fence = f]
<1>p. prep[o][i] \in PrepSet /\ age \in 0..MaxWait
  BY DEF TypeOK, PrepSet
<1>1. live \in [Identities -> RowSet]
  BY <1>p, WithoutExpiredType
<1>2. \A f : r(f).pc = "record" /\ r(f).fence = f /\ r(f).age = age
  BY <1>p DEF PrepSet
<1>3. CASE ClaimExtended(o, i)
  <2>1. /\ rows' = [live EXCEPT ![i].left = Later(live[i].left, TTL - age)]
        /\ prep' = [prep EXCEPT ![o][i] = r(live[i].fence)]
        /\ live[i].owner = o
    BY <1>3 DEF ClaimExtended
  <2> HIDE DEF live, age, r
  <2>2. live[i].left \in Int
    BY <1>1 DEF RowSet
  <2>3. /\ rows'[i].owner = o /\ rows'[i].fence = live[i].fence
        /\ rows'[i].left = Later(live[i].left, TTL - age)
    BY <1>1, <2>1 DEF RowSet
  <2>4. /\ prep'[o][i] = r(live[i].fence)
        /\ \A p \in Owners, j \in Identities : p # o \/ j # i => prep'[p][j] = prep[p][j]
    BY <2>1 DEF TypeOK
  <2>5. Later(live[i].left, TTL - age) >= TTL - age
    BY <1>p, <2>2 DEF Later
  <2> QED
    BY <1>2, <2>3, <2>4, <2>5 DEF ClaimIsDurable, Backed
<1>4. CASE ClaimGranted(o, i)
  <2> DEFINE row == [owner |-> o, fence |-> counter + 1, left |-> TTL - age]
  <2>1. /\ rows' = [live EXCEPT ![i] = row]
        /\ prep' = [prep EXCEPT ![o][i] = r(counter + 1)]
    BY <1>4 DEF ClaimGranted
  <2>2. row.owner = o /\ row.fence = counter + 1 /\ row.left = TTL - age
    OBVIOUS
  <2>x. TTL - age \in Int
    BY <1>p
  <2> HIDE DEF live, age, r, row
  <2>3. rows'[i] = row
    BY <1>1, <2>1
  <2>4. /\ prep'[o][i] = r(counter + 1)
        /\ \A p \in Owners, j \in Identities : p # o \/ j # i => prep'[p][j] = prep[p][j]
    BY <2>1 DEF TypeOK
  <2> QED
    BY <1>2, <2>2, <2>3, <2>4, <2>x DEF ClaimIsDurable, Backed
<1> QED
  BY <1>3, <1>4

LEMMA RecordFields ==
    ASSUME TypeOK, NEW o \in Owners, NEW i \in Identities, held[o][i] = NoHold, RecordClaim(o, i)
    PROVE  /\ prep[o][i].pc = "record" /\ status[o] = "open" /\ prep[o][i].age < TTL
           /\ prep'[o][i].pc = "reserved" /\ prep'[o][i].fence = prep[o][i].fence
           /\ held'[o][i].fence = prep[o][i].fence
           /\ held'[o][i].left = TTL - prep[o][i].age
           /\ \A p \in Owners, j \in Identities :
                  p # o \/ j # i => /\ prep'[p][j] = prep[p][j]
                                    /\ held'[p][j] \in {held[p][j], NoHold}
           /\ \A p \in Owners : pending'[p] \subseteq pending[p]
           /\ UNCHANGED <<rows, status, beat>>
<1> USE DEF catalog
<1>1. /\ prep[o][i].pc = "record" /\ status[o] = "open" /\ prep[o][i].age < TTL
      /\ UNCHANGED <<rows, status, beat>> /\ Goto(o, i, "reserved")
      /\ \A p \in Owners : pending'[p] \subseteq pending[p]
  BY DEF RecordClaim, Recordable, TypeOK
<1>2. /\ prep'[o][i].pc = "reserved" /\ prep'[o][i].fence = prep[o][i].fence
      /\ \A p \in Owners, j \in Identities : p # o \/ j # i => prep'[p][j] = prep[p][j]
  BY <1>1, GotoFields
<1> DEFINE hold == [fence |-> prep[o][i].fence,
                    left |-> Later(Unexpired(o)[i].left, TTL - prep[o][i].age)]
<1>3. held' = [held EXCEPT ![o] = [Unexpired(o) EXCEPT ![i] = hold]]
  BY DEF RecordClaim
<1>4. hold.fence = prep[o][i].fence /\ hold.left = TTL - prep[o][i].age
  <2>1. Unexpired(o)[i].left = 0
    BY UnexpiredFacts DEF NoHold
  <2>2. Later(0, TTL - prep[o][i].age) = TTL - prep[o][i].age
    BY <1>1, DeadlineFacts DEF Later
  <2> QED
    BY <2>1, <2>2
<1> HIDE DEF hold
<1>5. /\ held'[o][i] = hold
      /\ \A p \in Owners, j \in Identities : p # o \/ j # i => held'[p][j] \in {held[p][j], NoHold}
  <2>1. held'[o][i] = hold /\ \A j \in Identities : j # i => held'[o][j] = Unexpired(o)[j]
    BY <1>3, UnexpiredType DEF TypeOK
  <2>2. \A p \in Owners : p # o => held'[p] = held[p]
    BY <1>3 DEF TypeOK
  <2> QED
    BY <2>1, <2>2, UnexpiredFacts
<1> QED
  BY <1>1, <1>2, <1>4, <1>5

LEMMA ClaimReserves ==
    ASSUME TypeOK, TypeOK', ReservationInv, NEW o \in Owners, NEW i \in Identities, Claim(o, i)
    PROVE  ReservationInv'
<1> USE DEF catalog
<1>n. HeldIsPrepared /\ ReleasesAreAwaited /\ DeadlinesAreDurable /\ RowsLive
  BY ClaimLive DEF ReservationInv
<1>w. {"idle", "claim", "record"} \cap (WorkingPcs \cup {"closing"}) = {}
  BY SMTT(60) DEF WorkingPcs, LockedPcs
<1>0. prep[o][i].pc \in {"idle", "claim", "record"} /\ UNCHANGED <<status, beat>>
  BY DEF Claim, BeginClaim, ClaimRefused, ClaimExtended, ClaimGranted, ClaimBusy, RecordClaim,
     RecordRefused
<1>h. held[o][i] = NoHold
  BY <1>n, <1>w, <1>0 DEF HeldIsPrepared
<1>1. CASE RecordClaim(o, i)
  <2>1. /\ prep[o][i].pc = "record" /\ status[o] = "open" /\ prep[o][i].age < TTL
        /\ prep'[o][i].pc = "reserved" /\ prep'[o][i].fence = prep[o][i].fence
        /\ held'[o][i].fence = prep[o][i].fence
        /\ held'[o][i].left = TTL - prep[o][i].age
        /\ \A p \in Owners, j \in Identities :
               p # o \/ j # i => /\ prep'[p][j] = prep[p][j]
                                 /\ held'[p][j] \in {held[p][j], NoHold}
        /\ \A p \in Owners : pending'[p] \subseteq pending[p]
        /\ UNCHANGED <<rows, status, beat>>
    BY <1>1, <1>h, RecordFields
  <2>2. HeldIsPrepared' /\ ReleasesAreAwaited'
    <3>1. prep'[o][i].pc \in WorkingPcs
      BY <2>1 DEF WorkingPcs
    <3> QED
      BY <1>n, <1>0, <2>1, <3>1, ClaimReleasesNothing
  <2>3. HoldIsDurable(o, i)'
    <3>1. ClaimIsDurable(o, i)
      BY <1>n DEF DeadlinesAreDurable
    <3> QED
      BY <2>1, <3>1 DEF ClaimIsDurable, HoldIsDurable, Backed
  <2>4. DeadlinesAreDurable'
    <3>1. \A p \in Owners, j \in Identities :
              /\ prep'[p][j] = prep[p][j] \/ ClaimIsDurable(p, j)'
              /\ held'[p][j] = held[p][j] \/ HoldIsDurable(p, j)'
              /\ beat'[p] = beat[p]
      BY <2>1, <2>3, NothingToBack
    <3> QED
      BY <1>n, <2>1, <3>1, DurableStays
  <2> QED
    BY <2>2, <2>4 DEF ReservationInv
<1>2. CASE ~RecordClaim(o, i)
  <2>1. \A p \in Owners, j \in Identities :
            p # o \/ j # i => prep'[p][j] = prep[p][j]
    <3>1. CASE ClaimExtended(o, i) \/ ClaimGranted(o, i)
      BY <3>1, ClaimBacked
    <3>2. CASE ~(ClaimExtended(o, i) \/ ClaimGranted(o, i))
      <4>1. \E r : prep' = [prep EXCEPT ![o][i] = r]
        BY <1>2, <3>2 DEF Claim, BeginClaim, ClaimRefused, ClaimBusy, RecordRefused
      <4> QED
        BY <4>1 DEF TypeOK
    <3> QED
      BY <3>1, <3>2
  <2>2. prep'[o][i].pc # "record" \/ ClaimIsDurable(o, i)'
    <3>1. CASE ClaimExtended(o, i) \/ ClaimGranted(o, i)
      BY <3>1, ClaimBacked
    <3>2. CASE ~(ClaimExtended(o, i) \/ ClaimGranted(o, i))
      <4>1. prep'[o][i].pc \in {"idle", "claim"}
        BY <1>2, <3>2 DEF Claim, BeginClaim, ClaimRefused, ClaimBusy, RecordRefused, NoPrep, TypeOK
      <4> QED
        BY <4>1
    <3> QED
      BY <3>1, <3>2
  <2>3. UNCHANGED pending /\ \A p \in Owners, j \in Identities : held'[p][j] \in {held[p][j], NoHold}
    <3>1. UNCHANGED pending /\ (UNCHANGED held \/ held' = [held EXCEPT ![o] = Unexpired(o)])
      BY <1>2 DEF Claim, BeginClaim, ClaimRefused, ClaimExtended, ClaimGranted, ClaimBusy,
         RecordRefused
    <3> QED
      BY <3>1, UnexpiredFacts DEF TypeOK
  <2>4. HeldIsPrepared' /\ ReleasesAreAwaited'
    <3>1. held'[o][i] = NoHold
      BY <1>h, <2>3
    <3> QED
      BY <1>n, <1>0, <2>1, <2>3, <3>1, ClaimReleasesNothing
  <2>5. DeadlinesAreDurable'
    <3>1. \A p \in Owners, j \in Identities :
              /\ prep'[p][j] = prep[p][j] \/ ClaimIsDurable(p, j)'
              /\ held'[p][j] = held[p][j] \/ HoldIsDurable(p, j)'
              /\ beat'[p] = beat[p]
      BY <1>0, <2>1, <2>2, <2>3, NothingToBack
    <3> QED
      BY <1>n, <1>0, <3>1, DurableStays
  <2> QED
    BY <2>4, <2>5 DEF ReservationInv
<1> QED
  BY <1>1, <1>2

\* What a step of a manager leaves of what it believes in and has to release
ManagerMoves(o) ==
    /\ UNCHANGED prep
    /\ \A p \in Owners : p # o => /\ beat'[p] = beat[p] /\ held'[p] = held[p]
                                  /\ pending'[p] = pending[p] /\ status'[p] = status[p]
    /\ \A i \in Identities :
           \/ held'[o][i] = NoHold
           \/ held[o][i] # NoHold /\ held'[o][i].fence = held[o][i].fence
    /\ beat'[o].pc = "idle" => beat'[o].releases = {}
    /\ status'[o] = "open" =>
           /\ status[o] = "open"
           /\ pending'[o] \cup beat'[o].releases \subseteq pending[o] \cup beat[o].releases

LEMMA ManagerReserves ==
    ASSUME TypeOK, HeldIsPrepared, ReleasesAreAwaited, NEW o \in Owners, ManagerMoves(o)
    PROVE  /\ HeldIsPrepared' /\ ReleasesAreAwaited'
           /\ \A p \in Owners : status'[p] = "open" => status[p] = "open"
<1>1. HeldIsPrepared'
  <2> SUFFICES ASSUME NEW p \in Owners, NEW i \in Identities, held'[p][i] # NoHold
               PROVE  /\ prep[p][i].pc \in WorkingPcs \cup {"closing"}
                      /\ held'[p][i].fence = prep[p][i].fence
    BY DEF HeldIsPrepared, ManagerMoves
  <2>1. held[p][i] # NoHold /\ held'[p][i].fence = held[p][i].fence
    BY DEF ManagerMoves
  <2> QED
    BY <2>1 DEF HeldIsPrepared
<1>2. ReleasesAreAwaited'
  <2> SUFFICES ASSUME NEW p \in Owners
               PROVE  /\ beat'[p].pc = "idle" => beat'[p].releases = {}
                      /\ status'[p] = "open" =>
                             \A i \in pending'[p] \cup beat'[p].releases : prep[p][i].pc = "flush"
    BY DEF ReleasesAreAwaited, ManagerMoves
  <2>1. CASE p = o
    BY <2>1 DEF ManagerMoves, ReleasesAreAwaited
  <2>2. CASE p # o
    BY <2>2 DEF ManagerMoves, ReleasesAreAwaited
  <2> QED
    BY <2>1, <2>2
<1> QED
  BY <1>1, <1>2 DEF ManagerMoves

LEMMA NullBeat == NoBeat.pc = "idle" /\ NoBeat.releases = {}
BY DEF NoBeat

LEMMA ConfirmedFacts ==
    ASSUME TypeOK, NEW o \in Owners, NEW i \in Identities
    PROVE  \/ Confirmed(o, i) = NoHold
           \/ held[o][i] # NoHold /\ Confirmed(o, i) = held[o][i]
           \/ /\ held[o][i] # NoHold /\ Confirmed(o, i).fence = held[o][i].fence
              /\ held[o][i].left > 0 /\ held[o][i].fence # 0
              /\ held[o][i].fence = beat[o].renew[i] /\ i \notin beat[o].lost
              /\ beat[o].age < TTL
              /\ Confirmed(o, i).left = Later(held[o][i].left, TTL - beat[o].age)
<1>1. held[o][i] \in HoldSet
  BY DEF TypeOK
<1> DEFINE hold == Unexpired(o)[i]
           longer == [hold EXCEPT !.left = Later(hold.left, TTL - beat[o].age)]
<1>2. hold \in {held[o][i], NoHold} /\ NoHold.fence = 0
  BY UnexpiredFacts DEF NoHold
<1>3. hold # NoHold => held[o][i].left > 0
  BY DEF Unexpired
<1>4. hold \in HoldSet
  BY UnexpiredType
<1>5. longer.fence = hold.fence /\ longer.left = Later(hold.left, TTL - beat[o].age)
  BY <1>4 DEF HoldSet
<1>6. \/ Confirmed(o, i) \in {hold, NoHold}
      \/ /\ hold.fence # 0 /\ hold.fence = beat[o].renew[i] /\ i \notin beat[o].lost
         /\ TTL > beat[o].age /\ Confirmed(o, i) = longer
  BY DEF Confirmed
<1>7. TTL > beat[o].age => beat[o].age < TTL
  BY DeadlineFacts
<1> HIDE DEF hold, longer
<1> QED
  BY <1>2, <1>3, <1>5, <1>6, <1>7

LEMMA BeatMoves ==
    ASSUME TypeOK, ReleasesAreAwaited, NEW o \in Owners, Heartbeat(o)
    PROVE  ManagerMoves(o)
<1> USE DEF catalog
<1>b. beat[o] \in BeatSet
  BY DEF TypeOK
<1>1. CASE BeatSnapshot(o)
  <2> DEFINE r == [NoBeat EXCEPT !.pc = IF pending[o] = {} THEN "renew" ELSE "release",
                                 !.releases = pending[o],
                                 !.renew = [i \in Identities |-> Unexpired(o)[i].fence],
                                 !.closed = status[o] = "closed"]
  <2>1. beat' = [beat EXCEPT ![o] = r] /\ UNCHANGED <<prep, status>>
    BY <1>1 DEF BeatSnapshot
  <2>2. r.pc # "idle" /\ r.releases = pending[o]
    BY DEF NoBeat
  <2> HIDE DEF r
  <2>3. beat'[o] = r /\ \A p \in Owners : p # o => beat'[p] = beat[p]
    BY <2>1 DEF TypeOK
  <2>4. /\ pending' = [pending EXCEPT ![o] = {}] /\ held' = [held EXCEPT ![o] = Unexpired(o)]
    BY <1>1 DEF BeatSnapshot
  <2>5. /\ pending'[o] = {} /\ held'[o] = Unexpired(o)
        /\ \A p \in Owners : p # o => pending'[p] = pending[p] /\ held'[p] = held[p]
    BY <2>4 DEF TypeOK
  <2> QED
    BY <2>1, <2>2, <2>3, <2>5, UnexpiredFacts DEF ManagerMoves
<1>2. CASE BeatRelease(o)
  <2>1. beat' = [beat EXCEPT ![o] = [beat[o] EXCEPT !.pc = "renew"]]
        /\ UNCHANGED <<status, held, pending, prep>>
    BY <1>2 DEF BeatRelease
  <2>2. /\ beat'[o].pc = "renew" /\ beat'[o].releases = beat[o].releases
        /\ \A p \in Owners : p # o => beat'[p] = beat[p]
    BY <2>1, <1>b DEF BeatSet, TypeOK
  <2> QED
    BY <2>1, <2>2 DEF ManagerMoves
<1>3. CASE BeatStart(o)
  <2> DEFINE renew == [i \in Identities |->
                          IF Unexpired(o)[i].fence = 0 THEN 0 ELSE beat[o].renew[i]]
             r == [beat[o] EXCEPT !.pc = "update", !.renew = renew]
  <2>1. /\ UNCHANGED <<prep, status, pending>>
        /\ held' = [held EXCEPT ![o] = Unexpired(o)]
        /\ beat' = [beat EXCEPT ![o] = NoBeat] \/ beat' = [beat EXCEPT ![o] = r]
    BY <1>3 DEF BeatStart
  <2>2. r.pc = "update" /\ r.releases = beat[o].releases
    BY <1>b DEF BeatSet
  <2> HIDE DEF r
  <2>3. beat'[o] \in {NoBeat, r} /\ \A p \in Owners : p # o => beat'[p] = beat[p]
    BY <2>1 DEF TypeOK
  <2>4. held'[o] = Unexpired(o) /\ \A p \in Owners : p # o => held'[p] = held[p]
    BY <2>1 DEF TypeOK
  <2> QED
    BY <2>1, <2>2, <2>3, <2>4, UnexpiredFacts, NullBeat DEF ManagerMoves
<1>4. CASE BeatUpdate(o)
  <2>1. UNCHANGED <<status, held, pending, prep>>
        /\ \E lost : beat' = [beat EXCEPT ![o] = [beat[o] EXCEPT !.pc = "confirm", !.lost = lost]]
    BY <1>4 DEF BeatUpdate
  <2>2. /\ beat'[o].pc = "confirm" /\ beat'[o].releases = beat[o].releases
        /\ \A p \in Owners : p # o => beat'[p] = beat[p]
    BY <2>1, <1>b DEF BeatSet, TypeOK
  <2> QED
    BY SMTT(60), <2>1, <2>2 DEF ManagerMoves
<1>5. CASE BeatConfirm(o)
  <2>1. /\ UNCHANGED <<status, pending, prep>>
        /\ \A i \in Identities : held'[o][i] = Confirmed(o, i)
        /\ \A p \in Owners : p # o => held'[p] = held[p] /\ beat'[p] = beat[p]
        /\ beat'[o] = NoBeat
    BY <1>5 DEF BeatConfirm, TypeOK
  <2> QED
    BY <2>1, ConfirmedFacts, NullBeat DEF ManagerMoves
<1>6. CASE BeatBusy(o) \/ BeatFail(o)
  <2>1. /\ UNCHANGED <<held, prep>>
        /\ beat'[o] = NoBeat
        /\ pending'[o] \subseteq pending[o] \cup beat[o].releases
        /\ status'[o] = "open" => status[o] = "open"
        /\ \A p \in Owners : p # o => /\ beat'[p] = beat[p] /\ pending'[p] = pending[p]
                                      /\ status'[p] = status[p]
    BY <1>6 DEF BeatBusy, BeatFail, TypeOK
  <2> QED
    BY <2>1, NullBeat DEF ManagerMoves
<1>7. CASE BeatStop(o)
  BY <1>7 DEF BeatStop, ManagerMoves, TypeOK, ReleasesAreAwaited
<1> QED
  BY <1>1, <1>2, <1>3, <1>4, <1>5, <1>6, <1>7 DEF Heartbeat

\* Releasing deletes rows that nobody believes in
LEMMA ReleaseDurable ==
    ASSUME TypeOK, ReservationInv, NEW o \in Owners, BeatRelease(o)
    PROVE  DeadlinesAreDurable'
<1>n. HeldIsPrepared /\ ReleasesAreAwaited /\ DeadlinesAreDurable
  BY DEF ReservationInv
<1>b. beat[o] \in BeatSet
  BY DEF TypeOK
<1>1. /\ UNCHANGED <<status, held, prep>>
      /\ beat' = [beat EXCEPT ![o] = [beat[o] EXCEPT !.pc = "renew"]]
      /\ \A i \in Identities :
             rows'[i] = IF i \in beat[o].releases /\ rows[i].owner = o THEN NoRow ELSE rows[i]
  BY DEF BeatRelease
<1>2. beat'[o].pc = "renew" /\ \A p \in Owners : p # o => beat'[p] = beat[p]
  BY <1>1, <1>b DEF BeatSet, TypeOK
<1> SUFFICES ASSUME NEW p \in Owners, NEW i \in Identities
             PROVE  ClaimIsDurable(p, i)' /\ RenewalIsDurable(p, i)' /\ HoldIsDurable(p, i)'
  BY DEF DeadlinesAreDurable
<1>3. ClaimIsDurable(p, i) /\ RenewalIsDurable(p, i) /\ HoldIsDurable(p, i)
  BY <1>n DEF DeadlinesAreDurable
<1>4. CASE rows'[i] = rows[i] \/ rows[i].owner # p
  <2>1. ASSUME NEW left, Backed(p, i, left)
        PROVE  Backed(p, i, left)' /\ rows'[i].fence = rows[i].fence
    BY <1>4, <2>1 DEF Backed
  <2>2. ClaimIsDurable(p, i)'
    BY <1>1, <1>3, <2>1 DEF ClaimIsDurable, Backed
  <2>3. HoldIsDurable(p, i)'
    BY <1>1, <1>3, <2>1 DEF HoldIsDurable, Backed
  <2>4. RenewalIsDurable(p, i)'
    BY <1>2, <1>3, <2>1 DEF RenewalIsDurable, Backed
  <2> QED
    BY <2>2, <2>3, <2>4
<1>5. CASE p = o /\ i \in beat[o].releases
  <2>1. status[o] = "open" => prep[o][i].pc = "flush"
    BY <1>n, <1>5 DEF ReleasesAreAwaited
  <2>2. prep[o][i].pc = "flush" => held[o][i] = NoHold
    BY <1>n DEF HeldIsPrepared, WorkingPcs, LockedPcs
  <2> QED
    BY <1>1, <1>2, <1>5, <2>1, <2>2 DEF ClaimIsDurable, HoldIsDurable, RenewalIsDurable, NoHold
<1> QED
  BY <1>1, <1>4, <1>5

\* Confirming records the deadlines that the renewal has put into the rows
LEMMA ConfirmDurable ==
    ASSUME TypeOK, DeadlinesAreDurable, NEW o \in Owners, NEW i \in Identities,
           beat[o].pc = "confirm", UNCHANGED <<rows, status>>, held'[o][i] = Confirmed(o, i)
    PROVE  held'[o][i] = held[o][i] \/ HoldIsDurable(o, i)'
<1>1. RenewalIsDurable(o, i) /\ HoldIsDurable(o, i)
  BY DEF DeadlinesAreDurable
<1>2. CASE Confirmed(o, i) = NoHold \/ Confirmed(o, i) = held[o][i]
  BY <1>2, NothingToBack
<1>3. CASE /\ Confirmed(o, i).fence = held[o][i].fence
           /\ held[o][i].left > 0 /\ held[o][i].fence # 0
           /\ held[o][i].fence = beat[o].renew[i] /\ i \notin beat[o].lost
           /\ beat[o].age < TTL
           /\ Confirmed(o, i).left = Later(held[o][i].left, TTL - beat[o].age)
  <2>1. ASSUME status[o] = "open"
        PROVE  Backed(o, i, Confirmed(o, i).left) /\ rows[i].fence = held[o][i].fence
    <3>1. /\ Backed(o, i, TTL - beat[o].age) /\ Backed(o, i, held[o][i].left)
          /\ rows[i].fence = held[o][i].fence
      BY <1>1, <1>3, <2>1 DEF RenewalIsDurable, HoldIsDurable
    <3> QED
      BY <1>3, <3>1 DEF Backed, Later
  <2> QED
    BY <1>3, <2>1 DEF HoldIsDurable, Backed
<1> QED
  BY <1>2, <1>3, ConfirmedFacts

LEMMA HeartbeatReserves ==
    ASSUME TypeOK, TypeOK', ReservationInv, NEW o \in Owners, Heartbeat(o)
    PROVE  ReservationInv'
<1> USE DEF catalog
<1>n. HeldIsPrepared /\ ReleasesAreAwaited /\ DeadlinesAreDurable
  BY DEF ReservationInv
<1>m. ManagerMoves(o)
  BY <1>n, BeatMoves
<1>1. /\ HeldIsPrepared' /\ ReleasesAreAwaited'
      /\ \A p \in Owners : status'[p] = "open" => status[p] = "open"
  BY <1>n, <1>m, ManagerReserves
<1>2. UNCHANGED prep /\ \A p \in Owners : p # o => beat'[p] = beat[p] /\ held'[p] = held[p]
  BY <1>m DEF ManagerMoves
<1>3. DeadlinesAreDurable'
  <2>1. CASE BeatRelease(o)
    BY <2>1, ReleaseDurable
  <2>2. CASE BeatUpdate(o)
    <3>1. UNCHANGED held
      BY <2>2 DEF BeatUpdate
    <3>2. /\ RowsLive
          /\ \A i \in Identities : RenewalIsDurable(o, i)'
      <4>1. /\ RowsLive
            /\ beat'[o].pc = "confirm" /\ beat'[o].age = beat[o].age
            /\ \A i \in Identities :
                   beat'[o].renew[i] # 0 /\ i \notin beat'[o].lost => (Backed(o, i, TTL - beat[o].age))'
        BY <2>2, UpdateLive
      <4> QED
        BY <4>1 DEF RenewalIsDurable, Backed
    <3>3. \A p \in Owners, i \in Identities :
              /\ prep'[p][i] = prep[p][i] \/ ClaimIsDurable(p, i)'
              /\ held'[p][i] = held[p][i] \/ HoldIsDurable(p, i)'
              /\ beat'[p] = beat[p] \/ RenewalIsDurable(p, i)'
      BY <1>2, <3>1, <3>2
    <3> QED
      BY <1>n, <1>1, <3>2, <3>3, DurableStays
  <2>3. CASE ~BeatRelease(o) /\ ~BeatUpdate(o)
    <3>1. UNCHANGED rows
      BY <2>3 DEF Heartbeat, BeatSnapshot, BeatStart, BeatConfirm, BeatBusy, BeatFail, BeatStop
    <3>2. RowsLive
      BY <3>1, RowUnchanged
    <3>3. beat'[o] = beat[o] \/ beat'[o].pc # "confirm"
      <4>1. ASSUME NEW r, beat' = [beat EXCEPT ![o] = r], r.pc # "confirm"
            PROVE  beat'[o].pc # "confirm"
        BY <4>1 DEF TypeOK
      <4>2. NoBeat.pc = "idle" /\ NoBeat.pc # "confirm"
        BY DEF NoBeat
      <4>3. CASE BeatSnapshot(o)
        <5> DEFINE r == [NoBeat EXCEPT !.pc = IF pending[o] = {} THEN "renew" ELSE "release",
                                       !.releases = pending[o],
                                       !.renew = [i \in Identities |-> Unexpired(o)[i].fence],
                                       !.closed = status[o] = "closed"]
        <5>1. beat' = [beat EXCEPT ![o] = r]
          BY <4>3 DEF BeatSnapshot
        <5>2. r.pc # "confirm"
          BY DEF NoBeat
        <5> HIDE DEF r
        <5> QED
          BY <4>1, <5>1, <5>2
      <4>4. CASE BeatStart(o)
        <5> DEFINE renew == [i \in Identities |->
                                IF Unexpired(o)[i].fence = 0 THEN 0 ELSE beat[o].renew[i]]
                   r == [beat[o] EXCEPT !.pc = "update", !.renew = renew]
        <5>1. beat' = [beat EXCEPT ![o] = NoBeat] \/ beat' = [beat EXCEPT ![o] = r]
          BY <4>4 DEF BeatStart
        <5>2. r.pc # "confirm"
          BY DEF TypeOK, BeatSet
        <5> HIDE DEF r
        <5> QED
          BY <4>1, <4>2, <5>1, <5>2
      <4>5. CASE BeatConfirm(o) \/ BeatBusy(o) \/ BeatFail(o)
        <5>1. beat' = [beat EXCEPT ![o] = NoBeat]
          BY <4>5 DEF BeatConfirm, BeatBusy, BeatFail
        <5> QED
          BY <4>1, <4>2, <5>1
      <4>6. CASE BeatStop(o)
        BY <4>6 DEF BeatStop
      <4> QED
        BY <2>3, <4>3, <4>4, <4>5, <4>6 DEF Heartbeat
    <3>4. \A i \in Identities : held'[o][i] = held[o][i] \/ HoldIsDurable(o, i)'
      <4>1. CASE BeatConfirm(o)
        <5>1. /\ beat[o].pc = "confirm" /\ UNCHANGED <<rows, status>>
              /\ \A i \in Identities : held'[o][i] = Confirmed(o, i)
          BY <4>1 DEF BeatConfirm, TypeOK
        <5> QED
          BY <1>n, <5>1, ConfirmDurable
      <4>2. CASE ~BeatConfirm(o)
        <5>1. UNCHANGED held \/ held' = [held EXCEPT ![o] = Unexpired(o)]
          BY <2>3, <4>2 DEF Heartbeat, BeatSnapshot, BeatStart, BeatBusy, BeatFail, BeatStop
        <5>2. \A i \in Identities : held'[o][i] \in {held[o][i], NoHold}
          BY <5>1, UnexpiredFacts DEF TypeOK
        <5> QED
          BY <5>2, NothingToBack
      <4> QED
        BY <4>1, <4>2
    <3>5. \A p \in Owners, i \in Identities :
              /\ prep'[p][i] = prep[p][i] \/ ClaimIsDurable(p, i)'
              /\ held'[p][i] = held[p][i] \/ HoldIsDurable(p, i)'
              /\ beat'[p] = beat[p] \/ RenewalIsDurable(p, i)'
      BY <1>2, <3>3, <3>4, NothingToBack
    <3> QED
      BY <1>n, <1>1, <3>2, <3>5, DurableStays
  <2> QED
    BY <2>1, <2>2, <2>3
<1> QED
  BY <1>1, <1>3 DEF ReservationInv

LEMMA CloseReserves ==
    ASSUME TypeOK, TypeOK', ReservationInv, NEW o \in Owners, CloseManager(o)
    PROVE  ReservationInv'
<1> USE DEF catalog
<1>n. HeldIsPrepared /\ ReleasesAreAwaited /\ DeadlinesAreDurable
  BY DEF ReservationInv
<1>0. /\ UNCHANGED <<rows, beat, prep>>
      /\ status' = [status EXCEPT ![o] = "closed"]
      /\ held' = [held EXCEPT ![o] = [i \in Identities |-> NoHold]]
      /\ \A p \in Owners : p # o => pending'[p] = pending[p]
  BY DEF CloseManager, TypeOK
<1>1. /\ status'[o] = "closed" /\ \A i \in Identities : held'[o][i] = NoHold
      /\ \A p \in Owners : p # o => status'[p] = status[p] /\ held'[p] = held[p]
  BY <1>0 DEF TypeOK
<1>2. ManagerMoves(o)
  BY <1>n, <1>0, <1>1 DEF ManagerMoves, ReleasesAreAwaited
<1>3. /\ HeldIsPrepared' /\ ReleasesAreAwaited'
      /\ \A p \in Owners : status'[p] = "open" => status[p] = "open"
  BY <1>n, <1>2, ManagerReserves
<1>4. RowsLive
  BY <1>0, RowUnchanged
<1>5. \A p \in Owners, i \in Identities :
          /\ prep'[p][i] = prep[p][i]
          /\ held'[p][i] = held[p][i] \/ HoldIsDurable(p, i)'
          /\ beat'[p] = beat[p]
  BY <1>0, <1>1, NothingToBack
<1>6. DeadlinesAreDurable'
  BY <1>n, <1>3, <1>4, <1>5, DurableStays
<1> QED
  BY <1>3, <1>6 DEF ReservationInv

LEMMA CrashReserves ==
    ASSUME TypeOK, TypeOK', ReservationInv, NEW o \in Owners, Crash(o)
    PROVE  ReservationInv'
<1> USE DEF catalog
<1>n. HeldIsPrepared /\ ReleasesAreAwaited /\ DeadlinesAreDurable
  BY DEF ReservationInv
<1>0. NoBeat.pc = "idle" /\ NoBeat.releases = {} /\ NoPrep.pc = "idle"
  BY DEF NoBeat, NoPrep
<1>1. /\ UNCHANGED rows
      /\ status' = [status EXCEPT ![o] = "crashed"]
      /\ held' = [held EXCEPT ![o] = [i \in Identities |-> NoHold]]
      /\ pending' = [pending EXCEPT ![o] = {}]
      /\ beat' = [beat EXCEPT ![o] = NoBeat]
      /\ prep' = [prep EXCEPT ![o] = [i \in Identities |-> NoPrep]]
  BY DEF Crash
<1>2. /\ status'[o] = "crashed" /\ beat'[o] = NoBeat
      /\ \A i \in Identities : held'[o][i] = NoHold /\ prep'[o][i] = NoPrep
      /\ \A p \in Owners : p # o =>
             /\ status'[p] = status[p] /\ held'[p] = held[p] /\ pending'[p] = pending[p]
             /\ beat'[p] = beat[p] /\ prep'[p] = prep[p]
  BY <1>1 DEF TypeOK
<1>3. HeldIsPrepared'
  BY <1>n, <1>2 DEF HeldIsPrepared
<1>4. ReleasesAreAwaited'
  BY <1>n, <1>0, <1>2 DEF ReleasesAreAwaited
<1>5. RowsLive
  BY <1>1, RowUnchanged
<1>6. \A p \in Owners, i \in Identities :
          /\ prep'[p][i] = prep[p][i] \/ ClaimIsDurable(p, i)'
          /\ held'[p][i] = held[p][i] \/ HoldIsDurable(p, i)'
          /\ beat'[p] = beat[p] \/ RenewalIsDurable(p, i)'
  BY <1>0, <1>2, NothingToBack
<1>7. \A p \in Owners : status'[p] = "open" => status[p] = "open"
  BY <1>2
<1>8. DeadlinesAreDurable'
  BY <1>n, <1>5, <1>6, <1>7, DurableStays
<1> QED
  BY <1>3, <1>4, <1>8 DEF ReservationInv

\* Retention and recovery do not touch the managers, nor any live row.
LEMMA OthersReserve ==
    ASSUME TypeOK, TypeOK', ReservationInv,
           Prune \/ (\E i \in Identities : RecoverCorrupt(i)) \/ UNCHANGED vars
    PROVE  ReservationInv'
<1>1. UNCHANGED <<status, held, pending, beat, prep>>
  BY DEF Prune, RecoverCorrupt, vars
<1>2. RowsLive
  <2>1. CASE Prune
    BY <2>1, RetentionLive DEF Prune
  <2>2. CASE UNCHANGED rows
    BY <2>2, RowUnchanged
  <2> QED
    BY <2>1, <2>2 DEF RecoverCorrupt, vars
<1>3. HeldIsPrepared' /\ ReleasesAreAwaited'
  BY <1>1 DEF ReservationInv, HeldIsPrepared, ReleasesAreAwaited
<1>4. DeadlinesAreDurable'
  BY <1>1, <1>2, DurableStays DEF ReservationInv
<1> QED
  BY <1>3, <1>4 DEF ReservationInv

\* A unit of time takes as much from the rows as from what is believed.
LEMMA TickFields ==
    ASSUME TypeOK, Tick
    PROVE  /\ UNCHANGED <<status, pending>>
           /\ \A i \in Identities :
                  /\ rows'[i].owner = rows[i].owner /\ rows'[i].fence = rows[i].fence
                  /\ rows[i].owner # None /\ rows[i].left > 0 => rows'[i].left = rows[i].left - 1
           /\ \A o \in Owners, i \in Identities :
                  /\ held'[o][i].fence = held[o][i].fence
                  /\ held'[o][i].left = Less(held[o][i].left, 0)
                  /\ held'[o][i] \in HoldSet
                  /\ prep'[o][i].pc = prep[o][i].pc /\ prep'[o][i].fence = prep[o][i].fence
                  /\ prep'[o][i].age = IF prep[o][i].pc \in StampedPcs \cup {"record"}
                                       THEN Older(prep[o][i].age) ELSE prep[o][i].age
           /\ \A o \in Owners :
                  /\ beat'[o].pc = beat[o].pc /\ beat'[o].releases = beat[o].releases
                  /\ beat'[o].renew = beat[o].renew /\ beat'[o].lost = beat[o].lost
                  /\ beat'[o].age = IF beat[o].pc \in {"update", "confirm"}
                                    THEN Older(beat[o].age) ELSE beat[o].age
<1>1. UNCHANGED <<status, pending>>
  BY DEF Tick
<1>2. ASSUME NEW i \in Identities
      PROVE  /\ rows'[i].owner = rows[i].owner /\ rows'[i].fence = rows[i].fence
             /\ rows[i].owner # None /\ rows[i].left > 0 => rows'[i].left = rows[i].left - 1
  <2>1. rows[i] \in RowSet
    BY DEF TypeOK
  <2>2. rows'[i] = IF rows[i].owner = None THEN rows[i]
                   ELSE [rows[i] EXCEPT !.left = Less(rows[i].left, -MaxWait)]
    BY DEF Tick
  <2>3. rows[i].left > 0 => Less(rows[i].left, -MaxWait) = rows[i].left - 1
    BY <2>1 DEF RowSet, Less, Later
  <2> QED
    BY <2>1, <2>2, <2>3 DEF RowSet
<1>3. ASSUME NEW o \in Owners, NEW i \in Identities
      PROVE  /\ held'[o][i].fence = held[o][i].fence
             /\ held'[o][i].left = Less(held[o][i].left, 0)
             /\ held'[o][i] \in HoldSet
  <2>1. held[o][i] \in HoldSet
    BY DEF TypeOK
  <2>2. held'[o][i] = [held[o][i] EXCEPT !.left = Less(held[o][i].left, 0)]
    BY DEF Tick
  <2>3. Less(held[o][i].left, 0) \in 0..TTL
    BY <2>1 DEF HoldSet, Less, Later
  <2> QED
    BY <2>1, <2>2, <2>3 DEF HoldSet
<1>4. ASSUME NEW o \in Owners, NEW i \in Identities
      PROVE  /\ prep'[o][i].pc = prep[o][i].pc /\ prep'[o][i].fence = prep[o][i].fence
             /\ prep'[o][i].age = IF prep[o][i].pc \in StampedPcs \cup {"record"}
                                  THEN Older(prep[o][i].age) ELSE prep[o][i].age
  <2>1. prep[o][i] \in PrepSet
    BY DEF TypeOK
  <2>2. prep'[o][i] = IF prep[o][i].pc \in StampedPcs \cup {"record"}
                      THEN [prep[o][i] EXCEPT !.age = Older(prep[o][i].age)] ELSE prep[o][i]
    BY DEF Tick
  <2> QED
    BY <2>1, <2>2 DEF PrepSet
<1>5. ASSUME NEW o \in Owners
      PROVE  /\ beat'[o].pc = beat[o].pc /\ beat'[o].releases = beat[o].releases
             /\ beat'[o].renew = beat[o].renew /\ beat'[o].lost = beat[o].lost
             /\ beat'[o].age = IF beat[o].pc \in {"update", "confirm"}
                               THEN Older(beat[o].age) ELSE beat[o].age
  <2>1. beat[o] \in BeatSet
    BY DEF TypeOK
  <2>2. beat'[o] = IF beat[o].pc \in {"update", "confirm"}
                   THEN [beat[o] EXCEPT !.age = Older(beat[o].age)] ELSE beat[o]
    BY DEF Tick
  <2> QED
    BY <2>1, <2>2 DEF BeatSet
<1> QED
  BY <1>1, <1>2, <1>3, <1>4, <1>5

\* The numbers behind a tick
LEMMA AgeFacts ==
    ASSUME NEW age \in 0..MaxWait, Older(age) < TTL
    PROVE  /\ Older(age) = age + 1 /\ age < TTL
           /\ TTL - age > 0 /\ TTL - Older(age) = (TTL - age) - 1
BY DEF Older

LEMMA LeftFacts ==
    ASSUME NEW left \in Nat, Less(left, 0) > 0
    PROVE  left > 0 /\ Less(left, 0) = left - 1
BY DEF Less, Later

LEMMA TickBacked ==
    ASSUME TypeOK, Tick, NEW o \in Owners, NEW i \in Identities, NEW left \in Int,
           left > 0, Backed(o, i, left)
    PROVE  rows'[i].owner = o /\ rows'[i].left >= left - 1 /\ rows'[i].fence = rows[i].fence
<1>1. rows[i].left \in Int /\ rows[i].owner = o /\ rows[i].left >= left /\ o # None
  BY NoneAssumption DEF TypeOK, RowSet, Backed
<1>2. rows[i].left > 0 /\ rows[i].left - 1 >= left - 1
  BY <1>1
<1>3. /\ rows'[i].owner = rows[i].owner /\ rows'[i].fence = rows[i].fence
      /\ rows[i].owner # None /\ rows[i].left > 0 => rows'[i].left = rows[i].left - 1
  BY TickFields
<1> QED
  BY <1>1, <1>2, <1>3

LEMMA TickDurable ==
    ASSUME TypeOK, DeadlinesAreDurable, Tick
    PROVE  DeadlinesAreDurable'
<1> SUFFICES ASSUME NEW o \in Owners, NEW i \in Identities
             PROVE  ClaimIsDurable(o, i)' /\ RenewalIsDurable(o, i)' /\ HoldIsDurable(o, i)'
  BY DEF DeadlinesAreDurable
<1>1. ClaimIsDurable(o, i) /\ RenewalIsDurable(o, i) /\ HoldIsDurable(o, i)
  BY DEF DeadlinesAreDurable
<1>t. /\ prep[o][i].age \in 0..MaxWait /\ beat[o].age \in 0..MaxWait /\ held[o][i].left \in Nat
      /\ TTL - prep[o][i].age \in Int /\ TTL - beat[o].age \in Int /\ held[o][i].left \in Int
  <2>1. prep[o][i] \in PrepSet /\ beat[o] \in BeatSet /\ held[o][i] \in HoldSet
    BY DEF TypeOK
  <2> QED
    BY <2>1 DEF PrepSet, BeatSet, HoldSet
<1>f. /\ UNCHANGED status
      /\ held'[o][i].fence = held[o][i].fence /\ held'[o][i].left = Less(held[o][i].left, 0)
      /\ prep'[o][i].pc = prep[o][i].pc /\ prep'[o][i].fence = prep[o][i].fence
      /\ prep'[o][i].pc = "record" => prep'[o][i].age = Older(prep[o][i].age)
      /\ beat'[o].pc = beat[o].pc /\ beat'[o].renew = beat[o].renew /\ beat'[o].lost = beat[o].lost
      /\ beat'[o].pc = "confirm" => beat'[o].age = Older(beat[o].age)
  BY TickFields
<1>2. ClaimIsDurable(o, i)'
  <2> SUFFICES ASSUME status[o] = "open", prep[o][i].pc = "record", Older(prep[o][i].age) < TTL
               PROVE  /\ rows'[i].owner = o /\ rows'[i].left >= TTL - Older(prep[o][i].age)
                      /\ rows'[i].fence = prep[o][i].fence
    BY <1>f DEF ClaimIsDurable, Backed
  <2>1. /\ prep[o][i].age < TTL /\ TTL - prep[o][i].age > 0
        /\ TTL - Older(prep[o][i].age) = (TTL - prep[o][i].age) - 1
    BY <1>t, AgeFacts
  <2>2. Backed(o, i, TTL - prep[o][i].age) /\ rows[i].fence = prep[o][i].fence
    BY <1>1, <2>1 DEF ClaimIsDurable
  <2> QED
    BY <1>t, <2>1, <2>2, TickBacked
<1>3. RenewalIsDurable(o, i)'
  <2> SUFFICES ASSUME beat[o].pc = "confirm", beat[o].renew[i] # 0, i \notin beat[o].lost,
                      Older(beat[o].age) < TTL
               PROVE  rows'[i].owner = o /\ rows'[i].left >= TTL - Older(beat[o].age)
    BY <1>f DEF RenewalIsDurable, Backed
  <2>1. /\ beat[o].age < TTL /\ TTL - beat[o].age > 0
        /\ TTL - Older(beat[o].age) = (TTL - beat[o].age) - 1
    BY <1>t, AgeFacts
  <2>2. Backed(o, i, TTL - beat[o].age)
    BY <1>1, <2>1 DEF RenewalIsDurable
  <2> QED
    BY <1>t, <2>1, <2>2, TickBacked
<1>4. HoldIsDurable(o, i)'
  <2> SUFFICES ASSUME status[o] = "open", held[o][i].fence # 0, Less(held[o][i].left, 0) > 0
               PROVE  /\ rows'[i].owner = o /\ rows'[i].left >= Less(held[o][i].left, 0)
                      /\ rows'[i].fence = held[o][i].fence
    BY <1>f DEF HoldIsDurable, Backed
  <2>1. held[o][i].left > 0 /\ Less(held[o][i].left, 0) = held[o][i].left - 1
    BY <1>t, LeftFacts
  <2>2. Backed(o, i, held[o][i].left) /\ rows[i].fence = held[o][i].fence
    BY <1>1, <2>1 DEF HoldIsDurable
  <2> QED
    BY <1>t, <2>1, <2>2, TickBacked
<1> QED
  BY <1>2, <1>3, <1>4

LEMMA TickReserves ==
    ASSUME TypeOK, ReservationInv, Tick
    PROVE  ReservationInv'
<1>n. HeldIsPrepared /\ ReleasesAreAwaited /\ DeadlinesAreDurable
  BY DEF ReservationInv
<1>f. /\ UNCHANGED <<status, pending>>
      /\ \A o \in Owners, i \in Identities :
             /\ held'[o][i].fence = held[o][i].fence
             /\ held'[o][i].left = Less(held[o][i].left, 0)
             /\ held'[o][i] \in HoldSet
             /\ prep'[o][i].pc = prep[o][i].pc /\ prep'[o][i].fence = prep[o][i].fence
      /\ \A o \in Owners : beat'[o].pc = beat[o].pc /\ beat'[o].releases = beat[o].releases
  BY TickFields
<1>1. HeldIsPrepared'
  <2> SUFFICES ASSUME NEW o \in Owners, NEW i \in Identities, held'[o][i] # NoHold
               PROVE  /\ prep'[o][i].pc \in WorkingPcs \cup {"closing"}
                      /\ held'[o][i].fence = prep'[o][i].fence
    BY DEF HeldIsPrepared
  <2>1. held[o][i] # NoHold
    <3>1. CASE held[o][i] = NoHold
      <4>1. held'[o][i].fence = 0 /\ held'[o][i].left = 0
        BY <1>f, <3>1 DEF NoHold, Less, Later
      <4>2. held'[o][i] = NoHold
        BY <1>f, <4>1 DEF HoldSet, NoHold
      <4> QED
        BY <4>2
    <3> QED
      BY <3>1
  <2> QED
    BY <1>n, <1>f, <2>1 DEF HeldIsPrepared
<1>2. ReleasesAreAwaited'
  <2> SUFFICES ASSUME NEW o \in Owners
               PROVE  /\ beat[o].pc = "idle" => beat[o].releases = {}
                      /\ status[o] = "open" =>
                             \A i \in pending[o] \cup beat[o].releases : prep'[o][i].pc = "flush"
    BY <1>f DEF ReleasesAreAwaited
  <2>1. ASSUME status[o] = "open", NEW i \in pending[o] \cup beat[o].releases
        PROVE  prep'[o][i].pc = "flush"
    <3>1. prep[o][i].pc = "flush"
      BY <1>n, <2>1 DEF ReleasesAreAwaited
    <3>2. i \in Identities
      BY DEF TypeOK, BeatSet
    <3> QED
      BY <1>f, <3>1, <3>2
  <2> QED
    BY <1>n, <2>1 DEF ReleasesAreAwaited
<1>3. DeadlinesAreDurable'
  BY <1>n, TickDurable
<1> QED
  BY <1>1, <1>2, <1>3 DEF ReservationInv

LEMMA ReservationStep ==
    ASSUME FlushCanStop = FALSE, TypeOK, TypeOK', ReservationInv, [Next]_vars
    PROVE  ReservationInv'
<1>1. ASSUME NEW o \in Owners, NEW i \in Identities, Claim(o, i) \/ Work(o, i) \/ Release(o, i)
      PROVE  ReservationInv'
  BY <1>1, ClaimReserves, WorkReserves, ReleaseReserves
<1>2. ASSUME NEW o \in Owners, Heartbeat(o) \/ CloseManager(o) \/ Crash(o)
      PROVE  ReservationInv'
  BY <1>2, HeartbeatReserves, CloseReserves, CrashReserves
<1>3. CASE Prune \/ (\E i \in Identities : RecoverCorrupt(i)) \/ UNCHANGED vars
  BY <1>3, OthersReserve
<1>4. CASE Tick
  BY <1>4, TickReserves
<1> QED
  BY <1>1, <1>2, <1>3, <1>4 DEF Next

\* If flush_releases returns only once the heartbeat has deleted what it waits
\* for, a reservation its owner believes in is in the table with its fence, for
\* at least as long, and no second owner believes in one of the same identity.
\* Where the wait gives up, this fails: see the README.
THEOREM ReservationsAreHeld == FlushCanStop = FALSE => (Spec => []ReservationsHold)
<1> SUFFICES ASSUME FlushCanStop = FALSE PROVE Spec => []ReservationsHold
  OBVIOUS
<1>1. Init => TypeOK /\ ReservationInv
  BY TypeInit, ReservationInit
<1>2. TypeOK /\ ReservationInv /\ [Next]_vars => TypeOK' /\ ReservationInv'
  BY TypeStep, ReservationStep
<1>3. ReservationInv => ReservationsHold
  <2> SUFFICES ASSUME ReservationInv PROVE ReservationsHold
    OBVIOUS
  <2>1. LiveReservationIsDurable
    BY DEF ReservationInv, DeadlinesAreDurable, HoldIsDurable, Backed, LiveReservationIsDurable
  <2>2. ExclusivePreparation
    BY <2>1 DEF LiveReservationIsDurable, ExclusivePreparation, ReservationAlive
  <2> QED
    BY <2>1, <2>2 DEF ReservationsHold
<1> QED
  BY <1>1, <1>2, <1>3, PTL DEF Spec
=============================================================================
