------------------------ MODULE ArtifactLeases_proofs ------------------------
(***************************************************************************)
(* Proofs about ArtifactLeases.  None of them uses the bounds beyond their *)
(* types, nor whether the catalog may be busy; those about pinned handles  *)
(* need that no handle is released while its artifact opens.               *)
(***************************************************************************)
EXTENDS ArtifactLeases, TLAPS

USE ArtifactBoundAssumption, ArtifactNoneAssumption

-----------------------------------------------------------------------------
(* Operators *)

LEMMA StampTypes ==
    /\ Stamps \subseteq Int
    /\ 0 \in Stamps
    /\ NoRelease \in Int /\ NoRelease \notin Stamps
    /\ \A s \in Stamps : s >= 0 /\ Less(s) \in Stamps
    /\ \A s \in Stamps \cup {NoRelease} : Less(s) \in Stamps \cup {NoRelease}
    /\ \A s, t \in Stamps : Later(s, t) \in Stamps
BY DEF Stamps, NoRelease, Less, Later

LEMMA NullRecords ==
    /\ NoHandles \in [Kinds -> 0..MaxHandles]
    /\ NoReleases \in [Artifacts -> Stamps \cup {NoRelease}]
    /\ NoBeat \in BeatSet
    /\ NoOp \in OpSet
<1>1. NoHandles \in [Kinds -> 0..MaxHandles]
  BY DEF NoHandles
<1>2. NoReleases \in [Artifacts -> Stamps \cup {NoRelease}]
  BY DEF NoReleases
<1>3. NoBeat \in BeatSet
  BY <1>2, StampTypes DEF NoBeat, BeatSet
<1>4. NoOp \in OpSet
  BY StampTypes DEF NoOp, OpSet, OpPcs
<1> QED
  BY <1>1, <1>2, <1>3, <1>4

-----------------------------------------------------------------------------
(* Type correctness, with the room that an opening keeps for its handle *)

\* An opening or a commit of an artifact has room for one more handle.
RoomIsKept ==
    \A o \in Owners, a \in Artifacts :
        Opening(o, a) => handles[o][a]["attached"] < MaxHandles

TypeInv == TypeOK /\ RoomIsKept

LEMMA TypeInit == Init => TypeInv
<1> SUFFICES ASSUME Init PROVE TypeInv
  OBVIOUS
<1>1. TypeOK
  BY NullRecords, StampTypes DEF Init, TypeOK
<1>2. RoomIsKept
  BY DEF Init, RoomIsKept, Opening, NoOp
<1> QED
  BY <1>1, <1>2 DEF TypeInv

LEMMA OpFields ==
    ASSUME NEW x \in OpSet
    PROVE  /\ x.pc \in OpPcs /\ x.stamp \in Stamps
           /\ x.victims \in SUBSET Artifacts /\ x.moved \in SUBSET Artifacts
           /\ \A pc \in OpPcs : [x EXCEPT !.pc = pc] \in OpSet
           /\ \A s \in Stamps : [x EXCEPT !.stamp = s] \in OpSet
BY DEF OpSet

LEMMA BeatFields ==
    ASSUME TypeOK, NEW o \in Owners
    PROVE  /\ beat[o] \in BeatSet
           /\ beat[o].releases \in [Artifacts -> Stamps \cup {NoRelease}]
           /\ beat[o].stamp \in Stamps
           /\ beat[o].live \in SUBSET Artifacts /\ beat[o].lost \in SUBSET Artifacts
           /\ beat[o].closed \in BOOLEAN
BY DEF TypeOK, BeatSet

LEMMA OpenType ==
    ASSUME TypeInv, NEW o \in Owners, Open(o)
    PROVE  TypeInv'
<1> USE DEF TypeInv, stored, manager
<1>o. op \in OpSet
  BY DEF TypeOK
<1>f. /\ op.pc \in OpPcs /\ op.stamp \in Stamps
      /\ \A pc \in OpPcs : [op EXCEPT !.pc = pc] \in OpSet
  BY <1>o, OpFields
<1>1. CASE Recover(o)
  BY <1>1 DEF Recover, Recovered, TypeOK, RoomIsKept, Opening
<1>2. ASSUME NEW a \in Artifacts, BeginOpen(o, a)
      PROVE  TypeInv'
  <2>1. PICK stamp \in Stamps :
            op' = [NoOp EXCEPT !.pc = "lookup", !.kind = "open", !.owner = o,
                               !.artifact = a, !.stamp = stamp]
    BY <1>2 DEF BeginOpen
  <2>2. op' \in OpSet /\ op'.owner = o /\ op'.artifact = a
    BY <2>1 DEF NoOp, OpSet, OpPcs
  <2>3. handles[o][a]["attached"] < MaxHandles
    BY <1>2 DEF BeginOpen, MayHold, Opening, Idle, TypeOK, Kinds
  <2> QED
    BY <1>2, <2>2, <2>3 DEF BeginOpen, TypeOK, RoomIsKept, Opening
<1>3. ASSUME NEW a \in Artifacts, OpenLookup(o, a)
      PROVE  TypeInv'
  <2>1. op' \in OpSet /\ op'.owner = op.owner /\ op'.artifact = op.artifact
    BY <1>3, <1>o DEF OpenLookup, Goto, OpSet, OpPcs
  <2>2. lease' \in [Owners -> [Artifacts -> Stamps]]
    BY <1>3, <1>f, StampTypes DEF OpenLookup, AcquireRow, TypeOK
  <2> QED
    BY <1>3, <2>1, <2>2 DEF OpenLookup, TypeOK, RoomIsKept, Opening
<1>4. ASSUME NEW a \in Artifacts,
             OpenMissing(o, a) \/ OpenCorrupt(o, a) \/ AcquireRefused(o, a)
      PROVE  TypeInv'
  <2>1. op' = NoOp /\ NoOp \in OpSet /\ NoOp.owner = None
    BY <1>4, NullRecords DEF OpenMissing, OpenCorrupt, AcquireRefused, EndOp, NoOp
  <2>2. abandoned' \in SUBSET (Owners \X Artifacts)
    BY <1>4 DEF OpenMissing, OpenCorrupt, AcquireRefused, Abandon, TypeOK
  <2>3. trees' \in SUBSET Artifacts /\ indexed' \in SUBSET Artifacts
    BY <1>4 DEF OpenMissing, OpenCorrupt, AcquireRefused, Recovered, TypeOK
  <2>4. UNCHANGED <<lease, manager, beat>>
    BY <1>4 DEF OpenMissing, OpenCorrupt, AcquireRefused
  <2>5. RoomIsKept'
    BY <2>1 DEF RoomIsKept, Opening
  <2> QED
    BY <2>1, <2>2, <2>3, <2>4, <2>5 DEF TypeOK
<1>5. ASSUME NEW a \in Artifacts, AcquireHandle(o, a)
      PROVE  TypeInv'
  <2>1. op' = NoOp /\ NoOp \in OpSet /\ NoOp.owner = None
    BY <1>5, NullRecords DEF AcquireHandle, EndOp, NoOp
  <2>2. RoomIsKept'
    BY <2>1 DEF RoomIsKept, Opening
  <2>3. handles[o][a]["attached"] + 1 \in 0..MaxHandles
    BY <1>5 DEF AcquireHandle, At, RoomIsKept, Opening, TypeOK, Kinds
  <2>4. handles' \in [Owners -> [Artifacts -> [Kinds -> 0..MaxHandles]]]
    BY <1>5, <2>3, ZenonT(60) DEF AcquireHandle, TypeOK
  <2>5. confirmed' \in [Owners -> [Artifacts -> Stamps]]
    BY <1>5, <1>f, StampTypes DEF AcquireHandle, TypeOK
  <2>6. pending' \in [Owners -> [Artifacts -> Stamps \cup {NoRelease}]]
    BY <1>5 DEF AcquireHandle, TypeOK
  <2>7. abandoned' \in SUBSET (Owners \X Artifacts)
    BY <1>5 DEF AcquireHandle, TypeOK
  <2> QED
    BY <1>5, <2>1, <2>2, <2>4, <2>5, <2>6, <2>7 DEF AcquireHandle, TypeOK
<1> QED
  BY <1>1, <1>2, <1>3, <1>4, <1>5 DEF Open

LEMMA AcquireType ==
    ASSUME TypeOK, NEW o \in Owners, NEW a \in Artifacts, AcquireRow(o, a)
    PROVE  lease' \in [Owners -> [Artifacts -> Stamps]]
<1>1. op.stamp \in Stamps /\ lease[o][a] \in Stamps
  BY OpFields DEF TypeOK
<1>2. Later(lease[o][a], op.stamp) \in Stamps
  BY <1>1, StampTypes
<1> QED
  BY <1>2 DEF AcquireRow, TypeOK

LEMMA PruneOrCommitType ==
    ASSUME TypeInv, NEW o \in Owners, PruneOrCommit(o)
    PROVE  TypeInv'
<1> USE DEF TypeInv, stored, manager
<1>o. op \in OpSet
  BY DEF TypeOK
<1>f. /\ op.pc \in OpPcs /\ op.stamp \in Stamps
      /\ op.victims \in SUBSET Artifacts /\ op.moved \in SUBSET Artifacts
  BY <1>o, OpFields
<1>n. NoOp \in OpSet /\ NoOp.owner = None
  BY NullRecords DEF NoOp
<1>1. CASE BeginPrune(o)
  <2>1. op' \in OpSet /\ op'.artifact = None
    <3>1. [NoOp EXCEPT !.pc = "flush", !.kind = "prune", !.owner = o] \in OpSet
      BY NullRecords DEF OpSet, OpPcs
    <3> QED
      BY <1>1, <3>1 DEF BeginPrune, NoOp
  <2> QED
    BY <1>1, <2>1 DEF BeginPrune, TypeOK, RoomIsKept, Opening
<1>2. ASSUME NEW a \in Artifacts, BeginCommit(o, a)
      PROVE  TypeInv'
  <2>1. op' \in OpSet /\ op'.owner = o /\ op'.artifact = a
    <3>1. [NoOp EXCEPT !.pc = "flush", !.kind = "commit", !.owner = o, !.artifact = a] \in OpSet
      BY NullRecords DEF OpSet, OpPcs
    <3> QED
      BY <1>2, <3>1 DEF BeginCommit, NoOp
  <2>2. handles[o][a]["attached"] < MaxHandles
    BY <1>2 DEF BeginCommit, MayHold, Opening, TypeOK, Kinds
  <2> QED
    BY <1>2, <2>1, <2>2 DEF BeginCommit, TypeOK, RoomIsKept, Opening
<1>3. CASE QuarantineVictims(o)
  <2>1. PICK victims \in SUBSET Evictable :
            /\ trees' = trees \ victims
            /\ op' = [op EXCEPT !.pc = "decide", !.victims = victims, !.moved = victims \cap trees]
    BY <1>3 DEF QuarantineVictims
  <2>2. victims \subseteq Artifacts /\ victims \cap trees \subseteq Artifacts
    BY DEF Evictable, TypeOK
  <2>3. op' \in OpSet /\ op'.owner = op.owner /\ op'.artifact = op.artifact
    BY <1>o, <2>1, <2>2 DEF OpSet, OpPcs
  <2>4. trees' \in SUBSET Artifacts
    BY <2>1 DEF TypeOK
  <2> QED
    BY <1>3, <2>3, <2>4 DEF QuarantineVictims, TypeOK, RoomIsKept, Opening
<1>4. CASE FlushRefused(o)
  BY <1>4, <1>n DEF FlushRefused, EndOp, TypeOK, RoomIsKept, Opening
<1>5. CASE CommitPrune(o)
  <2>1. indexed' \in SUBSET Artifacts /\ trees' \in SUBSET Artifacts
    BY <1>5, <1>f DEF CommitPrune, TypeOK
  <2>2. [op EXCEPT !.pc = "install", !.victims = {}, !.moved = {}] \in OpSet
    BY <1>o DEF OpSet, OpPcs
  <2>3. /\ op' \in OpSet
        /\ op'.owner = None \/ (op'.owner = op.owner /\ op'.artifact = op.artifact)
    BY <1>5, <1>o, <1>n, <2>2 DEF CommitPrune, OpSet
  <2> QED
    BY <1>5, <2>1, <2>3 DEF CommitPrune, TypeOK, RoomIsKept, Opening
<1>6. CASE PruneFails(o)
  BY <1>6, <1>f, <1>n DEF PruneFails, EndOp, TypeOK, RoomIsKept, Opening
<1>7. ASSUME NEW a \in Artifacts, Install(o, a)
      PROVE  TypeInv'
  <2>1. PICK stamp \in Stamps :
            op' = [op EXCEPT !.pc = "publish", !.stamp = stamp, !.fresh = a \notin trees]
    BY <1>7 DEF Install
  <2>2. op' \in OpSet /\ op'.owner = op.owner /\ op'.artifact = op.artifact
    <3>1. (a \notin trees) \in BOOLEAN
      OBVIOUS
    <3> QED
      BY <1>o, <2>1, <3>1 DEF OpSet, OpPcs
  <2> QED
    BY <1>7, <2>2 DEF Install, TypeOK, RoomIsKept, Opening
<1>8. ASSUME NEW a \in Artifacts, Publish(o, a)
      PROVE  TypeInv'
  <2>1. op' \in OpSet /\ op'.owner = op.owner /\ op'.artifact = op.artifact
    BY <1>8, <1>o DEF Publish, Goto, OpSet, OpPcs
  <2>2. lease' \in [Owners -> [Artifacts -> Stamps]]
    BY <1>8, AcquireType DEF Publish
  <2> QED
    BY <1>8, <2>1, <2>2 DEF Publish, TypeOK, RoomIsKept, Opening
<1>9. ASSUME NEW a \in Artifacts, PublishFails(o, a)
      PROVE  TypeInv'
  BY <1>9, <1>n DEF PublishFails, EndOp, TypeOK, RoomIsKept, Opening
<1>10. CASE OpFails(o)
  BY <1>10, <1>n DEF OpFails, EndOp, TypeOK, RoomIsKept, Opening
<1> QED
  BY <1>1, <1>2, <1>3, <1>4, <1>5, <1>6, <1>7, <1>8, <1>9, <1>10 DEF PruneOrCommit

LEMMA DueType ==
    ASSUME TypeOK, NEW o \in Owners, NEW gone
    PROVE  /\ Due(o, gone) \in [Artifacts -> Stamps \cup {NoRelease}]
           /\ Forgotten(o, gone) \in [Artifacts -> Stamps]
BY StampTypes DEF Due, Forgotten, TypeOK

LEMMA HandleType ==
    ASSUME TypeInv, NEW o \in Owners, Handle(o)
    PROVE  TypeInv'
<1> USE DEF TypeInv, stored, manager
<1>h. handles \in [Owners -> [Artifacts -> [Kinds -> 0..MaxHandles]]]
  BY DEF TypeOK
<1>1. ASSUME NEW a \in Artifacts, NEW k \in Kinds, Retain(o, a, k)
      PROVE  TypeInv'
  <2>1. handles[o][a][k] + 1 \in 0..MaxHandles
    BY <1>1, <1>h DEF Retain, MayHold
  <2>2. handles' \in [Owners -> [Artifacts -> [Kinds -> 0..MaxHandles]]]
    BY <1>1, <1>h, <2>1 DEF Retain
  <2>3. pending' \in [Owners -> [Artifacts -> Stamps \cup {NoRelease}]]
    BY <1>1 DEF Retain, TypeOK
  <2>4. ASSUME NEW p \in Owners, NEW b \in Artifacts, Opening(p, b)
        PROVE  handles'[p][b]["attached"] < MaxHandles
    <3>1. handles[p][b]["attached"] < MaxHandles
      BY <2>4 DEF RoomIsKept
    <3>2. CASE p = o /\ b = a /\ k = "attached"
      <4>1. handles[o][a][k] + 1 < MaxHandles
        BY <1>1, <2>4, <3>2 DEF Retain, MayHold
      <4> QED
        BY <1>1, <1>h, <3>2, <4>1 DEF Retain
    <3>3. CASE ~(p = o /\ b = a /\ k = "attached")
      BY <1>1, <1>h, <3>1, <3>3 DEF Retain, Kinds
    <3> QED
      BY <3>2, <3>3
  <2>5. RoomIsKept'
    BY <1>1, <2>4 DEF Retain, RoomIsKept, Opening
  <2> QED
    BY <1>1, <2>2, <2>3, <2>5 DEF Retain, TypeOK
<1>2. ASSUME NEW a \in Artifacts, NEW k \in Kinds, Release(o, a, k)
      PROVE  TypeInv'
  <2>1. handles[o][a][k] - 1 \in 0..MaxHandles
    BY <1>2, <1>h DEF Release
  <2>2. handles' = [handles EXCEPT ![o][a][k] = @ - 1] /\ UNCHANGED op
    BY <1>2 DEF Release
  <2>3. handles' \in [Owners -> [Artifacts -> [Kinds -> 0..MaxHandles]]]
    BY <1>h, <2>1, <2>2
  <2>4. ASSUME NEW p \in Owners, NEW b \in Artifacts
        PROVE  handles'[p][b]["attached"] <= handles[p][b]["attached"]
    BY <1>h, <2>2 DEF Kinds
  <2>5. RoomIsKept'
    BY <1>h, <2>2, <2>3, <2>4 DEF RoomIsKept, Opening, Kinds
  <2>6. /\ pending' \in [Owners -> [Artifacts -> Stamps \cup {NoRelease}]]
        /\ confirmed' \in [Owners -> [Artifacts -> Stamps]]
    BY <1>2, DueType DEF Release, TypeOK
  <2> QED
    BY <1>2, <2>3, <2>5, <2>6 DEF Release, TypeOK
<1>3. CASE NoticeExpiry(o)
  BY <1>3 DEF NoticeExpiry, TypeOK, RoomIsKept, Opening
<1> QED
  BY <1>1, <1>2, <1>3 DEF Handle

LEMMA PendingUpdate ==
    ASSUME TypeOK, NEW o \in Owners, NEW p \in [Artifacts -> Stamps \cup {NoRelease}]
    PROVE  [pending EXCEPT ![o] = p] \in [Owners -> [Artifacts -> Stamps \cup {NoRelease}]]
BY DEF TypeOK

LEMMA BeatUpdateType ==
    ASSUME TypeOK, NEW o \in Owners, NEW r \in BeatSet
    PROVE  [beat EXCEPT ![o] = r] \in [Owners -> BeatSet]
BY DEF TypeOK

LEMMA EndBeatType ==
    ASSUME TypeOK, NEW o \in Owners, NEW left, EndBeat(o, left)
    PROVE  /\ beat' \in [Owners -> BeatSet]
           /\ status' \in [Owners -> {"open", "closed", "stopped", "crashed"}]
BY NullRecords, BeatUpdateType DEF EndBeat, TypeOK

LEMMA RestoredType ==
    ASSUME TypeOK, NEW o \in Owners
    PROVE  Restored(o) \in [Artifacts -> Stamps \cup {NoRelease}]
BY BeatFields DEF Restored, TypeOK

LEMMA HeartbeatType ==
    ASSUME TypeInv, NEW o \in Owners, Heartbeat(o)
    PROVE  TypeInv'
<1> USE DEF TypeInv, stored, manager
<1>b. /\ beat[o] \in BeatSet
      /\ beat[o].releases \in [Artifacts -> Stamps \cup {NoRelease}]
      /\ beat[o].stamp \in Stamps
      /\ beat[o].live \in SUBSET Artifacts /\ beat[o].lost \in SUBSET Artifacts
  BY BeatFields
<1>n. NoBeat \in BeatSet /\ [NoBeat EXCEPT !.pc = "dead"] \in BeatSet
  BY NullRecords DEF BeatSet
<1>p. \A a \in Artifacts : pending[o][a] \in Stamps \cup {NoRelease}
  BY DEF TypeOK
<1>r. UNCHANGED <<handles, op>> => RoomIsKept'
  BY DEF RoomIsKept, Opening
<1>g. \A x : x \in {NoReleases, Restored(o)} => x \in [Artifacts -> Stamps \cup {NoRelease}]
  BY NullRecords, RestoredType
<1>1. CASE BeatSnapshot(o)
  <2> DEFINE releases == [a \in Artifacts |-> IF Live(o, a) THEN NoRelease ELSE pending[o][a]]
             left == [a \in Artifacts |-> IF Live(o, a) THEN pending[o][a] ELSE NoRelease]
             r == [NoBeat EXCEPT !.pc = "release", !.releases = releases,
                                 !.live = LiveArtifacts(o), !.closed = status[o] = "closed"]
  <2>1. /\ releases \in [Artifacts -> Stamps \cup {NoRelease}]
        /\ left \in [Artifacts -> Stamps \cup {NoRelease}]
    BY <1>p
  <2>2. LiveArtifacts(o) \in SUBSET Artifacts
    BY DEF LiveArtifacts
  <2>3. beat' = [beat EXCEPT ![o] = r] /\ pending' = [pending EXCEPT ![o] = left]
    BY <1>1 DEF BeatSnapshot
  <2> HIDE DEF releases, left
  <2>4. r \in BeatSet
    <3>1. (status[o] = "closed") \in BOOLEAN
      OBVIOUS
    <3> QED
      BY <2>1, <2>2, <3>1, NullRecords DEF BeatSet
  <2> HIDE DEF r
  <2> QED
    BY <1>1, <1>r, <2>1, <2>3, <2>4, BeatUpdateType, PendingUpdate DEF BeatSnapshot, TypeOK
<1>2. CASE BeatRelease(o)
  <2>1. lease' \in [Owners -> [Artifacts -> Stamps]]
    BY <1>2, StampTypes DEF BeatRelease, DeletedRow, TypeOK
  <2>2. [beat[o] EXCEPT !.pc = "start"] \in BeatSet
    BY <1>b DEF BeatSet
  <2>3. beat' \in [Owners -> BeatSet]
    BY <1>2, <2>2, BeatUpdateType DEF BeatRelease
  <2> QED
    BY <1>2, <1>r, <2>1, <2>3 DEF BeatRelease, TypeOK
<1>3. CASE BeatStart(o)
  <2>1. PICK stamp \in Stamps :
            beat' = [beat EXCEPT ![o] = [@ EXCEPT !.pc = "update", !.stamp = stamp,
                            !.live = beat[o].live \cap LiveArtifacts(o)]]
    BY <1>3 DEF BeatStart
  <2>2. [beat[o] EXCEPT !.pc = "update", !.stamp = stamp,
                        !.live = beat[o].live \cap LiveArtifacts(o)] \in BeatSet
    BY <1>b DEF BeatSet
  <2>3. beat' \in [Owners -> BeatSet]
    BY <2>1, <2>2, BeatUpdateType
  <2> QED
    BY <1>3, <1>r, <2>3 DEF BeatStart, TypeOK
<1>4. CASE BeatUpdate(o)
  <2>1. lease' \in [Owners -> [Artifacts -> Stamps]]
    BY <1>4, <1>b, StampTypes DEF BeatUpdate, TypeOK
  <2>2. {a \in beat[o].live : lease[o][a] = 0} \in SUBSET Artifacts
    BY SMTT(60), <1>b
  <2>3. [beat[o] EXCEPT !.pc = "confirm", !.releases = NoReleases,
                        !.lost = {a \in beat[o].live : lease[o][a] = 0}] \in BeatSet
    BY <1>b, <2>2, NullRecords DEF BeatSet
  <2>4. beat' \in [Owners -> BeatSet]
    BY <1>4, <2>3, BeatUpdateType DEF BeatUpdate
  <2> QED
    BY <1>4, <1>r, <2>1, <2>4 DEF BeatUpdate, TypeOK
<1>5. CASE BeatNothing(o)
  BY <1>5, <1>r, EndBeatType DEF BeatNothing, TypeOK
<1>6. CASE BeatConfirm(o)
  <2>1. RenewedReleases(o) \in [Artifacts -> Stamps \cup {NoRelease}]
    <3>1. ASSUME NEW a \in Artifacts, pending[o][a] # NoRelease
          PROVE  Later(beat[o].stamp, pending[o][a]) \in Stamps
      BY <1>b, <1>p, <3>1, StampTypes
    <3> QED
      BY <1>p, <3>1 DEF RenewedReleases
  <2>2. confirmed' \in [Owners -> [Artifacts -> Stamps]]
    BY <1>6, <1>b, StampTypes, ZenonT(60) DEF BeatConfirm, TypeOK
  <2>3. failed' \in [Owners -> BOOLEAN]
    BY <1>6 DEF BeatConfirm, TypeOK, Poisoned
  <2>4. pending' \in [Owners -> [Artifacts -> Stamps \cup {NoRelease}]]
    BY <1>6, <2>1, PendingUpdate DEF BeatConfirm
  <2> QED
    BY <1>6, <1>r, <2>2, <2>3, <2>4, EndBeatType DEF BeatConfirm, TypeOK
<1>7. CASE BeatBusy(o)
  <2>1. pending' \in [Owners -> [Artifacts -> Stamps \cup {NoRelease}]]
    BY <1>7, <1>g, PendingUpdate DEF BeatBusy
  <2>2. beat' \in [Owners -> BeatSet]
    BY <1>7, <1>n, BeatUpdateType DEF BeatBusy
  <2>3. status' \in [Owners -> {"open", "closed", "stopped", "crashed"}]
    BY <1>7 DEF BeatBusy, TypeOK
  <2> QED
    BY <1>7, <1>r, <2>1, <2>2, <2>3 DEF BeatBusy, TypeOK
<1>8. CASE BeatFail(o)
  <2>1. pending' \in [Owners -> [Artifacts -> Stamps \cup {NoRelease}]]
    BY <1>8, <1>g, PendingUpdate DEF BeatFail
  <2>2. beat' \in [Owners -> BeatSet]
    BY <1>8, <1>n, BeatUpdateType DEF BeatFail
  <2>3. /\ status' \in [Owners -> {"open", "closed", "stopped", "crashed"}]
        /\ failed' \in [Owners -> BOOLEAN]
    BY <1>8 DEF BeatFail, TypeOK, Poisoned, GivesUp
  <2> QED
    BY <1>8, <1>r, <2>1, <2>2, <2>3 DEF BeatFail, TypeOK
<1> QED
  BY <1>1, <1>2, <1>3, <1>4, <1>5, <1>6, <1>7, <1>8 DEF Heartbeat

LEMMA LeaveType ==
    ASSUME TypeInv, NEW o \in Owners, CloseManager(o) \/ Crash(o)
    PROVE  TypeInv'
<1> USE DEF TypeInv, stored, manager
<1>h. handles \in [Owners -> [Artifacts -> [Kinds -> 0..MaxHandles]]]
  BY DEF TypeOK
<1>1. CASE CloseManager(o)
  <2>1. handles' = [handles EXCEPT ![o] = [a \in Artifacts |->
                                              [handles[o][a] EXCEPT !["attached"] = 0]]]
    BY <1>1 DEF CloseManager
  <2>2. \A a \in Artifacts : [handles[o][a] EXCEPT !["attached"] = 0] \in [Kinds -> 0..MaxHandles]
    <3>1. 0 \in 0..MaxHandles
      OBVIOUS
    <3> HIDE ArtifactBoundAssumption
    <3> QED
      BY <1>h, <3>1
  <2>3. handles' \in [Owners -> [Artifacts -> [Kinds -> 0..MaxHandles]]]
    BY <1>h, <2>1, <2>2
  <2>4. \A p \in Owners, a \in Artifacts :
            handles'[p][a]["attached"] <= handles[p][a]["attached"]
    BY <1>h, <2>1 DEF Kinds
  <2>5. RoomIsKept'
    BY <1>1, <1>h, <2>3, <2>4 DEF CloseManager, RoomIsKept, Opening, Kinds
  <2>6. /\ pending' \in [Owners -> [Artifacts -> Stamps \cup {NoRelease}]]
        /\ confirmed' \in [Owners -> [Artifacts -> Stamps]]
    BY <1>1, DueType DEF CloseManager, TypeOK
  <2>7. status' \in [Owners -> {"open", "closed", "stopped", "crashed"}]
    BY <1>1 DEF CloseManager, TypeOK
  <2> QED
    BY <1>1, <2>3, <2>5, <2>6, <2>7 DEF CloseManager, TypeOK
<1>2. CASE Crash(o)
  <2>1. handles' \in [Owners -> [Artifacts -> [Kinds -> 0..MaxHandles]]]
    BY <1>2, <1>h, NullRecords DEF Crash
  <2>2. \A p \in Owners, a \in Artifacts :
            handles'[p][a]["attached"] <= handles[p][a]["attached"]
    BY <1>2, <1>h DEF Crash, NoHandles, Kinds
  <2>3. op' \in OpSet /\ (op' = op \/ op'.owner = None)
    BY <1>2, NullRecords DEF Crash, TypeOK, NoOp
  <2>4. RoomIsKept'
    BY <1>h, <2>1, <2>2, <2>3 DEF RoomIsKept, Opening, Kinds
  <2>5. /\ confirmed' \in [Owners -> [Artifacts -> Stamps]]
        /\ pending' \in [Owners -> [Artifacts -> Stamps \cup {NoRelease}]]
    BY <1>2, NullRecords, StampTypes DEF Crash, TypeOK
  <2>6. beat' \in [Owners -> BeatSet]
    BY <1>2, NullRecords, BeatUpdateType DEF Crash
  <2>7. /\ status' \in [Owners -> {"open", "closed", "stopped", "crashed"}]
        /\ failed' \in [Owners -> BOOLEAN]
        /\ abandoned' \in SUBSET (Owners \X Artifacts)
    BY <1>2 DEF Crash, TypeOK
  <2> QED
    BY <1>2, <2>1, <2>3, <2>4, <2>5, <2>6, <2>7 DEF Crash, TypeOK
<1> QED
  BY <1>1, <1>2

LEMMA LessTypes ==
    ASSUME TypeOK, NEW o \in Owners, NEW a \in Artifacts
    PROVE  /\ Less(lease[o][a]) \in Stamps
           /\ Less(confirmed[o][a]) \in Stamps
           /\ Less(pending[o][a]) \in Stamps \cup {NoRelease}
<1>1. /\ lease[o][a] \in Stamps /\ confirmed[o][a] \in Stamps
      /\ pending[o][a] \in Stamps \cup {NoRelease}
  BY DEF TypeOK
<1> QED
  BY <1>1, StampTypes

LEMMA ExpireType ==
    ASSUME TypeInv, Expire
    PROVE  TypeInv'
<1> USE DEF TypeInv, stored
<1>1. /\ lease' \in [Owners -> [Artifacts -> Stamps]]
      /\ confirmed' \in [Owners -> [Artifacts -> Stamps]]
      /\ pending' \in [Owners -> [Artifacts -> Stamps \cup {NoRelease}]]
  BY ZenonT(60), LessTypes DEF Expire
<1>2. beat' \in [Owners -> BeatSet]
  <2>1. ASSUME NEW o \in Owners
        PROVE  [beat[o] EXCEPT !.stamp = Less(@),
                    !.releases = [a \in Artifacts |-> Less(beat[o].releases[a])]] \in BeatSet
    <3>1. beat[o] \in BeatSet /\ Less(beat[o].stamp) \in Stamps
      BY BeatFields, StampTypes
    <3>2. [a \in Artifacts |-> Less(beat[o].releases[a])] \in [Artifacts -> Stamps \cup {NoRelease}]
      BY BeatFields, StampTypes
    <3> QED
      BY <3>1, <3>2 DEF BeatSet
  <2> QED
    BY ZenonT(60), <2>1 DEF Expire
<1>3. op' \in OpSet /\ op'.owner = op.owner /\ op'.artifact = op.artifact
  <2>1. op \in OpSet
    BY DEF TypeOK
  <2>2. Less(op.stamp) \in Stamps
    BY <2>1, OpFields, StampTypes
  <2> QED
    BY <2>1, <2>2 DEF Expire, OpSet
<1>4. RoomIsKept'
  BY <1>3 DEF Expire, RoomIsKept, Opening
<1>5. abandoned' \in SUBSET (Owners \X Artifacts)
  BY DEF Expire, TypeOK
<1> QED
  BY <1>1, <1>2, <1>3, <1>4, <1>5 DEF Expire, TypeOK

LEMMA TypeStep ==
    ASSUME TypeInv, [Next]_vars
    PROVE  TypeInv'
<1>1. CASE UNCHANGED vars
  BY <1>1 DEF TypeInv, TypeOK, RoomIsKept, Opening, vars
<1>2. CASE Next
  BY <1>2, OpenType, PruneOrCommitType, HandleType, HeartbeatType, LeaveType, ExpireType DEF Next
<1> QED
  BY <1>1, <1>2

\* Every reachable state has its type, for any number of repositories, artifacts
\* and handles: no expiry leaves its range, and an opening always finds the room
\* for its handle that it began with (ArtifactRepository.current, LeaseManager.acquire).
THEOREM TypeCorrect == Spec => []TypeOK
<1>1. TypeInv => TypeOK
  BY DEF TypeInv
<1> QED
  BY <1>1, TypeInit, TypeStep, PTL DEF Spec

-----------------------------------------------------------------------------
(* Pinned handles: the inductive invariant *)

\* The expiry that a manager has confirmed for an artifact is that of live
\* handles, is in the catalog, and is later than the one that a round of the
\* heartbeat is about to delete.
ConfirmedIsDurable ==
    \A o \in Owners, a \in Artifacts :
        confirmed[o][a] > 0 =>
            /\ Live(o, a)
            /\ lease[o][a] >= confirmed[o][a]
            /\ a \in indexed \cap trees
            /\ confirmed[o][a] > beat[o].releases[a]

\* The expiry of an opening is later than every one at which its row could be
\* deleted before its handle is counted.
OpeningIsNewest ==
    \A o \in Owners, a \in Artifacts :
        Opening(o, a) /\ status[o] = "open" /\ op.stamp > 0 =>
            /\ op.stamp > beat[o].releases[a]
            /\ ~Live(o, a) =>
                /\ op.stamp > pending[o][a]
                /\ beat[o].pc \in {"update", "confirm"} /\ a \in beat[o].live
                       => op.stamp > beat[o].stamp

\* The row that an opening or commit acquired is there until its handle is counted.
AcquiredIsDurable ==
    \A o \in Owners, a \in Artifacts :
        At(o, a, "handle") =>
            /\ a \in indexed
            /\ status[o] = "open" => lease[o][a] >= op.stamp

\* What a round of the heartbeat renewed is in the catalog when it confirms.
RenewedIsDurable ==
    \A o \in Owners, a \in Artifacts :
        beat[o].pc = "confirm" /\ a \in beat[o].live \ beat[o].lost
            => lease[o][a] >= beat[o].stamp

\* The maintenance lock keeps the victims of retention without a lease.
VictimsAreUnleased ==
    op.pc = "decide" =>
        /\ op.moved \subseteq op.victims
        /\ op.victims \cap (trees \cup Leased) = {}

\* Nobody has a handle to a tree that a commit has just installed.
FreshIsUnused ==
    \A o \in Owners, a \in Artifacts :
        At(o, a, "publish") /\ op.fresh => \A p \in Owners : confirmed[p][a] = 0

LeaseInv ==
    /\ ConfirmedIsDurable
    /\ OpeningIsNewest
    /\ AcquiredIsDurable
    /\ RenewedIsDurable
    /\ VictimsAreUnleased
    /\ FreshIsUnused

LEMMA LeaseInit == Init => LeaseInv
<1> SUFFICES ASSUME Init PROVE LeaseInv
  OBVIOUS
<1> USE DEF Init, NoOp, NoBeat
<1>1. ConfirmedIsDurable
  BY DEF ConfirmedIsDurable
<1>2. OpeningIsNewest /\ AcquiredIsDurable /\ FreshIsUnused
  BY DEF OpeningIsNewest, AcquiredIsDurable, FreshIsUnused, Opening, At
<1>3. RenewedIsDurable
  BY DEF RenewedIsDurable
<1>4. VictimsAreUnleased
  BY DEF VictimsAreUnleased
<1> QED
  BY <1>1, <1>2, <1>3, <1>4 DEF LeaseInv

\* The numbers that the invariant compares.
LEMMA Numbers ==
    ASSUME TypeOK
    PROVE  /\ op.stamp \in Nat
           /\ \A o \in Owners, a \in Artifacts :
                  /\ lease[o][a] \in Nat /\ confirmed[o][a] \in Nat
                  /\ pending[o][a] \in Int /\ pending[o][a] >= NoRelease
                  /\ beat[o].releases[a] \in Int /\ beat[o].releases[a] >= NoRelease
                  /\ beat[o].stamp \in Nat
<1>1. op.stamp \in Nat
  BY OpFields DEF TypeOK, Stamps
<1>2. ASSUME NEW o \in Owners, NEW a \in Artifacts
      PROVE  /\ lease[o][a] \in Nat /\ confirmed[o][a] \in Nat
             /\ pending[o][a] \in Int /\ pending[o][a] >= NoRelease
  BY DEF TypeOK, Stamps, NoRelease
<1>3. ASSUME NEW o \in Owners, NEW a \in Artifacts
      PROVE  /\ beat[o].releases[a] \in Int /\ beat[o].releases[a] >= NoRelease
             /\ beat[o].stamp \in Nat
  BY BeatFields DEF Stamps, NoRelease
<1> QED
  BY <1>1, <1>2, <1>3

\* A new reading of expiry() is later than every one in use.
LEMMA ReadingIsLater ==
    ASSUME NEW stamp, ReadExpiry(stamp), NEW o \in Owners, NEW a \in Artifacts
    PROVE  /\ lease[o][a] < stamp /\ confirmed[o][a] < stamp /\ pending[o][a] < stamp
           /\ beat[o].releases[a] < stamp /\ beat[o].stamp < stamp
<1> DEFINE in(p, b) == {lease[p][b], confirmed[p][b], pending[p][b], beat[p].releases[b], beat[p].stamp}
<1>1. in(o, a) \in {in(p, b) : p \in Owners, b \in Artifacts}
  OBVIOUS
<1>2. UNION {in(p, b) : p \in Owners, b \in Artifacts} \subseteq Outstanding
  BY DEF Outstanding
<1>3. in(o, a) \subseteq Outstanding
  <2> HIDE DEF in
  <2> QED
    BY <1>1, <1>2
<1> QED
  BY <1>3 DEF ReadExpiry

\* What the invariant says of the operation under the maintenance lock.
OperationInv == OpeningIsNewest /\ AcquiredIsDurable /\ VictimsAreUnleased /\ FreshIsUnused

LEMMA UnstampedOperation ==
    ASSUME op'.stamp = 0, op'.pc \notin {"decide", "publish", "handle"}
    PROVE  OperationInv'
<1>1. OpeningIsNewest'
  BY DEF OpeningIsNewest
<1>2. AcquiredIsDurable' /\ FreshIsUnused' /\ VictimsAreUnleased'
  BY DEF AcquiredIsDurable, FreshIsUnused, VictimsAreUnleased, At
<1> QED
  BY <1>1, <1>2 DEF OperationInv

LEMMA NoOperation ==
    ASSUME op' = NoOp
    PROVE  OperationInv'
BY UnstampedOperation DEF NoOp

LEMMA SameOperation ==
    ASSUME OpeningIsNewest, UNCHANGED <<status, handles, pending, beat>>,
           op'.owner = op.owner, op'.artifact = op.artifact, op'.stamp = op.stamp
    PROVE  OpeningIsNewest'
BY DEF OpeningIsNewest, Opening, Live

\* Steps of the operation that leave leases and managers alone.
LEMMA OperationStep ==
    ASSUME LeaseInv, UNCHANGED <<lease, handles, confirmed, beat>>, OperationInv',
           \A o \in Owners, a \in Artifacts :
               confirmed[o][a] > 0 => a \in indexed' \cap trees'
    PROVE  LeaseInv'
<1>1. ConfirmedIsDurable'
  BY DEF LeaseInv, ConfirmedIsDurable, Live
<1>2. RenewedIsDurable'
  BY DEF LeaseInv, RenewedIsDurable
<1> QED
  BY <1>1, <1>2 DEF LeaseInv, OperationInv

\* The row of an opening or commit gets at least the expiry that it has read.
LEMMA AcquirePins ==
    ASSUME TypeOK, LeaseInv, NEW o \in Owners, NEW a \in Artifacts,
           Opening(o, a), AcquireRow(o, a), Goto("handle"), a \in indexed',
           indexed \subseteq indexed', UNCHANGED <<trees, manager, beat>>
    PROVE  LeaseInv'
<1>1. /\ op'.pc = "handle" /\ op'.owner = op.owner /\ op'.artifact = op.artifact
      /\ op'.stamp = op.stamp
  BY DEF Goto, TypeOK, OpSet
<1>2. \A p \in Owners, b \in Artifacts :
          lease'[p][b] = IF p = o /\ b = a THEN Later(lease[o][a], op.stamp) ELSE lease[p][b]
  BY DEF AcquireRow, TypeOK
<1>3. \A p \in Owners, b \in Artifacts : lease'[p][b] >= lease[p][b]
  BY <1>2, Numbers DEF Later
<1>4. ConfirmedIsDurable'
  <2> SUFFICES ASSUME NEW p \in Owners, NEW b \in Artifacts, confirmed[p][b] > 0
               PROVE  /\ Live(p, b)
                      /\ lease'[p][b] >= confirmed[p][b]
                      /\ b \in indexed' \cap trees
                      /\ confirmed[p][b] > beat[p].releases[b]
    BY DEF ConfirmedIsDurable, manager, Live
  <2>1. lease'[p][b] \in Int
    BY <1>2, Numbers DEF Later
  <2> QED
    BY <1>3, <2>1, Numbers DEF LeaseInv, ConfirmedIsDurable
<1>5. OpeningIsNewest'
  BY <1>1 DEF LeaseInv, OpeningIsNewest, Opening, Live, manager
<1>6. AcquiredIsDurable'
  <2>1. lease'[o][a] >= op.stamp
    BY <1>2, Numbers DEF Later
  <2> QED
    BY <1>1, <2>1 DEF AcquiredIsDurable, At, Opening
<1>7. RenewedIsDurable'
  <2> SUFFICES ASSUME NEW p \in Owners, NEW b \in Artifacts,
                      beat[p].pc = "confirm", b \in beat[p].live \ beat[p].lost
               PROVE  lease'[p][b] >= beat[p].stamp
    BY DEF RenewedIsDurable
  <2>1. lease'[p][b] \in Int
    BY <1>2, Numbers DEF Later
  <2> QED
    BY <1>3, <2>1, Numbers DEF LeaseInv, RenewedIsDurable
<1>8. VictimsAreUnleased' /\ FreshIsUnused'
  BY <1>1 DEF VictimsAreUnleased, FreshIsUnused, At
<1> QED
  BY <1>4, <1>5, <1>6, <1>7, <1>8 DEF LeaseInv

LEMMA OpenPins ==
    ASSUME TypeInv, LeaseInv, NEW o \in Owners, Open(o)
    PROVE  LeaseInv'
<1>n. TypeOK /\ ConfirmedIsDurable
  BY DEF TypeInv, LeaseInv
<1>i. \A p \in Owners, a \in Artifacts : confirmed[p][a] > 0 => a \in indexed \cap trees
  BY <1>n DEF ConfirmedIsDurable
<1>1. CASE Recover(o)
  <2>1. OperationInv'
    <3>1. op.pc = "none" /\ UNCHANGED op
      BY <1>1 DEF Recover, Idle
    <3>3. AcquiredIsDurable' /\ FreshIsUnused' /\ VictimsAreUnleased'
      BY <3>1 DEF AcquiredIsDurable, FreshIsUnused, VictimsAreUnleased, At
    <3>4. OpeningIsNewest'
      BY <1>1, SameOperation DEF Recover, manager, LeaseInv
    <3> QED
      BY <3>3, <3>4 DEF OperationInv
  <2> QED
    BY <1>1, <1>i, <2>1, OperationStep DEF Recover, Recovered, manager
<1>2. ASSUME NEW a \in Artifacts, BeginOpen(o, a)
      PROVE  LeaseInv'
  <2>1. PICK stamp \in Stamps :
            /\ ReadExpiry(stamp)
            /\ op' = [NoOp EXCEPT !.pc = "lookup", !.kind = "open", !.owner = o,
                                  !.artifact = a, !.stamp = stamp]
    BY <1>2 DEF BeginOpen
  <2>2. op'.pc = "lookup" /\ op'.owner = o /\ op'.artifact = a /\ op'.stamp = stamp
    BY <2>1 DEF NoOp
  <2>3. UNCHANGED <<stored, lease, manager, beat>>
    BY <1>2 DEF BeginOpen
  <2>4. OpeningIsNewest'
    BY <2>1, <2>2, <2>3, ReadingIsLater DEF OpeningIsNewest, Opening, Live, manager
  <2>5. AcquiredIsDurable' /\ FreshIsUnused' /\ VictimsAreUnleased'
    BY <2>2 DEF AcquiredIsDurable, FreshIsUnused, VictimsAreUnleased, At
  <2> QED
    BY <1>i, <2>3, <2>4, <2>5, OperationStep DEF OperationInv, stored, manager
<1>3. ASSUME NEW a \in Artifacts, OpenLookup(o, a)
      PROVE  LeaseInv'
  BY <1>3, <1>n, AcquirePins DEF OpenLookup, At, Opening, stored
<1>4. ASSUME NEW a \in Artifacts,
             OpenMissing(o, a) \/ OpenCorrupt(o, a) \/ AcquireRefused(o, a)
      PROVE  LeaseInv'
  <2>1. /\ op' = NoOp
        /\ UNCHANGED <<indexed, lease, manager, beat>>
        /\ trees' \in {trees, indexed}
    BY <1>4 DEF OpenMissing, OpenCorrupt, AcquireRefused, EndOp, Recovered, stored
  <2> QED
    BY <1>i, <2>1, NoOperation, OperationStep DEF manager
<1>5. ASSUME NEW a \in Artifacts, AcquireHandle(o, a)
      PROVE  LeaseInv'
  <2>1. /\ At(o, a, "handle") /\ a \in trees
        /\ status[o] = "open" /\ op.stamp > 0
        /\ op' = NoOp
        /\ UNCHANGED <<stored, lease, status, failed, beat>>
        /\ handles' = [handles EXCEPT ![o][a]["attached"] = @ + 1]
        /\ confirmed' = [confirmed EXCEPT ![o][a] = Later(op.stamp, @)]
    BY <1>5 DEF AcquireHandle, Acquirable, EndOp
  <2>2. \A p \in Owners, b \in Artifacts : Live(p, b) \/ (p = o /\ b = a) => Live(p, b)'
    <3> SUFFICES ASSUME NEW p \in Owners, NEW b \in Artifacts, Live(p, b) \/ (p = o /\ b = a)
                 PROVE  \E k \in Kinds : handles'[p][b][k] > 0
      BY DEF Live
    <3>1. \A k \in Kinds : handles[p][b][k] \in Nat /\ handles'[p][b][k] >= handles[p][b][k]
      BY <1>n, <2>1 DEF TypeOK
    <3>2. p = o /\ b = a => handles'[p][b]["attached"] > 0
      BY <1>n, <2>1 DEF TypeOK, Kinds
    <3>3. \A k \in Kinds : handles'[p][b][k] \in Int
      BY <1>n, <2>1 DEF TypeOK
    <3> QED
      BY <3>1, <3>2, <3>3 DEF Live, Kinds
  <2>3. \A p \in Owners, b \in Artifacts :
            confirmed'[p][b] = IF p = o /\ b = a THEN Later(op.stamp, confirmed[o][a])
                               ELSE confirmed[p][b]
    BY <1>n, <2>1 DEF TypeOK
  <2>4. /\ lease[o][a] >= op.stamp /\ a \in indexed \cap trees
        /\ op.stamp > beat[o].releases[a]
    BY <2>1 DEF LeaseInv, AcquiredIsDurable, OpeningIsNewest, At, Opening
  <2>5. ConfirmedIsDurable'
    <3> SUFFICES ASSUME NEW p \in Owners, NEW b \in Artifacts, confirmed'[p][b] > 0
                 PROVE  /\ Live(p, b)'
                        /\ lease[p][b] >= confirmed'[p][b]
                        /\ b \in indexed \cap trees
                        /\ confirmed'[p][b] > beat[p].releases[b]
      BY <2>1 DEF ConfirmedIsDurable, stored
    <3>1. CASE p = o /\ b = a
      BY <1>n, <2>2, <2>3, <2>4, <3>1, Numbers DEF Later, ConfirmedIsDurable
    <3>2. CASE ~(p = o /\ b = a)
      BY <1>n, <2>2, <2>3, <3>2 DEF ConfirmedIsDurable
    <3> QED
      BY <3>1, <3>2
  <2>6. RenewedIsDurable'
    BY <2>1 DEF LeaseInv, RenewedIsDurable
  <2> QED
    BY <2>1, <2>5, <2>6, NoOperation DEF LeaseInv, OperationInv
<1> QED
  BY <1>1, <1>2, <1>3, <1>4, <1>5 DEF Open

LEMMA PruneOrCommitPins ==
    ASSUME TypeInv, LeaseInv, NEW o \in Owners, PruneOrCommit(o)
    PROVE  LeaseInv'
<1>n. TypeOK /\ ConfirmedIsDurable
  BY DEF TypeInv, LeaseInv
<1>i. \A p \in Owners, a \in Artifacts :
          confirmed[p][a] > 0 => a \in indexed \cap trees /\ a \in Leased
  BY <1>n, Numbers DEF ConfirmedIsDurable, Leased
<1>o. op \in OpSet
  BY <1>n DEF TypeOK
<1>1. CASE BeginPrune(o) \/ \E a \in Artifacts : BeginCommit(o, a)
  <2>1. op'.pc = "flush" /\ op'.stamp = 0
    BY <1>1 DEF BeginPrune, BeginCommit, NoOp
  <2>2. UNCHANGED <<stored, lease, manager, beat>>
    BY <1>1 DEF BeginPrune, BeginCommit
  <2> QED
    BY <1>i, <2>1, <2>2, UnstampedOperation, OperationStep DEF stored, manager
<1>2. CASE QuarantineVictims(o)
  <2>1. PICK victims \in SUBSET Evictable :
            /\ trees' = trees \ victims
            /\ op' = [op EXCEPT !.pc = "decide", !.victims = victims, !.moved = victims \cap trees]
    BY <1>2 DEF QuarantineVictims
  <2>2. /\ op'.pc = "decide" /\ op'.victims = victims /\ op'.moved = victims \cap trees
        /\ op'.owner = op.owner /\ op'.artifact = op.artifact /\ op'.stamp = op.stamp
    BY <1>o, <2>1 DEF OpSet
  <2>3. UNCHANGED <<indexed, lease, manager, beat>>
    BY <1>2 DEF QuarantineVictims
  <2>4. VictimsAreUnleased'
    BY <2>1, <2>2, <2>3 DEF VictimsAreUnleased, Evictable, Leased
  <2>5. AcquiredIsDurable' /\ FreshIsUnused'
    BY <2>2 DEF AcquiredIsDurable, FreshIsUnused, At
  <2>6. OpeningIsNewest'
    BY <2>2, <2>3, SameOperation DEF LeaseInv, manager
  <2> QED
    BY <1>i, <2>1, <2>3, <2>4, <2>5, <2>6, OperationStep DEF OperationInv, Evictable, manager
<1>3. CASE FlushRefused(o)
  BY <1>3, <1>i, NoOperation, OperationStep DEF FlushRefused, EndOp, stored
<1>4. CASE CommitPrune(o)
  <2>1. PICK matched \in SUBSET (op.victims \cap Evictable) :
            /\ indexed' = indexed \ matched
            /\ trees' = trees \cup (op.moved \ matched)
    BY <1>4 DEF CommitPrune
  <2>2. UNCHANGED <<lease, manager, beat>>
    BY <1>4 DEF CommitPrune
  <2>3. ASSUME NEW p \in Owners, NEW a \in Artifacts, confirmed[p][a] > 0
        PROVE  a \in indexed' \cap trees'
    BY <1>i, <2>1, <2>3 DEF Evictable
  <2>4. OperationInv'
    <3>1. CASE op' = NoOp
      BY <3>1, NoOperation
    <3>2. CASE op' = [op EXCEPT !.pc = "install", !.victims = {}, !.moved = {}]
      <4>1. /\ op'.pc = "install"
            /\ op'.owner = op.owner /\ op'.artifact = op.artifact /\ op'.stamp = op.stamp
        BY <1>o, <3>2 DEF OpSet
      <4> QED
        BY <2>2, <4>1, SameOperation DEF OperationInv, LeaseInv, VictimsAreUnleased,
           AcquiredIsDurable, FreshIsUnused, At, manager
    <3> QED
      BY <1>4, <3>1, <3>2 DEF CommitPrune
  <2> QED
    BY <2>2, <2>3, <2>4, OperationStep DEF manager
<1>5. CASE PruneFails(o) \/ OpFails(o)
  <2>1. /\ op' = NoOp /\ trees \subseteq trees'
        /\ UNCHANGED <<indexed, lease, manager, beat>>
    BY <1>5 DEF PruneFails, OpFails, EndOp, stored
  <2> QED
    BY <1>i, <2>1, NoOperation, OperationStep DEF manager
<1>6. ASSUME NEW a \in Artifacts, Install(o, a)
      PROVE  LeaseInv'
  <2>1. PICK stamp \in Stamps :
            /\ ReadExpiry(stamp)
            /\ op' = [op EXCEPT !.pc = "publish", !.stamp = stamp, !.fresh = a \notin trees]
    BY <1>6 DEF Install
  <2>2. /\ op'.pc = "publish" /\ op'.stamp = stamp /\ op'.fresh = (a \notin trees)
        /\ op'.owner = o /\ op'.artifact = a
    BY <1>6, <1>o, <2>1 DEF Install, At, OpSet
  <2>3. UNCHANGED <<indexed, lease, manager, beat>> /\ trees \subseteq trees'
    BY <1>6 DEF Install
  <2>4. OpeningIsNewest'
    BY <2>1, <2>2, <2>3, ReadingIsLater DEF OpeningIsNewest, Opening, Live, manager
  <2>5. FreshIsUnused'
    <3>1. a \notin trees => \A p \in Owners : confirmed[p][a] = 0
      BY <1>i, <1>n, Numbers
    <3> QED
      BY <2>2, <2>3, <3>1 DEF FreshIsUnused, At, manager
  <2>6. AcquiredIsDurable' /\ VictimsAreUnleased'
    BY <2>2 DEF AcquiredIsDurable, VictimsAreUnleased, At
  <2> QED
    BY <1>i, <2>3, <2>4, <2>5, <2>6, OperationStep DEF OperationInv, manager
<1>7. ASSUME NEW a \in Artifacts, Publish(o, a)
      PROVE  LeaseInv'
  BY <1>7, <1>n, AcquirePins DEF Publish, At, Opening
<1>8. ASSUME NEW a \in Artifacts, PublishFails(o, a)
      PROVE  LeaseInv'
  <2>1. /\ op' = NoOp /\ UNCHANGED <<indexed, lease, manager, beat>>
        /\ trees' = IF op.fresh THEN trees \ {a} ELSE trees
    BY <1>8 DEF PublishFails, EndOp
  <2>2. op.fresh => \A p \in Owners : confirmed[p][a] = 0
    BY <1>8 DEF PublishFails, LeaseInv, FreshIsUnused
  <2>3. ASSUME NEW p \in Owners, NEW b \in Artifacts, confirmed[p][b] > 0
        PROVE  b \in indexed' \cap trees'
    BY <1>i, <2>1, <2>2, <2>3
  <2> QED
    BY <2>1, <2>3, NoOperation, OperationStep DEF manager
<1> QED
  BY <1>1, <1>2, <1>3, <1>4, <1>5, <1>6, <1>7, <1>8 DEF PruneOrCommit

\* Steps of a manager that leave the catalog, the trees and the operation alone.
LEMMA ManagerStep ==
    ASSUME LeaseInv, UNCHANGED <<indexed, trees, lease, op>>,
           \A o \in Owners : status'[o] = "open" => status[o] = "open",
           \A o \in Owners, a \in Artifacts : confirmed[o][a] = 0 => confirmed'[o][a] = 0,
           ConfirmedIsDurable', OpeningIsNewest', RenewedIsDurable'
    PROVE  LeaseInv'
<1>1. AcquiredIsDurable'
  BY DEF LeaseInv, AcquiredIsDurable, At
<1>2. VictimsAreUnleased'
  BY DEF LeaseInv, VictimsAreUnleased, Leased
<1>3. FreshIsUnused'
  BY DEF LeaseInv, FreshIsUnused, At
<1> QED
  BY <1>1, <1>2, <1>3 DEF LeaseInv

LEMMA HandlePins ==
    ASSUME TypeInv, LeaseInv, ReleaseWhileOpening = FALSE, NEW o \in Owners, Handle(o)
    PROVE  LeaseInv'
<1>n. TypeOK /\ ConfirmedIsDurable /\ OpeningIsNewest /\ RenewedIsDurable
  BY DEF TypeInv, LeaseInv
<1>h. \A p \in Owners, b \in Artifacts, k \in Kinds : handles[p][b][k] \in Nat
  BY <1>n DEF TypeOK
<1>1. ASSUME NEW a \in Artifacts, NEW k \in Kinds, Retain(o, a, k)
      PROVE  LeaseInv'
  <2>1. /\ UNCHANGED <<indexed, trees, lease, status, confirmed, beat, op>>
        /\ handles' = [handles EXCEPT ![o][a][k] = @ + 1]
        /\ pending' = [pending EXCEPT ![o][a] = NoRelease]
    BY <1>1 DEF Retain, stored
  <2>2. \A p \in Owners, b \in Artifacts : Live(p, b) => Live(p, b)'
    <3> SUFFICES ASSUME NEW p \in Owners, NEW b \in Artifacts,
                        NEW j \in Kinds, handles[p][b][j] > 0
                 PROVE  handles'[p][b][j] > 0
      BY DEF Live
    <3> QED
      BY <1>n, <1>h, <2>1 DEF TypeOK
  <2>3. ConfirmedIsDurable'
    BY <1>n, <2>1, <2>2 DEF ConfirmedIsDurable
  <2>4. \A p \in Owners, b \in Artifacts : pending'[p][b] \in {NoRelease, pending[p][b]}
    BY <1>n, <2>1 DEF TypeOK
  <2>5. OpeningIsNewest'
    BY <1>n, <2>1, <2>2, <2>4, Numbers DEF OpeningIsNewest, Opening, NoRelease
  <2>6. RenewedIsDurable'
    BY <1>n, <2>1 DEF RenewedIsDurable
  <2> QED
    BY <2>1, <2>3, <2>5, <2>6, ManagerStep
<1>2. ASSUME NEW a \in Artifacts, NEW k \in Kinds, Release(o, a, k)
      PROVE  LeaseInv'
  <2> DEFINE last == \A j \in Kinds : handles[o][a][j] = IF j = k THEN 1 ELSE 0
             gone == IF last THEN {a} ELSE {}
  <2>1. /\ UNCHANGED <<indexed, trees, lease, status, beat, op>>
        /\ ~Opening(o, a)
        /\ handles[o][a][k] > 0
        /\ handles' = [handles EXCEPT ![o][a][k] = @ - 1]
        /\ pending' = [pending EXCEPT ![o] = Due(o, gone)]
        /\ confirmed' = [confirmed EXCEPT ![o] = Forgotten(o, gone)]
    BY <1>2 DEF Release, stored
  <2>2. ASSUME NEW p \in Owners, NEW b \in Artifacts, ~(p = o /\ b = a)
        PROVE  /\ Live(p, b)' <=> Live(p, b)
               /\ pending'[p][b] = pending[p][b] /\ confirmed'[p][b] = confirmed[p][b]
    BY <1>n, <2>1, <2>2 DEF TypeOK, Live, Due, Forgotten
  <2>3. confirmed'[o][a] = IF last THEN 0 ELSE confirmed[o][a]
    BY <1>n, <2>1 DEF TypeOK, Forgotten
  <2>4. ~last => Live(o, a)'
    <3> SUFFICES ASSUME ~last
                 PROVE  \E j \in Kinds : handles'[o][a][j] > 0
      BY DEF Live
    <3>1. PICK j \in Kinds : handles[o][a][j] # IF j = k THEN 1 ELSE 0
      OBVIOUS
    <3> HIDE DEF last, gone
    <3> QED
      BY <1>n, <1>h, <2>1, <3>1 DEF TypeOK
  <2> HIDE DEF last, gone
  <2>5. ConfirmedIsDurable'
    <3> SUFFICES ASSUME NEW p \in Owners, NEW b \in Artifacts, confirmed'[p][b] > 0
                 PROVE  /\ Live(p, b)'
                        /\ lease[p][b] >= confirmed'[p][b]
                        /\ b \in indexed \cap trees
                        /\ confirmed'[p][b] > beat[p].releases[b]
      BY <2>1 DEF ConfirmedIsDurable
    <3>1. CASE p = o /\ b = a
      BY <1>n, <2>3, <2>4, <3>1 DEF ConfirmedIsDurable
    <3>2. CASE ~(p = o /\ b = a)
      BY <1>n, <2>2, <3>2 DEF ConfirmedIsDurable
    <3> QED
      BY <3>1, <3>2
  <2>6. OpeningIsNewest'
    BY <1>n, <2>1, <2>2 DEF OpeningIsNewest, Opening
  <2>7. RenewedIsDurable'
    BY <1>n, <2>1 DEF RenewedIsDurable
  <2>8. \A p \in Owners, b \in Artifacts : confirmed[p][b] = 0 => confirmed'[p][b] = 0
    BY <2>2, <2>3
  <2> QED
    BY <2>1, <2>5, <2>6, <2>7, <2>8, ManagerStep
<1>3. CASE NoticeExpiry(o)
  <2>1. UNCHANGED <<indexed, trees, lease, status, handles, confirmed, pending, beat, op>>
    BY <1>3 DEF NoticeExpiry, stored
  <2>2. ConfirmedIsDurable' /\ RenewedIsDurable'
    BY <1>n, <2>1 DEF ConfirmedIsDurable, RenewedIsDurable, Live
  <2>3. OpeningIsNewest'
    BY <1>n, <2>1, SameOperation
  <2> QED
    BY <2>1, <2>2, <2>3, ManagerStep
<1> QED
  BY <1>1, <1>2, <1>3 DEF Handle

LEMMA LeavePins ==
    ASSUME TypeInv, LeaseInv, NEW o \in Owners, CloseManager(o) \/ Crash(o)
    PROVE  LeaseInv'
<1>n. TypeOK /\ ConfirmedIsDurable /\ OpeningIsNewest /\ RenewedIsDurable
  BY DEF TypeInv, LeaseInv
<1>1. CASE CloseManager(o)
  <2> DEFINE gone == LiveArtifacts(o) \ Detached(o)
  <2>1. /\ UNCHANGED <<indexed, trees, lease, beat, op>>
        /\ status' = [status EXCEPT ![o] = "closed"]
        /\ handles' = [handles EXCEPT ![o] = [a \in Artifacts |->
                                                  [handles[o][a] EXCEPT !["attached"] = 0]]]
        /\ pending' = [pending EXCEPT ![o] = Due(o, gone)]
        /\ confirmed' = [confirmed EXCEPT ![o] = Forgotten(o, gone)]
    BY <1>1 DEF CloseManager, stored
  <2>2. ASSUME NEW p \in Owners, NEW b \in Artifacts, p # o
        PROVE  /\ status'[p] = status[p]
               /\ Live(p, b)' <=> Live(p, b)
               /\ pending'[p][b] = pending[p][b] /\ confirmed'[p][b] = confirmed[p][b]
    BY <1>n, <2>1, <2>2 DEF TypeOK, Live
  <2>3. status'[o] = "closed"
    BY <1>n, <2>1 DEF TypeOK
  <2>4. ASSUME NEW b \in Artifacts
        PROVE  confirmed'[o][b] = IF b \in gone THEN 0 ELSE confirmed[o][b]
    BY <1>n, <2>1 DEF TypeOK, Forgotten
  <2>5. ASSUME NEW b \in Artifacts, b \notin gone, Live(o, b)
        PROVE  Live(o, b)'
    <3>1. handles[o][b]["detached"] > 0
      BY <2>5 DEF LiveArtifacts, Detached
    <3>2. handles'[o][b]["detached"] = handles[o][b]["detached"]
      BY <1>n, <2>1 DEF TypeOK, Kinds
    <3> QED
      BY <3>1, <3>2 DEF Live, Kinds
  <2> HIDE DEF gone
  <2>6. ConfirmedIsDurable'
    <3> SUFFICES ASSUME NEW p \in Owners, NEW b \in Artifacts, confirmed'[p][b] > 0
                 PROVE  /\ Live(p, b)'
                        /\ lease[p][b] >= confirmed'[p][b]
                        /\ b \in indexed \cap trees
                        /\ confirmed'[p][b] > beat[p].releases[b]
      BY <2>1 DEF ConfirmedIsDurable
    <3>1. CASE p = o
      BY <1>n, <2>4, <2>5, <3>1 DEF ConfirmedIsDurable
    <3>2. CASE p # o
      BY <1>n, <2>2, <3>2 DEF ConfirmedIsDurable
    <3> QED
      BY <3>1, <3>2
  <2>7. OpeningIsNewest'
    BY <1>n, <2>1, <2>2, <2>3 DEF OpeningIsNewest, Opening
  <2>8. RenewedIsDurable'
    BY <1>n, <2>1 DEF RenewedIsDurable
  <2>9. \A p \in Owners, b \in Artifacts : confirmed[p][b] = 0 => confirmed'[p][b] = 0
    BY <2>2, <2>4
  <2>10. \A p \in Owners : status'[p] = "open" => status[p] = "open"
    BY <2>1, <2>3 DEF TypeOK
  <2> QED
    BY <2>1, <2>6, <2>7, <2>8, <2>9, <2>10, ManagerStep
<1>2. CASE Crash(o)
  <2>1. /\ UNCHANGED <<indexed, trees, lease>>
        /\ status' = [status EXCEPT ![o] = "crashed"]
        /\ handles' = [handles EXCEPT ![o] = [a \in Artifacts |-> NoHandles]]
        /\ confirmed' = [confirmed EXCEPT ![o] = [a \in Artifacts |-> 0]]
        /\ pending' = [pending EXCEPT ![o] = NoReleases]
        /\ beat' = [beat EXCEPT ![o] = NoBeat]
        /\ op' = IF op.owner = o THEN NoOp ELSE op
    BY <1>2 DEF Crash, stored
  <2>2. ASSUME NEW p \in Owners, NEW b \in Artifacts, p # o
        PROVE  /\ status'[p] = status[p] /\ beat'[p] = beat[p]
               /\ Live(p, b)' <=> Live(p, b)
               /\ pending'[p][b] = pending[p][b] /\ confirmed'[p][b] = confirmed[p][b]
    BY <1>n, <2>1, <2>2 DEF TypeOK, Live
  <2>3. /\ \A b \in Artifacts : confirmed'[o][b] = 0
        /\ beat'[o].pc = "idle" /\ status'[o] = "crashed"
    BY <1>n, <2>1 DEF TypeOK, NoBeat
  <2>4. ConfirmedIsDurable'
    BY <1>n, <2>1, <2>2, <2>3 DEF ConfirmedIsDurable
  <2>5. RenewedIsDurable'
    BY <1>n, <2>1, <2>2, <2>3 DEF RenewedIsDurable
  <2>6. CASE op.owner = o
    BY <2>1, <2>4, <2>5, <2>6, NoOperation DEF LeaseInv, OperationInv
  <2>7. CASE op.owner # o
    <3>1. OpeningIsNewest'
      BY <1>n, <2>1, <2>2, <2>7 DEF OpeningIsNewest, Opening
    <3>2. \A p \in Owners : status'[p] = "open" => status[p] = "open"
      BY <1>n, <2>1 DEF TypeOK
    <3>3. \A p \in Owners, b \in Artifacts : confirmed[p][b] = 0 => confirmed'[p][b] = 0
      BY <2>2, <2>3
    <3> QED
      BY <2>1, <2>4, <2>5, <2>7, <3>1, <3>2, <3>3, ManagerStep
  <2> QED
    BY <2>6, <2>7
<1> QED
  BY <1>1, <1>2

LEMMA NoBeatFields ==
    /\ NoBeat.pc = "idle" /\ NoBeat.live = {}
    /\ \A a \in Artifacts : NoBeat.releases[a] = NoRelease
    /\ [NoBeat EXCEPT !.pc = "dead"].pc = "dead"
    /\ [NoBeat EXCEPT !.pc = "dead"].releases = NoBeat.releases
BY DEF NoBeat, NoReleases

\* A round that ends gives back what it has taken or less.
LEMMA RoundEnds ==
    ASSUME TypeOK, LeaseInv, NEW o \in Owners, NEW r,
           beat' = [beat EXCEPT ![o] = r],
           r.pc \in {"idle", "dead"}, r.releases = NoBeat.releases,
           UNCHANGED <<indexed, trees, lease, handles, op>>,
           \A p \in Owners : status'[p] = "open" => status[p] = "open",
           \A p \in Owners, b \in Artifacts : confirmed[p][b] = 0 => confirmed'[p][b] = 0,
           \A p \in Owners, b \in Artifacts : p # o =>
               pending'[p][b] = pending[p][b] /\ confirmed'[p][b] = confirmed[p][b],
           \A b \in Artifacts :
               /\ confirmed'[o][b] \in Nat
               /\ confirmed'[o][b] > 0 => /\ lease[o][b] >= confirmed'[o][b]
                                          /\ confirmed[o][b] > 0
               /\ \/ pending'[o][b] \in {NoRelease, pending[o][b], beat[o].releases[b]}
                  \/ /\ beat[o].pc \in {"update", "confirm"} /\ b \in beat[o].live
                     /\ pending'[o][b] = Later(beat[o].stamp, pending[o][b])
    PROVE  LeaseInv'
<1>n. ConfirmedIsDurable /\ OpeningIsNewest /\ RenewedIsDurable
  BY DEF LeaseInv
<1>b. /\ \A p \in Owners : p # o => beat'[p] = beat[p]
      /\ beat'[o] = r
  BY DEF TypeOK
<1>r. \A b \in Artifacts : beat'[o].releases[b] = NoRelease
  BY <1>b, NoBeatFields
<1>1. ConfirmedIsDurable'
  <2> SUFFICES ASSUME NEW p \in Owners, NEW b \in Artifacts, confirmed'[p][b] > 0
               PROVE  /\ Live(p, b)
                      /\ lease[p][b] >= confirmed'[p][b]
                      /\ b \in indexed \cap trees
                      /\ confirmed'[p][b] > beat'[p].releases[b]
    BY DEF ConfirmedIsDurable, Live
  <2>1. CASE p # o
    BY <1>n, <1>b, <2>1 DEF ConfirmedIsDurable
  <2>2. CASE p = o
    <3>1. confirmed[o][b] > 0 /\ lease[o][b] >= confirmed'[o][b]
      BY <2>2
    <3>2. Live(o, b) /\ b \in indexed \cap trees
      BY <1>n, <3>1 DEF ConfirmedIsDurable
    <3>3. confirmed'[o][b] \in Nat /\ beat'[o].releases[b] = NoRelease
      BY <1>r
    <3>4. confirmed'[o][b] > beat'[o].releases[b]
      BY <3>3 DEF NoRelease
    <3> QED
      BY <2>2, <3>1, <3>2, <3>4
  <2> QED
    BY <2>1, <2>2
<1>2. OpeningIsNewest'
  <2> SUFFICES ASSUME NEW p \in Owners, NEW b \in Artifacts,
                      Opening(p, b), status[p] = "open", op.stamp > 0
               PROVE  /\ op.stamp > beat'[p].releases[b]
                      /\ ~Live(p, b) =>
                            /\ op.stamp > pending'[p][b]
                            /\ beat'[p].pc \in {"update", "confirm"} /\ b \in beat'[p].live
                                   => op.stamp > beat'[p].stamp
    BY DEF OpeningIsNewest, Opening, Live
  <2>1. CASE p # o
    BY <1>n, <1>b, <2>1 DEF OpeningIsNewest
  <2>2. CASE p = o
    <3>1. op.stamp > beat[o].releases[b] /\ op.stamp > NoRelease
      <4>1. op.stamp > NoRelease
        BY Numbers DEF NoRelease
      <4> QED
        BY <1>n, <2>2, <4>1 DEF OpeningIsNewest
    <3>2. ASSUME ~Live(o, b)
          PROVE  op.stamp > pending'[o][b]
      <4>1. op.stamp > pending[o][b]
        BY <1>n, <2>2, <3>2 DEF OpeningIsNewest
      <4>2. CASE pending'[o][b] \in {NoRelease, pending[o][b], beat[o].releases[b]}
        BY <3>1, <4>1, <4>2
      <4>3. CASE /\ beat[o].pc \in {"update", "confirm"} /\ b \in beat[o].live
                 /\ pending'[o][b] = Later(beat[o].stamp, pending[o][b])
        <5>1. op.stamp > beat[o].stamp
          BY <1>n, <2>2, <3>2, <4>3 DEF OpeningIsNewest
        <5> QED
          BY <4>1, <4>3, <5>1 DEF Later
      <4> QED
        BY <4>2, <4>3
    <3> QED
      BY <1>b, <1>r, <2>2, <3>1, <3>2
  <2> QED
    BY <2>1, <2>2
<1>3. RenewedIsDurable'
  BY <1>n, <1>b DEF RenewedIsDurable
<1> QED
  BY <1>1, <1>2, <1>3, ManagerStep

LEMMA HeartbeatPins ==
    ASSUME TypeInv, LeaseInv, NEW o \in Owners, Heartbeat(o)
    PROVE  LeaseInv'
<1>n. TypeOK /\ ConfirmedIsDurable /\ OpeningIsNewest /\ RenewedIsDurable
  BY DEF TypeInv, LeaseInv
<1>b. beat[o] \in BeatSet
  BY <1>n, BeatFields
<1>e. ASSUME NEW left, EndBeat(o, left)
      PROVE  /\ beat' = [beat EXCEPT ![o] = NoBeat]
             /\ \A p \in Owners : status'[p] = "open" => status[p] = "open"
  BY <1>e, <1>n DEF EndBeat, TypeOK
<1>1. CASE BeatSnapshot(o)
  <2> DEFINE releases == [a \in Artifacts |-> IF Live(o, a) THEN NoRelease ELSE pending[o][a]]
             left == [a \in Artifacts |-> IF Live(o, a) THEN pending[o][a] ELSE NoRelease]
  <2>1. /\ UNCHANGED <<indexed, trees, lease, status, handles, confirmed, op>>
        /\ beat' = [beat EXCEPT ![o] = [NoBeat EXCEPT !.pc = "release", !.releases = releases,
                        !.live = LiveArtifacts(o), !.closed = status[o] = "closed"]]
        /\ pending' = [pending EXCEPT ![o] = left]
    BY <1>1 DEF BeatSnapshot, stored
  <2>2. \A p \in Owners, b \in Artifacts : p # o => beat'[p] = beat[p] /\ pending'[p] = pending[p]
    BY <1>n, <2>1 DEF TypeOK
  <2>3. beat'[o].pc = "release" /\ beat'[o].releases = releases /\ pending'[o] = left
    BY <1>n, <2>1 DEF TypeOK, NoBeat
  <2>4. \A b \in Artifacts :
            /\ releases[b] \in {NoRelease, pending[o][b]} /\ left[b] \in {NoRelease, pending[o][b]}
            /\ Live(o, b) => releases[b] = NoRelease
    OBVIOUS
  <2> HIDE DEF releases, left
  <2>5. ConfirmedIsDurable'
    <3>1. ASSUME NEW b \in Artifacts, confirmed[o][b] > 0
          PROVE  confirmed[o][b] > beat'[o].releases[b]
      <4>1. Live(o, b)
        BY <1>n, <3>1 DEF ConfirmedIsDurable
      <4>2. beat'[o].releases[b] = NoRelease
        BY <2>3, <2>4, <4>1
      <4>3. confirmed[o][b] \in Nat
        BY <1>n, Numbers
      <4> QED
        BY <4>2, <4>3 DEF NoRelease
    <3> QED
      BY <1>n, <2>1, <2>2, <3>1 DEF ConfirmedIsDurable, Live
  <2>6. OpeningIsNewest'
    <3>1. ASSUME NEW b \in Artifacts, Opening(o, b), status[o] = "open", op.stamp > 0
          PROVE  /\ op.stamp > beat'[o].releases[b]
                 /\ ~Live(o, b) => op.stamp > pending'[o][b]
      <4>1. ~Live(o, b) => op.stamp > pending[o][b]
        BY <1>n, <3>1 DEF OpeningIsNewest
      <4>2. op.stamp > NoRelease
        BY <1>n, Numbers DEF NoRelease
      <4>3. Live(o, b) => beat'[o].releases[b] = NoRelease
        BY <2>3, <2>4
      <4>4. /\ beat'[o].releases[b] \in {NoRelease, pending[o][b]}
            /\ pending'[o][b] \in {NoRelease, pending[o][b]}
        BY <2>3, <2>4
      <4> QED
        BY <4>1, <4>2, <4>3, <4>4
    <3> QED
      BY <1>n, <2>1, <2>2, <2>3, <3>1 DEF OpeningIsNewest, Opening, Live
  <2>7. RenewedIsDurable'
    BY <1>n, <2>1, <2>2, <2>3 DEF RenewedIsDurable
  <2> QED
    BY <2>1, <2>5, <2>6, <2>7, ManagerStep
<1>2. CASE BeatRelease(o)
  <2>1. /\ UNCHANGED <<indexed, trees, status, handles, confirmed, pending, op>>
        /\ beat[o].pc = "release"
        /\ lease' = [lease EXCEPT ![o] = [a \in Artifacts |-> DeletedRow(o, a)]]
        /\ beat' = [beat EXCEPT ![o].pc = "start"]
    BY <1>2 DEF BeatRelease, stored, manager
  <2>2. \A p \in Owners : p # o => beat'[p] = beat[p] /\ lease'[p] = lease[p]
    BY <1>n, <2>1 DEF TypeOK
  <2>3. beat'[o].pc = "start" /\ beat'[o].releases = beat[o].releases
    BY <1>n, <1>b, <2>1 DEF TypeOK, BeatSet
  <2>4. \A b \in Artifacts :
            lease'[o][b] = IF lease[o][b] = beat[o].releases[b] THEN 0 ELSE lease[o][b]
    BY <1>n, <2>1 DEF TypeOK, DeletedRow
  <2>5. ConfirmedIsDurable'
    <3> SUFFICES ASSUME NEW p \in Owners, NEW b \in Artifacts, confirmed[p][b] > 0
                 PROVE  /\ Live(p, b)
                        /\ lease'[p][b] >= confirmed[p][b]
                        /\ b \in indexed \cap trees
                        /\ confirmed[p][b] > beat'[p].releases[b]
      BY <2>1 DEF ConfirmedIsDurable, Live
    <3>1. CASE p # o
      BY <1>n, <2>2, <3>1 DEF ConfirmedIsDurable
    <3>2. CASE p = o
      <4>1. lease[o][b] >= confirmed[o][b] /\ confirmed[o][b] > beat[o].releases[b]
        BY <1>n, <3>2 DEF ConfirmedIsDurable
      <4>2. lease'[o][b] = lease[o][b]
        BY <1>n, <2>4, <4>1, Numbers
      <4> QED
        BY <1>n, <2>3, <3>2, <4>1, <4>2 DEF ConfirmedIsDurable
    <3> QED
      BY <3>1, <3>2
  <2>6. OpeningIsNewest'
    BY <1>n, <2>1, <2>2, <2>3 DEF OpeningIsNewest, Opening, Live
  <2>7. AcquiredIsDurable'
    <3> SUFFICES ASSUME NEW p \in Owners, NEW b \in Artifacts, At(p, b, "handle")
                 PROVE  /\ b \in indexed
                        /\ status[p] = "open" => lease'[p][b] >= op.stamp
      BY <2>1 DEF AcquiredIsDurable, At
    <3>1. b \in indexed /\ (status[p] = "open" => lease[p][b] >= op.stamp)
      BY DEF LeaseInv, AcquiredIsDurable
    <3>2. CASE p # o
      BY <2>2, <3>1, <3>2
    <3>3. CASE p = o
      <4>1. op.stamp > 0 /\ status[o] = "open" => op.stamp > beat[o].releases[b]
        BY <1>n, <3>3 DEF OpeningIsNewest, Opening, At
      <4>2. op.stamp \in Nat /\ lease[o][b] \in Nat /\ beat[o].releases[b] \in Int
        BY <1>n, Numbers
      <4> QED
        BY <2>4, <3>1, <3>3, <4>1, <4>2
    <3> QED
      BY <3>2, <3>3
  <2>8. RenewedIsDurable'
    BY <1>n, <2>2, <2>3 DEF RenewedIsDurable
  <2>9. VictimsAreUnleased'
    <3>1. Leased' \subseteq Leased
      BY <2>2, <2>4 DEF Leased
    <3> QED
      BY <2>1, <3>1 DEF LeaseInv, VictimsAreUnleased
  <2>10. FreshIsUnused'
    BY <2>1 DEF LeaseInv, FreshIsUnused, At
  <2> QED
    BY <2>5, <2>6, <2>7, <2>8, <2>9, <2>10 DEF LeaseInv
<1>3. CASE BeatStart(o)
  <2>1. PICK stamp \in Stamps :
            /\ ReadExpiry(stamp)
            /\ beat' = [beat EXCEPT ![o] = [@ EXCEPT !.pc = "update", !.stamp = stamp,
                            !.live = beat[o].live \cap LiveArtifacts(o)]]
    BY <1>3 DEF BeatStart
  <2>2. UNCHANGED <<indexed, trees, lease, status, handles, confirmed, pending, op>>
    BY <1>3 DEF BeatStart, stored, manager
  <2>3. \A p \in Owners : p # o => beat'[p] = beat[p]
    BY <1>n, <2>1 DEF TypeOK
  <2>4. /\ beat'[o].pc = "update" /\ beat'[o].releases = beat[o].releases
        /\ beat'[o].live = beat[o].live \cap LiveArtifacts(o)
    BY <1>n, <1>b, <2>1 DEF TypeOK, BeatSet
  <2>5. ConfirmedIsDurable'
    BY <1>n, <2>2, <2>3, <2>4 DEF ConfirmedIsDurable, Live
  <2>6. OpeningIsNewest'
    <3>1. \A b \in Artifacts : b \in beat'[o].live => Live(o, b)
      BY <2>4 DEF LiveArtifacts
    <3> QED
      BY <1>n, <2>2, <2>3, <2>4, <3>1 DEF OpeningIsNewest, Opening, Live
  <2>7. RenewedIsDurable'
    BY <1>n, <2>2, <2>3, <2>4 DEF RenewedIsDurable
  <2> QED
    BY <2>2, <2>5, <2>6, <2>7, ManagerStep
<1>4. CASE BeatUpdate(o)
  <2> DEFINE renewed(a) == a \in beat[o].live /\ lease[o][a] > 0
  <2>1. /\ UNCHANGED <<indexed, trees, status, handles, confirmed, pending, op>>
        /\ beat[o].pc = "update"
        /\ lease' = [lease EXCEPT ![o] = [a \in Artifacts |->
               IF renewed(a) THEN Later(lease[o][a], beat[o].stamp) ELSE lease[o][a]]]
        /\ beat' = [beat EXCEPT ![o] = [@ EXCEPT !.pc = "confirm", !.releases = NoReleases,
                        !.lost = {a \in beat[o].live : lease[o][a] = 0}]]
    BY <1>4 DEF BeatUpdate, stored, manager
  <2>2. \A p \in Owners : p # o => beat'[p] = beat[p] /\ lease'[p] = lease[p]
    BY <1>n, <2>1 DEF TypeOK
  <2>3. /\ beat'[o].pc = "confirm" /\ beat'[o].releases = NoReleases
        /\ beat'[o].live = beat[o].live /\ beat'[o].stamp = beat[o].stamp
        /\ beat'[o].lost = {a \in beat[o].live : lease[o][a] = 0}
    BY <1>n, <1>b, <2>1 DEF TypeOK, BeatSet
  <2>4. \A b \in Artifacts :
            lease'[o][b] = IF renewed(b) THEN Later(lease[o][b], beat[o].stamp) ELSE lease[o][b]
    BY <1>n, <2>1 DEF TypeOK
  <2>5. \A p \in Owners, b \in Artifacts :
            /\ lease'[p][b] \in Nat /\ lease'[p][b] >= lease[p][b]
            /\ lease[p][b] = 0 => lease'[p][b] = 0
    BY <1>n, <2>2, <2>4, Numbers DEF Later
  <2>6. ConfirmedIsDurable'
    <3> SUFFICES ASSUME NEW p \in Owners, NEW b \in Artifacts, confirmed[p][b] > 0
                 PROVE  /\ Live(p, b)
                        /\ lease'[p][b] >= confirmed[p][b]
                        /\ b \in indexed \cap trees
                        /\ confirmed[p][b] > beat'[p].releases[b]
      BY <2>1 DEF ConfirmedIsDurable, Live
    <3>1. /\ Live(p, b) /\ lease[p][b] >= confirmed[p][b]
          /\ b \in indexed \cap trees /\ confirmed[p][b] > beat[p].releases[b]
      BY <1>n DEF ConfirmedIsDurable
    <3>2. lease'[p][b] >= confirmed[p][b]
      BY <1>n, <2>5, <3>1, Numbers
    <3>3. confirmed[p][b] > NoRelease
      BY <1>n, Numbers DEF NoRelease
    <3>4. beat'[p].releases[b] \in {NoRelease, beat[p].releases[b]}
      BY <2>2, <2>3 DEF NoReleases
    <3>5. confirmed[p][b] > beat'[p].releases[b]
      BY <3>1, <3>3, <3>4
    <3> QED
      BY <3>1, <3>2, <3>5
  <2>7. OpeningIsNewest'
    <3>1. op.stamp > NoRelease
      BY <1>n, Numbers DEF NoRelease
    <3>2. \A b \in Artifacts : beat'[o].releases[b] = NoRelease
      BY <2>3 DEF NoReleases
    <3>3. \A p \in Owners : /\ beat'[p].live = beat[p].live /\ beat'[p].stamp = beat[p].stamp
                            /\ beat'[p].pc \in {"update", "confirm"}
                                   => beat[p].pc \in {"update", "confirm"}
      BY <2>1, <2>2, <2>3
    <3> HIDE DEF renewed
    <3> QED
      BY <1>n, <2>1, <2>2, <3>1, <3>2, <3>3 DEF OpeningIsNewest, Opening, Live
  <2>8. AcquiredIsDurable'
    <3> SUFFICES ASSUME NEW p \in Owners, NEW b \in Artifacts, At(p, b, "handle")
                 PROVE  /\ b \in indexed
                        /\ status[p] = "open" => lease'[p][b] >= op.stamp
      BY <2>1 DEF AcquiredIsDurable, At
    <3>1. b \in indexed /\ (status[p] = "open" => lease[p][b] >= op.stamp)
      BY DEF LeaseInv, AcquiredIsDurable
    <3> QED
      BY <1>n, <2>5, <3>1, Numbers
  <2>9. RenewedIsDurable'
    <3>1. ASSUME NEW b \in Artifacts, b \in beat[o].live, lease[o][b] # 0
          PROVE  lease'[o][b] >= beat[o].stamp
      BY <1>n, <2>4, <3>1, Numbers DEF Later
    <3> QED
      BY <1>n, <2>2, <2>3, <3>1 DEF RenewedIsDurable
  <2>10. VictimsAreUnleased'
    <3>1. Leased' \subseteq Leased
      BY <1>n, <2>5, Numbers DEF Leased
    <3> QED
      BY <2>1, <3>1 DEF LeaseInv, VictimsAreUnleased
  <2>11. FreshIsUnused'
    BY <2>1 DEF LeaseInv, FreshIsUnused, At
  <2> QED
    BY <2>6, <2>7, <2>8, <2>9, <2>10, <2>11 DEF LeaseInv
<1>5. CASE BeatNothing(o)
  <2>1. /\ UNCHANGED <<indexed, trees, lease, handles, confirmed, pending, op>>
        /\ beat' = [beat EXCEPT ![o] = NoBeat]
        /\ \A p \in Owners : status'[p] = "open" => status[p] = "open"
    BY <1>5, <1>e DEF BeatNothing, stored
  <2>2. \A b \in Artifacts : /\ confirmed[o][b] \in Nat
                             /\ confirmed[o][b] > 0 => lease[o][b] >= confirmed[o][b]
    BY <1>n, Numbers DEF ConfirmedIsDurable
  <2> QED
    BY <1>n, <2>1, <2>2, NoBeatFields, RoundEnds
<1>6. CASE BeatConfirm(o)
  <2>1. /\ UNCHANGED <<indexed, trees, lease, handles, op>>
        /\ beat[o].pc = "confirm"
        /\ beat' = [beat EXCEPT ![o] = NoBeat]
        /\ \A p \in Owners : status'[p] = "open" => status[p] = "open"
        /\ pending' = [pending EXCEPT ![o] = RenewedReleases(o)]
        /\ confirmed' = [confirmed EXCEPT ![o] = [a \in Artifacts |->
               IF ~Poisoned(o) /\ Live(o, a) /\ a \in beat[o].live \ beat[o].lost
               THEN Later(beat[o].stamp, confirmed[o][a]) ELSE confirmed[o][a]]]
    BY <1>6, <1>e DEF BeatConfirm, stored
  <2>2. \A p \in Owners, b \in Artifacts : p # o =>
            pending'[p][b] = pending[p][b] /\ confirmed'[p][b] = confirmed[p][b]
    BY <1>n, <2>1 DEF TypeOK
  <2>3. ASSUME NEW b \in Artifacts
        PROVE  /\ confirmed[o][b] = 0 => confirmed'[o][b] = 0
               /\ confirmed'[o][b] \in Nat
               /\ confirmed'[o][b] > 0 => /\ lease[o][b] >= confirmed'[o][b]
                                          /\ confirmed[o][b] > 0
    <3>1. confirmed'[o][b] =
              IF ~Poisoned(o) /\ Live(o, b) /\ b \in beat[o].live \ beat[o].lost
              THEN Later(beat[o].stamp, confirmed[o][b]) ELSE confirmed[o][b]
      BY <1>n, <2>1 DEF TypeOK
    <3>2. ~Poisoned(o) /\ Live(o, b) => confirmed[o][b] # 0
      BY DEF Poisoned, LiveArtifacts
    <3>3. confirmed[o][b] > 0 => lease[o][b] >= confirmed[o][b]
      BY <1>n DEF ConfirmedIsDurable
    <3>4. b \in beat[o].live \ beat[o].lost => lease[o][b] >= beat[o].stamp
      BY <1>n, <2>1 DEF RenewedIsDurable
    <3> QED
      BY <1>n, <3>1, <3>2, <3>3, <3>4, Numbers DEF Later
  <2>4. \A b \in Artifacts :
            \/ pending'[o][b] = pending[o][b]
            \/ b \in beat[o].live /\ pending'[o][b] = Later(beat[o].stamp, pending[o][b])
    BY <1>n, <2>1 DEF TypeOK, RenewedReleases
  <2> QED
    <3>1. \A p \in Owners, b \in Artifacts : confirmed[p][b] = 0 => confirmed'[p][b] = 0
      BY <2>2, <2>3
    <3> QED
      BY <1>n, <2>1, <2>2, <2>3, <2>4, <3>1, NoBeatFields, RoundEnds
<1>7. CASE BeatBusy(o) \/ BeatFail(o)
  <2>1. PICK r \in {NoBeat, [NoBeat EXCEPT !.pc = "dead"]} :
            /\ UNCHANGED <<indexed, trees, lease, handles, confirmed, op>>
            /\ beat' = [beat EXCEPT ![o] = r]
            /\ pending' = [pending EXCEPT ![o] = IF GivesUp(o) THEN NoReleases ELSE Restored(o)]
            /\ status' = IF GivesUp(o) THEN [status EXCEPT ![o] = "stopped"] ELSE status
    BY <1>7 DEF BeatBusy, BeatFail, stored
  <2>2. \A p \in Owners : status'[p] = "open" => status[p] = "open"
    BY <1>n, <2>1 DEF TypeOK
  <2>3. \A p \in Owners, b \in Artifacts : p # o => pending'[p][b] = pending[p][b]
    BY <1>n, <2>1 DEF TypeOK
  <2>4. \A b \in Artifacts :
            pending'[o][b] \in {NoRelease, pending[o][b], beat[o].releases[b]}
    BY <1>n, <2>1 DEF TypeOK, Restored, NoReleases
  <2>5. \A b \in Artifacts :
            /\ confirmed'[o][b] \in Nat
            /\ confirmed'[o][b] > 0 => lease[o][b] >= confirmed'[o][b] /\ confirmed[o][b] > 0
    BY <1>n, <2>1, Numbers DEF ConfirmedIsDurable
  <2>6. r.pc \in {"idle", "dead"} /\ r.releases = NoBeat.releases
    BY NoBeatFields
  <2>7. /\ beat' = [beat EXCEPT ![o] = r]
        /\ UNCHANGED <<indexed, trees, lease, handles, op>>
        /\ \A p \in Owners, b \in Artifacts : confirmed'[p][b] = confirmed[p][b]
    BY <2>1
  <2>8. /\ \A p \in Owners, b \in Artifacts : confirmed[p][b] = 0 => confirmed'[p][b] = 0
        /\ \A p \in Owners, b \in Artifacts : p # o =>
               pending'[p][b] = pending[p][b] /\ confirmed'[p][b] = confirmed[p][b]
    BY <2>3, <2>7
  <2>9. \A b \in Artifacts :
            /\ confirmed'[o][b] \in Nat
            /\ confirmed'[o][b] > 0 => /\ lease[o][b] >= confirmed'[o][b]
                                       /\ confirmed[o][b] > 0
            /\ \/ pending'[o][b] \in {NoRelease, pending[o][b], beat[o].releases[b]}
               \/ /\ beat[o].pc \in {"update", "confirm"} /\ b \in beat[o].live
                  /\ pending'[o][b] = Later(beat[o].stamp, pending[o][b])
    BY <2>4, <2>5
  <2> HIDE <1>7
  <2> QED
    BY <1>n, <2>2, <2>6, <2>7, <2>8, <2>9, RoundEnds
<1> QED
  BY <1>1, <1>2, <1>3, <1>4, <1>5, <1>6, <1>7 DEF Heartbeat

LEMMA ExpirePins ==
    ASSUME TypeInv, LeaseInv, Expire
    PROVE  LeaseInv'
<1>n. TypeOK
  BY DEF TypeInv
<1>1. /\ UNCHANGED <<indexed, trees, status, handles>>
      /\ op'.stamp = Less(op.stamp)
      /\ op'.pc = op.pc /\ op'.owner = op.owner /\ op'.artifact = op.artifact
      /\ op'.victims = op.victims /\ op'.moved = op.moved /\ op'.fresh = op.fresh
  BY <1>n DEF Expire, stored, TypeOK, OpSet
<1>2. ASSUME NEW p \in Owners, NEW b \in Artifacts
      PROVE  /\ lease'[p][b] = Less(lease[p][b]) /\ confirmed'[p][b] = Less(confirmed[p][b])
             /\ pending'[p][b] = Less(pending[p][b])
             /\ Live(p, b)' <=> Live(p, b)
  BY <1>1 DEF Expire, Live
<1>3. ASSUME NEW p \in Owners
      PROVE  /\ beat'[p].pc = beat[p].pc /\ beat'[p].live = beat[p].live
             /\ beat'[p].lost = beat[p].lost /\ beat'[p].stamp = Less(beat[p].stamp)
             /\ \A b \in Artifacts : beat'[p].releases[b] = Less(beat[p].releases[b])
  <2>1. beat[p] \in BeatSet
    BY <1>n, BeatFields
  <2>2. beat'[p] = [beat[p] EXCEPT !.stamp = Less(@),
                       !.releases = [a \in Artifacts |-> Less(beat[p].releases[a])]]
    BY DEF Expire
  <2> QED
    BY <2>1, <2>2 DEF BeatSet
<1>4. \A m, n \in Int : /\ Less(m) \in Int
                        /\ m > n /\ n >= NoRelease => Less(m) > Less(n) \/ Less(m) = 0
                        /\ m >= n /\ n >= NoRelease => Less(m) >= Less(n)
                        /\ Less(m) > 0 => m > 0
                        /\ m = 0 => Less(m) = 0
  BY DEF Less, NoRelease
<1> HIDE DEF Less
<1>5. ConfirmedIsDurable'
  <2> SUFFICES ASSUME NEW p \in Owners, NEW b \in Artifacts, Less(confirmed[p][b]) > 0
               PROVE  /\ Live(p, b)
                      /\ Less(lease[p][b]) >= Less(confirmed[p][b])
                      /\ b \in indexed \cap trees
                      /\ Less(confirmed[p][b]) > Less(beat[p].releases[b])
    BY <1>1, <1>2, <1>3 DEF ConfirmedIsDurable
  <2>1. /\ lease[p][b] \in Nat /\ confirmed[p][b] \in Nat
        /\ beat[p].releases[b] \in Int /\ beat[p].releases[b] >= NoRelease
    BY <1>n, Numbers
  <2>2. confirmed[p][b] > 0
    BY <1>4, <2>1
  <2>3. /\ Live(p, b) /\ lease[p][b] >= confirmed[p][b]
        /\ b \in indexed \cap trees /\ confirmed[p][b] > beat[p].releases[b]
    BY <2>2 DEF LeaseInv, ConfirmedIsDurable
  <2>4. confirmed[p][b] >= NoRelease
    BY <2>1 DEF NoRelease
  <2> QED
    BY <1>4, <2>1, <2>3, <2>4
<1>6. OpeningIsNewest'
  <2> SUFFICES ASSUME NEW p \in Owners, NEW b \in Artifacts,
                      Opening(p, b), status[p] = "open", Less(op.stamp) > 0
               PROVE  /\ Less(op.stamp) > Less(beat[p].releases[b])
                      /\ ~Live(p, b) =>
                            /\ Less(op.stamp) > Less(pending[p][b])
                            /\ beat[p].pc \in {"update", "confirm"} /\ b \in beat[p].live
                                   => Less(op.stamp) > Less(beat[p].stamp)
    BY <1>1, <1>2, <1>3 DEF OpeningIsNewest, Opening
  <2>1. /\ op.stamp \in Nat
        /\ beat[p].releases[b] \in Int /\ beat[p].releases[b] >= NoRelease
        /\ pending[p][b] \in Int /\ pending[p][b] >= NoRelease
        /\ beat[p].stamp \in Int /\ beat[p].stamp >= NoRelease
    BY <1>n, Numbers DEF NoRelease
  <2>2. op.stamp > 0
    BY <1>4, <2>1
  <2>3. /\ op.stamp > beat[p].releases[b]
        /\ ~Live(p, b) =>
              /\ op.stamp > pending[p][b]
              /\ beat[p].pc \in {"update", "confirm"} /\ b \in beat[p].live
                     => op.stamp > beat[p].stamp
    BY <2>2 DEF LeaseInv, OpeningIsNewest
  <2> QED
    BY <1>4, <2>1, <2>3
<1>7. AcquiredIsDurable'
  <2> SUFFICES ASSUME NEW p \in Owners, NEW b \in Artifacts, At(p, b, "handle")
               PROVE  /\ b \in indexed
                      /\ status[p] = "open" => Less(lease[p][b]) >= Less(op.stamp)
    BY <1>1, <1>2 DEF AcquiredIsDurable, At
  <2>1. lease[p][b] \in Nat /\ op.stamp \in Nat /\ op.stamp >= NoRelease
    BY <1>n, Numbers DEF NoRelease
  <2> QED
    BY <1>4, <2>1 DEF LeaseInv, AcquiredIsDurable
<1>8. RenewedIsDurable'
  <2> SUFFICES ASSUME NEW p \in Owners, NEW b \in Artifacts,
                      beat[p].pc = "confirm", b \in beat[p].live \ beat[p].lost
               PROVE  Less(lease[p][b]) >= Less(beat[p].stamp)
    BY <1>2, <1>3 DEF RenewedIsDurable
  <2>1. lease[p][b] \in Nat /\ beat[p].stamp \in Nat /\ beat[p].stamp >= NoRelease
    BY <1>n, Numbers DEF NoRelease
  <2> QED
    BY <1>4, <2>1 DEF LeaseInv, RenewedIsDurable
<1>9. VictimsAreUnleased'
  <2>1. Leased' \subseteq Leased
    BY <1>n, <1>2, <1>4, Numbers DEF Leased
  <2> QED
    BY <1>1, <2>1 DEF LeaseInv, VictimsAreUnleased
<1>10. FreshIsUnused'
  BY <1>n, <1>1, <1>2, <1>4 DEF LeaseInv, FreshIsUnused, At
<1> QED
  BY <1>5, <1>6, <1>7, <1>8, <1>9, <1>10 DEF LeaseInv

LEMMA LeaseStep ==
    ASSUME TypeInv, LeaseInv, ReleaseWhileOpening = FALSE, [Next]_vars
    PROVE  LeaseInv'
<1>1. CASE UNCHANGED vars
  <2>1. LeaseInv' <=> LeaseInv
    BY <1>1 DEF vars, LeaseInv, ConfirmedIsDurable, OpeningIsNewest, AcquiredIsDurable,
       RenewedIsDurable, VictimsAreUnleased, FreshIsUnused, Live, Opening, At, Leased
  <2> QED
    BY <2>1
<1>2. CASE Next
  BY <1>2, OpenPins, PruneOrCommitPins, HandlePins, HeartbeatPins, LeavePins, ExpirePins DEF Next
<1> QED
  BY <1>1, <1>2

LEMMA LeaseInvPins == TypeOK /\ LeaseInv => HandlesArePinned
<1> SUFFICES ASSUME TypeOK, LeaseInv, NEW o \in Owners, NEW a \in Artifacts,
                    Live(o, a), ~Poisoned(o)
             PROVE  /\ confirmed[o][a] > 0
                    /\ lease[o][a] >= confirmed[o][a]
                    /\ a \in indexed \cap trees
  BY DEF HandlesArePinned
<1>1. confirmed[o][a] # 0
  BY DEF Poisoned, LiveArtifacts
<1> QED
  BY <1>1, Numbers DEF LeaseInv, ConfirmedIsDurable

\* "Retention treats active leases as pinned": as long as a manager has not
\* failed, what its handles read is leased, indexed and in its place, for any
\* number of repositories and handles, whatever prunes, expires, crashes or is
\* released meanwhile, if no handle is released while its artifact opens.
THEOREM LeasesPinHandles ==
    ReleaseWhileOpening = FALSE => (Spec => []HandlesArePinned)
<1> SUFFICES ASSUME ReleaseWhileOpening = FALSE PROVE Spec => []HandlesArePinned
  OBVIOUS
<1> DEFINE Inv == TypeInv /\ LeaseInv
<1>1. Init => Inv
  BY TypeInit, LeaseInit
<1>2. Inv /\ [Next]_vars => Inv'
  BY TypeStep, LeaseStep
<1>3. Inv => HandlesArePinned
  BY LeaseInvPins DEF TypeInv
<1> QED
  BY <1>1, <1>2, <1>3, PTL DEF Spec
-----------------------------------------------------------------------------
(* Refinement: leases implement pinned artifacts *)

LEMMA PinnedMembers ==
    ASSUME NEW a
    PROVE  a \in Pinned!Pinned <=> \E o \in Owners : <<o, a>> \in Pins /\ a \in Artifacts
<1>1. ASSUME a \in Pinned!Pinned
      PROVE  \E o \in Owners : <<o, a>> \in Pins /\ a \in Artifacts
  <2>1. PICK pin \in Pins : pin[2] = a
    BY <1>1 DEF Pinned!Pinned
  <2>2. pin \in Owners \X Artifacts
    BY DEF Pins
  <2>3. pin[1] \in Owners /\ a \in Artifacts /\ pin = <<pin[1], a>>
    BY <2>1, <2>2
  <2> QED
    BY <2>1, <2>3
<1>2. ASSUME NEW o \in Owners, <<o, a>> \in Pins
      PROVE  a \in Pinned!Pinned
  BY <1>2 DEF Pinned!Pinned
<1> QED
  BY <1>1, <1>2

LEMMA PinnedAreAvailable ==
    ASSUME TypeOK, LeaseInv, NEW a \in Pinned!Pinned
    PROVE  /\ a \in indexed \cap trees
           /\ a \in Leased
           /\ \E o \in Owners : confirmed[o][a] > 0
<1>1. PICK o \in Owners : <<o, a>> \in Pins /\ a \in Artifacts
  BY PinnedMembers
<1>2. Live(o, a) /\ ~Poisoned(o)
  BY <1>1 DEF Pins
<1>3. confirmed[o][a] > 0 /\ lease[o][a] >= confirmed[o][a] /\ a \in indexed \cap trees
  BY <1>1, <1>2, LeaseInvPins DEF HandlesArePinned
<1>4. lease[o][a] > 0
  BY <1>1, <1>3, Numbers
<1> QED
  BY <1>1, <1>3, <1>4 DEF Leased

LEMMA SamePins ==
    ASSUME UNCHANGED <<handles, failed, confirmed>>
    PROVE  UNCHANGED Pins
BY DEF Pins, Live, Poisoned, LiveArtifacts

LEMMA Stutters ==
    ASSUME UNCHANGED <<indexed, trees, handles, failed, confirmed>>
    PROVE  UNCHANGED Pinned!vars
BY SamePins DEF Pinned!vars

\* More artifacts can be read.
LEMMA Publishes ==
    ASSUME TypeOK', UNCHANGED <<handles, failed, confirmed>>,
           indexed \cap trees \subseteq indexed' \cap trees'
    PROVE  Pinned!Next
<1>1. indexed' \cap trees' \subseteq Artifacts
  BY DEF TypeOK
<1> QED
  BY <1>1, SamePins DEF Pinned!Next, Pinned!Publish

\* Trees that nobody has open are taken away.
LEMMA Evicts ==
    ASSUME TypeOK, LeaseInv, UNCHANGED <<indexed, handles, failed, confirmed>>,
           trees' \subseteq trees, Pinned!Pinned \subseteq trees'
    PROVE  Pinned!Next
BY SamePins DEF Pinned!Next, Pinned!Evict

\* An owner fails, loses a lease or dies.
LEMMA Unpins ==
    ASSUME UNCHANGED <<indexed, trees>>,
           \A o \in Owners, a \in Artifacts :
               Live(o, a)' /\ ~Poisoned(o)' => Live(o, a) /\ ~Poisoned(o)
    PROVE  Pinned!Next
<1>1. Pins' \subseteq Pins
  BY DEF Pins
<1> QED
  BY <1>1 DEF Pinned!Next, Pinned!Unpin

\* One owner drops handles: when the one whose lease had expired is among
\* them, the others count again, and their leases have not expired.
LEMMA Drops ==
    ASSUME TypeOK, LeaseInv, NEW o \in Owners,
           UNCHANGED <<indexed, trees, failed>>,
           \A p \in Owners, a \in Artifacts :
               /\ Live(p, a)' => Live(p, a) /\ confirmed'[p][a] = confirmed[p][a]
               /\ p # o => /\ Live(p, a)' <=> Live(p, a)
                           /\ confirmed'[p][a] = confirmed[p][a]
    PROVE  Pinned!Next
<1>1. \A p \in Owners : /\ ~Poisoned(p) => ~Poisoned(p)'
                        /\ p # o => (Poisoned(p) => Poisoned(p)')
  BY DEF Poisoned, LiveArtifacts
<1>2. CASE Poisoned(o)
  <2>1. Pins \subseteq Pins'
    BY <1>1, <1>2 DEF Pins
  <2>2. ASSUME NEW pin \in Pins' \ Pins
        PROVE  pin \in Owners \X (indexed \cap trees)
    <3>1. /\ pin[1] \in Owners /\ pin[2] \in Artifacts /\ pin = <<pin[1], pin[2]>>
          /\ Live(pin[1], pin[2])' /\ ~Poisoned(pin[1])'
      BY <2>2 DEF Pins
    <3>2. Live(pin[1], pin[2]) /\ confirmed'[pin[1]][pin[2]] = confirmed[pin[1]][pin[2]]
      BY <3>1
    <3>3. confirmed[pin[1]][pin[2]] # 0
      BY <3>1, <3>2 DEF Poisoned, LiveArtifacts
    <3>4. confirmed[pin[1]][pin[2]] > 0
      BY <3>1, <3>3, Numbers
    <3>5. pin[2] \in indexed \cap trees
      BY <3>1, <3>4 DEF LeaseInv, ConfirmedIsDurable
    <3> QED
      BY <3>1, <3>5
  <2> QED
    BY <2>1, <2>2 DEF Pinned!Next, Pinned!Pin
<1>3. CASE ~Poisoned(o)
  <2>1. \A p \in Owners : ~Poisoned(p)' => ~Poisoned(p)
    BY <1>1, <1>3
  <2> QED
    BY <2>1, Unpins
<1> QED
  BY <1>2, <1>3

LEMMA OpenImplements ==
    ASSUME TypeOK, LeaseInv, TypeOK', NEW o \in Owners, Open(o)
    PROVE  [Pinned!Next]_Pinned!vars
<1> USE DEF stored, manager
<1>1. CASE Recover(o)
  BY <1>1, Publishes DEF Recover, Recovered
<1>2. ASSUME NEW a \in Artifacts,
             BeginOpen(o, a) \/ OpenLookup(o, a) \/ OpenMissing(o, a) \/ AcquireRefused(o, a)
      PROVE  UNCHANGED Pinned!vars
  BY <1>2, Stutters DEF BeginOpen, OpenLookup, OpenMissing, AcquireRefused
<1>3. ASSUME NEW a \in Artifacts, OpenCorrupt(o, a)
      PROVE  Pinned!Next
  BY <1>3, Publishes DEF OpenCorrupt, Recovered
<1>4. ASSUME NEW a \in Artifacts, AcquireHandle(o, a)
      PROVE  Pinned!Next
  <2>1. /\ UNCHANGED <<indexed, trees, failed>>
        /\ handles' = [handles EXCEPT ![o][a]["attached"] = @ + 1]
        /\ confirmed' = [confirmed EXCEPT ![o][a] = Later(op.stamp, @)]
        /\ At(o, a, "handle") /\ a \in trees /\ op.stamp > 0 /\ ~Poisoned(o)
    BY <1>4 DEF AcquireHandle, Acquirable
  <2>2. \A p \in Owners, b \in Artifacts :
            Live(p, b)' <=> Live(p, b) \/ (p = o /\ b = a)
    <3>1. \A p \in Owners, b \in Artifacts, k \in Kinds :
              handles'[p][b][k] = IF p = o /\ b = a /\ k = "attached"
                                  THEN handles[p][b][k] + 1 ELSE handles[p][b][k]
      BY <2>1 DEF TypeOK, Kinds
    <3>2. handles[o][a]["attached"] \in Nat
      BY DEF TypeOK, Kinds
    <3> QED
      BY <3>1, <3>2 DEF Live, Kinds
  <2>3. \A p \in Owners, b \in Artifacts :
            confirmed'[p][b] = IF p = o /\ b = a THEN Later(op.stamp, confirmed[p][b])
                                                 ELSE confirmed[p][b]
    BY <2>1 DEF TypeOK
  <2>4. Later(op.stamp, confirmed[o][a]) # 0
    BY <2>1, Numbers DEF Later
  <2>5. \A p \in Owners : Poisoned(p)' <=> Poisoned(p)
    <3>1. ~Poisoned(o)'
      BY <2>1, <2>2, <2>3, <2>4 DEF Poisoned, LiveArtifacts
    <3>2. \A p \in Owners : p # o => (Poisoned(p)' <=> Poisoned(p))
      BY <2>1, <2>2, <2>3 DEF Poisoned, LiveArtifacts
    <3> QED
      BY <2>1, <3>1, <3>2
  <2>6. Pins \subseteq Pins' /\ Pins' \ Pins \subseteq {<<o, a>>}
    BY <2>2, <2>5 DEF Pins
  <2>7. a \in indexed
    BY <2>1 DEF LeaseInv, AcquiredIsDurable
  <2> QED
    BY <2>1, <2>6, <2>7 DEF Pinned!Next, Pinned!Pin
<1> QED
  BY <1>1, <1>2, <1>3, <1>4 DEF Open

LEMMA PruneOrCommitImplements ==
    ASSUME TypeOK, LeaseInv, TypeOK', NEW o \in Owners, PruneOrCommit(o)
    PROVE  [Pinned!Next]_Pinned!vars
<1> USE DEF stored, manager
<1>1. CASE BeginPrune(o) \/ OpFails(o) \/ \E a \in Artifacts : BeginCommit(o, a)
  BY <1>1, Stutters DEF BeginPrune, OpFails, BeginCommit
<1>2. CASE QuarantineVictims(o)
  <2>1. PICK victims \in SUBSET Evictable : trees' = trees \ victims
    BY <1>2 DEF QuarantineVictims
  <2>2. Pinned!Pinned \subseteq trees \ victims
    BY PinnedAreAvailable DEF Evictable
  <2> QED
    BY <1>2, <2>1, <2>2, Evicts DEF QuarantineVictims
<1>3. CASE FlushRefused(o)
  <2>1. failed' = [failed EXCEPT ![o] = TRUE] /\ UNCHANGED <<indexed, trees, handles, confirmed>>
    BY <1>3 DEF FlushRefused
  <2>2. \A p \in Owners : Poisoned(p) => Poisoned(p)'
    BY <2>1 DEF Poisoned, LiveArtifacts, Live, TypeOK
  <2> QED
    BY <2>1, <2>2, Unpins DEF Live
<1>4. CASE CommitPrune(o)
  <2>1. PICK matched \in SUBSET (op.victims \cap Evictable) :
            indexed' = indexed \ matched /\ trees' = trees \cup (op.moved \ matched)
    BY <1>4 DEF CommitPrune
  <2>2. matched \cap trees = {}
    BY <1>4, <2>1 DEF CommitPrune, LeaseInv, VictimsAreUnleased
  <2>3. indexed \cap trees \subseteq indexed' \cap trees'
    BY <2>1, <2>2
  <2> QED
    BY <1>4, <2>3, Publishes DEF CommitPrune
<1>5. CASE PruneFails(o)
  BY <1>5, Publishes DEF PruneFails
<1>6. ASSUME NEW a \in Artifacts, Install(o, a) \/ Publish(o, a)
      PROVE  Pinned!Next
  BY <1>6, Publishes DEF Install, Publish
<1>7. ASSUME NEW a \in Artifacts, PublishFails(o, a)
      PROVE  [Pinned!Next]_Pinned!vars
  <2>1. CASE op.fresh
    <3>1. a \notin Pinned!Pinned
      <4>1. \A p \in Owners : confirmed[p][a] = 0
        BY <1>7, <2>1 DEF PublishFails, LeaseInv, FreshIsUnused
      <4> QED
        BY <4>1, PinnedAreAvailable
    <3>2. trees' = trees \ {a}
      BY <1>7, <2>1 DEF PublishFails
    <3>3. Pinned!Pinned \subseteq trees'
      BY <3>1, <3>2, PinnedAreAvailable
    <3> QED
      BY <1>7, <3>2, <3>3, Evicts DEF PublishFails
  <2>2. CASE ~op.fresh
    BY <1>7, <2>2, Stutters DEF PublishFails
  <2> QED
    BY <2>1, <2>2
<1> QED
  BY <1>1, <1>2, <1>3, <1>4, <1>5, <1>6, <1>7 DEF PruneOrCommit

LEMMA HandleImplements ==
    ASSUME TypeOK, LeaseInv, NEW o \in Owners, Handle(o) \/ CloseManager(o)
    PROVE  [Pinned!Next]_Pinned!vars
<1> USE DEF stored, manager
<1>h. handles \in [Owners -> [Artifacts -> [Kinds -> 0..MaxHandles]]]
  BY DEF TypeOK
<1>1. ASSUME NEW a \in Artifacts, NEW k \in Kinds, Retain(o, a, k)
      PROVE  UNCHANGED Pinned!vars
  <2>1. /\ UNCHANGED <<indexed, trees, failed, confirmed>> /\ Live(o, a)
        /\ handles' = [handles EXCEPT ![o][a][k] = @ + 1]
    BY <1>1 DEF Retain
  <2>2. \A p \in Owners, b \in Artifacts, j \in Kinds :
            handles'[p][b][j] = IF p = o /\ b = a /\ j = k
                                THEN handles[p][b][j] + 1 ELSE handles[p][b][j]
    BY <1>h, <2>1
  <2>3. handles[o][a][k] + 1 > 0
    BY <1>h
  <2>4. \A p \in Owners, b \in Artifacts : Live(p, b)' <=> Live(p, b)
    BY <2>1, <2>2, <2>3 DEF Live
  <2>5. UNCHANGED Pins
    BY <2>1, <2>4 DEF Pins, Poisoned, LiveArtifacts
  <2> QED
    BY <2>1, <2>5 DEF Pinned!vars
<1>2. ASSUME NEW a \in Artifacts, NEW k \in Kinds, Release(o, a, k)
      PROVE  Pinned!Next
  <2> DEFINE last == \A j \in Kinds : handles[o][a][j] = IF j = k THEN 1 ELSE 0
             gone == IF last THEN {a} ELSE {}
  <2>1. /\ UNCHANGED <<indexed, trees, failed>>
        /\ handles' = [handles EXCEPT ![o][a][k] = @ - 1]
        /\ confirmed' = [confirmed EXCEPT ![o] = Forgotten(o, gone)]
        /\ handles[o][a][k] > 0
    BY <1>2 DEF Release
  <2>2. \A p \in Owners, b \in Artifacts, j \in Kinds :
            handles'[p][b][j] = IF p = o /\ b = a /\ j = k
                                THEN handles[p][b][j] - 1 ELSE handles[p][b][j]
    BY <1>h, <2>1
  <2>3. \A p \in Owners, b \in Artifacts :
            confirmed'[p][b] = IF p = o /\ b \in gone THEN 0 ELSE confirmed[p][b]
    BY <2>1 DEF TypeOK, Forgotten
  <2>4. \A p \in Owners, b \in Artifacts :
            /\ Live(p, b)' => Live(p, b)
            /\ p # o => (Live(p, b)' <=> Live(p, b))
    <3>1. \A j \in Kinds : handles[o][a][j] - 1 > 0 => handles[o][a][j] > 0
      BY <1>h
    <3> QED
      BY <2>2, <3>1 DEF Live
  <2>5. last => ~Live(o, a)'
    BY <2>2 DEF Live
  <2>6. \A p \in Owners, b \in Artifacts : Live(p, b)' => confirmed'[p][b] = confirmed[p][b]
    BY <2>3, <2>5
  <2>7. \A p \in Owners, b \in Artifacts :
            /\ Live(p, b)' => Live(p, b) /\ confirmed'[p][b] = confirmed[p][b]
            /\ p # o => /\ Live(p, b)' <=> Live(p, b)
                        /\ confirmed'[p][b] = confirmed[p][b]
    BY <2>3, <2>4, <2>6
  <2>8. UNCHANGED <<indexed, trees, failed>>
    BY <2>1
  <2> HIDE DEF gone
  <2> QED
    BY <2>7, <2>8, Drops
<1>3. CASE NoticeExpiry(o)
  <2>1. failed' = [failed EXCEPT ![o] = TRUE] /\ UNCHANGED <<indexed, trees, handles, confirmed>>
    BY <1>3 DEF NoticeExpiry
  <2>2. \A p \in Owners : Poisoned(p) => Poisoned(p)'
    BY <2>1 DEF Poisoned, LiveArtifacts, Live, TypeOK
  <2> QED
    BY <2>1, <2>2, Unpins DEF Live
<1>4. CASE CloseManager(o)
  <2> DEFINE gone == LiveArtifacts(o) \ Detached(o)
  <2>1. /\ UNCHANGED <<indexed, trees, failed>>
        /\ handles' = [handles EXCEPT ![o] = [a \in Artifacts |->
                                                  [handles[o][a] EXCEPT !["attached"] = 0]]]
        /\ confirmed' = [confirmed EXCEPT ![o] = Forgotten(o, gone)]
    BY <1>4 DEF CloseManager
  <2>2. \A p \in Owners, b \in Artifacts, j \in Kinds :
            handles'[p][b][j] = IF p = o /\ j = "attached" THEN 0 ELSE handles[p][b][j]
    BY <1>h, <2>1
  <2>3. \A p \in Owners, b \in Artifacts :
            confirmed'[p][b] = IF p = o /\ b \in gone THEN 0 ELSE confirmed[p][b]
    BY <2>1 DEF TypeOK, Forgotten
  <2>4. \A p \in Owners, b \in Artifacts :
            /\ Live(p, b)' => Live(p, b)
            /\ p # o => (Live(p, b)' <=> Live(p, b))
    BY <2>2 DEF Live
  <2>5. \A b \in Artifacts : Live(o, b)' => b \notin gone
    BY <2>2 DEF Live, Kinds, Detached
  <2>6. \A p \in Owners, b \in Artifacts : Live(p, b)' => confirmed'[p][b] = confirmed[p][b]
    BY <2>3, <2>5
  <2>7. \A p \in Owners, b \in Artifacts :
            /\ Live(p, b)' => Live(p, b) /\ confirmed'[p][b] = confirmed[p][b]
            /\ p # o => /\ Live(p, b)' <=> Live(p, b)
                        /\ confirmed'[p][b] = confirmed[p][b]
    BY <2>3, <2>4, <2>6
  <2>8. UNCHANGED <<indexed, trees, failed>>
    BY <2>1
  <2> HIDE DEF gone
  <2> QED
    BY <2>7, <2>8, Drops
<1> QED
  BY <1>1, <1>2, <1>3, <1>4 DEF Handle

LEMMA HeartbeatImplements ==
    ASSUME TypeOK, NEW o \in Owners, Heartbeat(o) \/ Crash(o)
    PROVE  [Pinned!Next]_Pinned!vars
<1> USE DEF stored, manager
<1>1. CASE \/ BeatSnapshot(o) \/ BeatRelease(o) \/ BeatStart(o) \/ BeatUpdate(o)
           \/ BeatNothing(o) \/ BeatBusy(o)
  BY <1>1, Stutters DEF BeatSnapshot, BeatRelease, BeatStart, BeatUpdate, BeatNothing, BeatBusy
<1>2. CASE BeatConfirm(o)
  <2>1. UNCHANGED <<indexed, trees, handles>>
    BY <1>2 DEF BeatConfirm
  <2>2. \A p \in Owners : Poisoned(p) => Poisoned(p)'
    <3>1. Poisoned(o) => failed'[o]
      BY <1>2 DEF BeatConfirm, TypeOK
    <3>2. ASSUME NEW p \in Owners, p # o
          PROVE  failed'[p] = failed[p] /\ confirmed'[p] = confirmed[p]
      BY <1>2, <3>2 DEF BeatConfirm, TypeOK
    <3> QED
      BY <2>1, <3>1, <3>2 DEF Poisoned, LiveArtifacts, Live
  <2> QED
    BY <2>1, <2>2, Unpins DEF Live
<1>3. CASE BeatFail(o)
  <2>1. UNCHANGED <<indexed, trees, handles, confirmed>>
    BY <1>3 DEF BeatFail
  <2>2. \A p \in Owners : Poisoned(p) => Poisoned(p)'
    <3>1. Poisoned(o) => failed'[o]
      BY <1>3 DEF BeatFail, TypeOK
    <3>2. \A p \in Owners : p # o => failed'[p] = failed[p]
      BY <1>3 DEF BeatFail, TypeOK
    <3> QED
      BY <2>1, <3>1, <3>2 DEF Poisoned, LiveArtifacts, Live
  <2> QED
    BY <2>1, <2>2, Unpins DEF Live
<1>4. CASE Crash(o)
  <2>1. /\ UNCHANGED <<indexed, trees>>
        /\ \A b \in Artifacts : handles'[o][b] = NoHandles
        /\ \A p \in Owners : p # o => /\ handles'[p] = handles[p]
                                      /\ confirmed'[p] = confirmed[p]
                                      /\ failed'[p] = failed[p]
    BY <1>4 DEF Crash, TypeOK
  <2>2. \A b \in Artifacts : ~Live(o, b)'
    BY <2>1 DEF Live, NoHandles
  <2> QED
    BY <2>1, <2>2, Unpins DEF Live, Poisoned, LiveArtifacts
<1> QED
  BY SMTT(60), <1>1, <1>2, <1>3, <1>4 DEF Heartbeat

LEMMA ExpireImplements ==
    ASSUME Expire
    PROVE  Pinned!Next
<1>1. UNCHANGED <<indexed, trees, handles, failed>>
  BY DEF Expire, stored
<1>2. \A p \in Owners, b \in Artifacts : confirmed[p][b] = 0 => confirmed'[p][b] = 0
  <2>1. \A p \in Owners, b \in Artifacts : confirmed'[p][b] = Less(confirmed[p][b])
    BY DEF Expire
  <2>2. Less(0) = 0
    BY DEF Less
  <2> QED
    BY <2>1, <2>2
<1>3. \A p \in Owners : Poisoned(p) => Poisoned(p)'
  BY <1>1, <1>2 DEF Poisoned, LiveArtifacts, Live
<1> QED
  BY <1>1, <1>3, Unpins DEF Live

LEMMA PinsStep ==
    ASSUME TypeInv, LeaseInv, TypeInv', [Next]_vars
    PROVE  [Pinned!Next]_Pinned!vars
<1>1. CASE UNCHANGED vars
  BY <1>1, Stutters DEF vars
<1>2. CASE Next
  BY <1>2, OpenImplements, PruneOrCommitImplements, HandleImplements, HeartbeatImplements,
     ExpireImplements DEF Next, TypeInv
<1> QED
  BY <1>1, <1>2

\* What a lease promises: no step of a prune, a recovery, a heartbeat or another
\* process takes away an artifact that a working handle reads, and a handle is
\* given only to an artifact that is there (artifact_lifecycle.py prune).
THEOREM ArtifactsStayPinned ==
    ReleaseWhileOpening = FALSE => (Spec => ImplementsPinnedArtifacts)
<1> SUFFICES ASSUME ReleaseWhileOpening = FALSE PROVE Spec => ImplementsPinnedArtifacts
  OBVIOUS
<1> DEFINE Inv == TypeInv /\ LeaseInv
<1>1. Init => Inv
  BY TypeInit, LeaseInit
<1>2. Inv /\ [Next]_vars => Inv'
  BY TypeStep, LeaseStep
<1>3. Init => Pinned!Init
  BY DEF Init, Pinned!Init, Pins, Live, NoHandles
<1>4. Inv /\ Inv' /\ [Next]_vars => [Pinned!Next]_Pinned!vars
  BY PinsStep
<1> QED
  BY <1>1, <1>2, <1>3, <1>4, PTL DEF Spec, ImplementsPinnedArtifacts, Pinned!Spec

-----------------------------------------------------------------------------
(* Releases leave no lease behind, if every transaction of the heartbeat     *)
(* gets the catalog: the inductive invariant                                 *)

Working(o) == status[o] = "open" /\ ~failed[o]

\* The expiry at which the row of an artifact is to be deleted: what its live
\* handles would leave, or what is pending.
Owed(o, a) == IF Live(o, a) THEN confirmed[o][a] ELSE pending[o][a]

\* A renewal that is in the catalog and not yet confirmed moves it on.
Renewing(o, a) == beat[o].pc = "confirm" /\ a \in beat[o].live \ beat[o].lost
Renewed(o, a, stamp) ==
    IF Renewing(o, a) /\ stamp # NoRelease THEN Later(beat[o].stamp, stamp) ELSE stamp

Releasing(o, a) == ~Live(o, a) /\ beat[o].pc = "release" /\ beat[o].releases[a] = lease[o][a]

\* A row is that of an opening, or of one that failed, or goes away with the
\* last handle: at the expiry the heartbeat will delete it at, if not already.
RowIsOwed(o, a) ==
    Working(o) /\ lease[o][a] > 0 =>
        \/ At(o, a, "handle")
        \/ <<o, a>> \in abandoned
        \/ lease[o][a] = Renewed(o, a, Owed(o, a))
        \/ Releasing(o, a)

\* What the handle of an opening confirms is the expiry in its row, not less.
OpeningIsBound(o, a) ==
    Working(o) /\ Opening(o, a) /\ op.stamp > 0 =>
        lease[o][a] <= Renewed(o, a, Later(op.stamp, confirmed[o][a]))

OwedInv == \A o \in Owners, a \in Artifacts : RowIsOwed(o, a) /\ OpeningIsBound(o, a)

LEMMA OwedInit == Init => OwedInv
BY DEF Init, OwedInv, RowIsOwed, OpeningIsBound, NoOp

LEMMA RenewedFacts ==
    ASSUME TypeOK, NEW o \in Owners, NEW a \in Artifacts, NEW stamp \in Nat
    PROVE  /\ Renewed(o, a, stamp) \in Nat /\ Renewed(o, a, stamp) >= stamp
           /\ stamp # NoRelease
<1>1. beat[o].stamp \in Nat
  BY Numbers
<1> QED
  BY <1>1 DEF Renewed, Later, NoRelease

LEMMA LaterFacts ==
    ASSUME NEW x \in Nat, NEW y \in Nat
    PROVE  Later(x, y) \in Nat /\ Later(x, y) >= x /\ Later(x, y) >= y /\ Later(x, y) \in {x, y}
BY DEF Later

\* A step that leaves a row and what it is owed to alone
Untouched(o, a) ==
    /\ lease'[o][a] = lease[o][a] /\ handles'[o][a] = handles[o][a]
    /\ confirmed'[o][a] = confirmed[o][a] /\ pending'[o][a] = pending[o][a]
    /\ beat'[o] = beat[o]
    /\ Working(o)' => Working(o)
    /\ <<o, a>> \in abandoned => <<o, a>> \in abandoned'

\* and continues its opening, or ends one that had not got to the row yet
Continued(o, a) ==
    /\ At(o, a, "handle") => At(o, a, "handle")'
    /\ (Opening(o, a))' /\ op'.stamp > 0 => Opening(o, a) /\ op'.stamp = op.stamp

OwedHere(o, a) == RowIsOwed(o, a) /\ OpeningIsBound(o, a)

LEMMA SameRow ==
    ASSUME OwedInv, NEW o \in Owners, NEW a \in Artifacts, Untouched(o, a)
    PROVE  /\ (At(o, a, "handle") => At(o, a, "handle")') => RowIsOwed(o, a)'
           /\ Continued(o, a) => OwedHere(o, a)'
<1>1. RowIsOwed(o, a) /\ OpeningIsBound(o, a)
  BY DEF OwedInv
<1>2. (Live(o, a) <=> Live(o, a)') /\ (Renewing(o, a) <=> Renewing(o, a)')
  BY DEF Untouched, Live, Renewing
<1>3. Owed(o, a)' = Owed(o, a)
  BY <1>2 DEF Untouched, Owed
<1>4. \A stamp : Renewed(o, a, stamp)' = Renewed(o, a, stamp)
  BY <1>2 DEF Untouched, Renewed
<1>5. Releasing(o, a) => Releasing(o, a)'
  BY <1>2 DEF Untouched, Releasing
<1>6. (At(o, a, "handle") => At(o, a, "handle")') => RowIsOwed(o, a)'
  BY <1>1, <1>3, <1>4, <1>5 DEF Untouched, RowIsOwed, Renewed
<1>7. Continued(o, a) => OpeningIsBound(o, a)'
  BY <1>1, <1>2, <1>4 DEF Untouched, OpeningIsBound, Continued, Renewed
<1> QED
  BY <1>6, <1>7 DEF OwedHere, Continued

\* Everything but the operation under the lock is left alone.
LEMMA OperationOwes ==
    ASSUME OwedInv, UNCHANGED <<lease, handles, confirmed, pending, beat, status>>,
           \A p \in Owners : failed[p] => failed'[p],
           \A p \in Owners, b \in Artifacts :
               /\ <<p, b>> \in abandoned => <<p, b>> \in abandoned'
               /\ Continued(p, b)
    PROVE  OwedInv'
<1> SUFFICES ASSUME NEW p \in Owners, NEW b \in Artifacts
             PROVE  OwedHere(p, b)'
  BY DEF OwedInv, OwedHere
<1>1. Untouched(p, b)
  BY DEF Untouched, Working
<1> QED
  BY <1>1, SameRow

\* An opening or a commit reads expiry().
LEMMA ReadingOwes ==
    ASSUME TypeOK, OwedInv, NEW o \in Owners, NEW a \in Artifacts, NEW stamp \in Stamps,
           ReadExpiry(stamp), UNCHANGED <<lease, manager, beat, abandoned>>,
           op.pc # "handle", op'.owner = o, op'.artifact = a, op'.stamp = stamp
    PROVE  OwedInv'
<1> USE DEF manager
<1> SUFFICES ASSUME NEW p \in Owners, NEW b \in Artifacts
             PROVE  OwedHere(p, b)'
  BY DEF OwedInv, OwedHere
<1>1. Untouched(p, b)
  BY DEF Untouched, Working
<1>2. RowIsOwed(p, b)'
  BY <1>1, SameRow DEF At
<1>3. OpeningIsBound(p, b)'
  <2>1. CASE p = o /\ b = a
    <3>1. lease[o][a] < stamp /\ stamp \in Nat /\ confirmed[o][a] \in Nat /\ lease[o][a] \in Nat
      BY ReadingIsLater, Numbers DEF Stamps
    <3>2. Later(stamp, confirmed[o][a]) \in Nat /\ Later(stamp, confirmed[o][a]) >= stamp
      BY <3>1, LaterFacts
    <3> DEFINE top == Renewed(o, a, Later(stamp, confirmed[o][a]))
    <3>3. top \in Nat /\ top >= Later(stamp, confirmed[o][a])
      BY <3>2, RenewedFacts
    <3>4. lease[o][a] <= top
      <4> HIDE DEF top
      <4> QED
        BY <3>1, <3>2, <3>3
    <3> QED
      BY <2>1, <3>4 DEF OpeningIsBound, Renewed, Renewing
  <2>2. CASE ~(p = o /\ b = a)
    BY <2>2 DEF OpeningIsBound, Opening
  <2> QED
    BY <2>1, <2>2
<1> QED
  BY <1>2, <1>3 DEF OwedHere

\* The row is acquired under the expiry that was read.
LEMMA AcquireOwes ==
    ASSUME TypeOK, OwedInv, NEW o \in Owners, NEW a \in Artifacts,
           Opening(o, a), AcquireRow(o, a), Goto("handle"), UNCHANGED <<manager, beat, abandoned>>
    PROVE  OwedInv'
<1> USE DEF manager
<1> SUFFICES ASSUME NEW p \in Owners, NEW b \in Artifacts
             PROVE  OwedHere(p, b)'
  BY DEF OwedInv, OwedHere
<1>1. op'.pc = "handle" /\ op'.owner = o /\ op'.artifact = a /\ op'.stamp = op.stamp
  BY DEF Goto, TypeOK, OpSet, Opening
<1>2. /\ lease'[o][a] = Later(lease[o][a], op.stamp)
      /\ p # o \/ b # a => lease'[p][b] = lease[p][b]
  BY DEF AcquireRow, TypeOK
<1>3. CASE p = o /\ b = a
  <2>1. RowIsOwed(o, a)'
    BY <1>1 DEF RowIsOwed, At
  <2>2. /\ lease[o][a] \in Nat /\ op.stamp \in Nat
        /\ Later(op.stamp, confirmed[o][a]) \in Nat
        /\ Later(op.stamp, confirmed[o][a]) >= op.stamp
    BY Numbers, LaterFacts
  <2>3. /\ Renewed(o, a, Later(op.stamp, confirmed[o][a])) \in Nat
        /\ Renewed(o, a, Later(op.stamp, confirmed[o][a])) >= op.stamp
    BY <2>2, RenewedFacts
  <2>4. Working(o) /\ op.stamp > 0 => lease[o][a] <= Renewed(o, a, Later(op.stamp, confirmed[o][a]))
    BY DEF OwedInv, OpeningIsBound
  <2>5. Working(o) /\ op.stamp > 0 => lease'[o][a] <= Renewed(o, a, Later(op.stamp, confirmed[o][a]))
    BY <1>2, <2>2, <2>3, <2>4, LaterFacts
  <2>6. OpeningIsBound(o, a)'
    BY <1>1, <2>5 DEF OpeningIsBound, Renewed, Renewing, Working
  <2> QED
    BY <1>3, <2>1, <2>6 DEF OwedHere
<1>4. CASE p # o \/ b # a
  <2>1. Untouched(p, b)
    BY <1>2, <1>4 DEF Untouched, Working
  <2>2. Continued(p, b)
    BY <1>1, <1>4 DEF Continued, At, Opening
  <2> QED
    BY <2>1, <2>2, SameRow
<1> QED
  BY <1>3, <1>4

\* The handle is counted, and confirms what is in the row.
LEMMA AcquireHandleOwes ==
    ASSUME TypeOK, LeaseInv, OwedInv, NEW o \in Owners, NEW a \in Artifacts, AcquireHandle(o, a)
    PROVE  OwedInv'
<1> SUFFICES ASSUME NEW p \in Owners, NEW b \in Artifacts
             PROVE  OwedHere(p, b)'
  BY DEF OwedInv, OwedHere
<1>1. /\ At(o, a, "handle") /\ op.stamp > 0 /\ Working(o)
      /\ op' = NoOp /\ UNCHANGED <<lease, status, failed, beat>>
      /\ abandoned' = abandoned \ {<<o, a>>}
  BY DEF AcquireHandle, Acquirable, Poisoned, Working, EndOp
<1>2. NoOp.owner = None /\ NoOp.pc = "none" /\ NoOp.stamp = 0
  BY DEF NoOp
<1>3. /\ handles' = [handles EXCEPT ![o][a]["attached"] = @ + 1]
      /\ confirmed' = [confirmed EXCEPT ![o][a] = Later(op.stamp, confirmed[o][a])]
      /\ pending' = [pending EXCEPT ![o][a] = NoRelease]
  BY DEF AcquireHandle
<1>4. /\ p # o \/ b # a => /\ handles'[p][b] = handles[p][b]
                           /\ confirmed'[p][b] = confirmed[p][b] /\ pending'[p][b] = pending[p][b]
      /\ confirmed'[o][a] = Later(op.stamp, confirmed[o][a])
  BY <1>3 DEF TypeOK
<1>5. Live(o, a)'
  BY <1>3 DEF TypeOK, Live, Kinds
<1>6. CASE p = o /\ b = a
  <2> DEFINE top == Later(op.stamp, confirmed[o][a])
  <2>1. /\ lease[o][a] \in Nat /\ op.stamp \in Nat /\ confirmed[o][a] \in Nat
        /\ beat[o].stamp \in Nat
    BY Numbers
  <2>2. lease[o][a] >= op.stamp
    BY <1>1 DEF LeaseInv, AcquiredIsDurable, Working
  <2>3. lease[o][a] >= confirmed[o][a]
    BY <2>1 DEF LeaseInv, ConfirmedIsDurable
  <2>4. Renewing(o, a) => lease[o][a] >= beat[o].stamp
    BY DEF LeaseInv, RenewedIsDurable, Renewing
  <2>5. lease[o][a] <= Renewed(o, a, top)
    BY <1>1 DEF OwedInv, OpeningIsBound, At, Opening
  <2>6. top \in Nat /\ lease[o][a] >= top
    BY <2>1, <2>2, <2>3, LaterFacts, ZenonT(60)
  <2> HIDE DEF top
  <2>7. Renewed(o, a, top) <= lease[o][a] /\ Renewed(o, a, top) \in Nat
    BY <2>1, <2>4, <2>6 DEF Renewed, Later
  <2>8. lease[o][a] = Renewed(o, a, top)
    BY <2>1, <2>5, <2>7
  <2>9. (Owed(o, a))' = top
    BY <1>4, <1>5 DEF Owed, top
  <2>10. (Renewed(o, a, Owed(o, a)))' = Renewed(o, a, top)
    BY <1>1, <2>9 DEF Renewed, Renewing
  <2>11. RowIsOwed(o, a)'
    BY <1>1, <2>8, <2>10 DEF RowIsOwed
  <2>12. OpeningIsBound(o, a)'
    BY <1>1, <1>2 DEF OpeningIsBound, Opening
  <2> QED
    BY <1>6, <2>11, <2>12 DEF OwedHere
<1>7. CASE p # o \/ b # a
  <2>1. Untouched(p, b)
    BY <1>1, <1>4, <1>7 DEF Untouched, Working
  <2>2. Continued(p, b)
    BY <1>1, <1>2, <1>7 DEF Continued, At, Opening
  <2> QED
    BY <2>1, <2>2, SameRow
<1> QED
  BY <1>6, <1>7

LEMMA OpenOwes ==
    ASSUME TypeInv, LeaseInv, OwedInv, NEW o \in Owners, Open(o)
    PROVE  OwedInv'
<1> USE DEF stored, manager
<1>t. TypeOK
  BY DEF TypeInv
<1>n. NoOp.owner = None /\ NoOp.pc = "none" /\ NoOp.stamp = 0
  BY DEF NoOp
<1>1. ASSUME NEW a \in Artifacts, BeginOpen(o, a)
      PROVE  OwedInv'
  <2>1. PICK stamp \in Stamps :
            /\ ReadExpiry(stamp)
            /\ op' = [NoOp EXCEPT !.pc = "lookup", !.kind = "open", !.owner = o,
                                  !.artifact = a, !.stamp = stamp]
    BY <1>1 DEF BeginOpen
  <2>2. op'.owner = o /\ op'.artifact = a /\ op'.stamp = stamp
    BY <2>1 DEF NoOp
  <2>3. op.pc # "handle" /\ UNCHANGED <<lease, manager, beat, abandoned>>
    BY <1>1 DEF BeginOpen, Idle
  <2> QED
    BY <1>t, <2>1, <2>2, <2>3, ReadingOwes
<1>2. ASSUME NEW a \in Artifacts, OpenLookup(o, a)
      PROVE  OwedInv'
  BY <1>t, <1>2, AcquireOwes DEF OpenLookup, At, Opening
<1>3. ASSUME NEW a \in Artifacts, OpenMissing(o, a)
      PROVE  OwedInv'
  <2>1. \A p \in Owners, b \in Artifacts : Continued(p, b)
    BY <1>3, <1>n DEF OpenMissing, EndOp, Continued, At
  <2> QED
    BY <1>3, <2>1, OperationOwes DEF OpenMissing
<1>4. ASSUME NEW a \in Artifacts, OpenCorrupt(o, a) \/ AcquireRefused(o, a)
      PROVE  OwedInv'
  <2> SUFFICES ASSUME NEW p \in Owners, NEW b \in Artifacts
               PROVE  OwedHere(p, b)'
    BY DEF OwedInv, OwedHere
  <2>1. /\ UNCHANGED <<lease, handles, confirmed, pending, beat, status, failed>>
        /\ op' = NoOp /\ At(o, a, "handle") /\ Abandon(o, a)
    BY <1>4 DEF OpenCorrupt, AcquireRefused, EndOp
  <2>2. CASE p = o /\ b = a
    <3>1. lease[o][a] > 0 => <<o, a>> \in abandoned'
      BY <2>1 DEF Abandon
    <3>2. RowIsOwed(o, a)'
      BY <2>1, <3>1 DEF RowIsOwed
    <3>3. OpeningIsBound(o, a)'
      BY <1>n, <2>1 DEF OpeningIsBound
    <3> QED
      BY <2>2, <3>2, <3>3 DEF OwedHere
  <2>3. CASE p # o \/ b # a
    <3>1. Untouched(p, b)
      BY <2>1, <2>3 DEF Untouched, Working, Abandon
    <3>2. Continued(p, b)
      BY <1>n, <2>1, <2>3 DEF Continued, At
    <3> QED
      BY <3>1, <3>2, SameRow
  <2> QED
    BY <2>2, <2>3
<1>5. CASE Recover(o)
  <2>1. \A p \in Owners, b \in Artifacts : Continued(p, b)
    BY <1>5 DEF Recover, Continued, At, Opening
  <2> QED
    BY <1>5, <2>1, OperationOwes DEF Recover
<1> QED
  BY <1>t, <1>1, <1>2, <1>3, <1>4, <1>5, AcquireHandleOwes DEF Open

LEMMA PruneOrCommitOwes ==
    ASSUME TypeInv, LeaseInv, OwedInv, NEW o \in Owners, PruneOrCommit(o)
    PROVE  OwedInv'
<1> USE DEF stored, manager
<1>t. TypeOK /\ op \in OpSet
  BY DEF TypeInv, TypeOK
<1>n. NoOp.owner = None /\ NoOp.pc = "none" /\ NoOp.stamp = 0
  BY DEF NoOp
<1>1. CASE BeginPrune(o) \/ \E a \in Artifacts : BeginCommit(o, a)
  <2>1. op.pc # "handle" /\ op'.stamp = 0
        /\ UNCHANGED <<lease, handles, confirmed, pending, beat, status, failed, abandoned>>
    BY <1>1 DEF BeginPrune, BeginCommit, Idle, NoOp
  <2>2. \A p \in Owners, b \in Artifacts : Continued(p, b)
    BY <2>1 DEF Continued, At
  <2> QED
    BY <2>1, <2>2, OperationOwes
<1>2. CASE \/ QuarantineVictims(o) \/ FlushRefused(o) \/ CommitPrune(o) \/ PruneFails(o)
           \/ OpFails(o) \/ \E a \in Artifacts : PublishFails(o, a)
  <2>1. op.pc # "handle" /\ UNCHANGED <<lease, handles, confirmed, pending, beat, status, abandoned>>
        /\ \A p \in Owners : failed[p] => failed'[p]
    BY <1>2, <1>t DEF QuarantineVictims, FlushRefused, CommitPrune, PruneFails, OpFails, PublishFails,
       At, TypeOK
  <2>2. op' = NoOp \/ (op'.owner = op.owner /\ op'.artifact = op.artifact /\ op'.stamp = op.stamp)
    BY <1>2, <1>t DEF QuarantineVictims, FlushRefused, CommitPrune, PruneFails, OpFails,
       PublishFails, EndOp, OpSet
  <2>3. \A p \in Owners, b \in Artifacts : Continued(p, b)
    BY <1>n, <2>1, <2>2 DEF Continued, At, Opening
  <2> QED
    BY <2>1, <2>3, OperationOwes
<1>3. ASSUME NEW a \in Artifacts, Install(o, a)
      PROVE  OwedInv'
  <2>1. PICK stamp \in Stamps :
            /\ ReadExpiry(stamp)
            /\ op' = [op EXCEPT !.pc = "publish", !.stamp = stamp, !.fresh = a \notin trees]
    BY <1>3 DEF Install
  <2>2. At(o, a, "install") /\ UNCHANGED <<lease, manager, beat, abandoned>>
    BY <1>3 DEF Install
  <2>3. op'.owner = o /\ op'.artifact = a /\ op'.stamp = stamp /\ op.pc # "handle"
    BY <1>t, <2>1, <2>2 DEF OpSet, At
  <2> QED
    BY <1>t, <2>1, <2>2, <2>3, ReadingOwes
<1>4. ASSUME NEW a \in Artifacts, Publish(o, a)
      PROVE  OwedInv'
  BY <1>t, <1>4, AcquireOwes DEF Publish, At, Opening
<1> QED
  BY <1>1, <1>2, <1>3, <1>4 DEF PruneOrCommit

\* A manager that is not working any more owes nothing.
LEMMA LeaverOwes ==
    ASSUME OwedInv, NEW o \in Owners, ~Working(o)',
           \A p \in Owners, b \in Artifacts : p # o => Untouched(p, b) /\ Continued(p, b)
    PROVE  OwedInv'
<1> SUFFICES ASSUME NEW p \in Owners, NEW b \in Artifacts
             PROVE  OwedHere(p, b)'
  BY DEF OwedInv, OwedHere
<1>1. CASE p = o
  BY <1>1 DEF OwedHere, RowIsOwed, OpeningIsBound
<1>2. CASE p # o
  BY <1>2, SameRow
<1> QED
  BY <1>1, <1>2

LEMMA SameOperationContinues ==
    ASSUME UNCHANGED op, NEW o, NEW a
    PROVE  Continued(o, a)
BY DEF Continued, At, Opening

LEMMA HandleOwes ==
    ASSUME ReleaseWhileOpening = FALSE, TypeInv, OwedInv, NEW o \in Owners, Handle(o)
    PROVE  OwedInv'
<1>t. TypeOK
  BY DEF TypeInv
<1>h. \A p \in Owners, b \in Artifacts, k \in Kinds : handles[p][b][k] \in Nat
  BY <1>t DEF TypeOK
<1>1. ASSUME NEW a \in Artifacts, NEW k \in Kinds, Retain(o, a, k)
      PROVE  OwedInv'
  <2> SUFFICES ASSUME NEW p \in Owners, NEW b \in Artifacts
               PROVE  OwedHere(p, b)'
    BY DEF OwedInv, OwedHere
  <2>1. /\ UNCHANGED <<lease, status, failed, confirmed, beat, op, abandoned>>
        /\ handles' = [handles EXCEPT ![o][a][k] = @ + 1]
        /\ pending' = [pending EXCEPT ![o][a] = NoRelease]
        /\ Live(o, a)
    BY <1>1 DEF Retain
  <2>2. CASE p = o /\ b = a
    <3>1. Live(o, a)'
      BY <1>t, <1>h, <2>1 DEF TypeOK, Live
    <3>2. RowIsOwed(o, a) /\ OpeningIsBound(o, a)
      BY DEF OwedInv
    <3>3. (Renewed(o, a, Owed(o, a)))' = Renewed(o, a, Owed(o, a))
      BY <2>1, <3>1 DEF Renewed, Renewing, Owed
    <3>4. RowIsOwed(o, a)'
      BY <2>1, <3>2, <3>3 DEF RowIsOwed, Working, At, Releasing
    <3>5. OpeningIsBound(o, a)'
      BY <2>1, <3>2 DEF OpeningIsBound, Working, Opening, Renewed, Renewing
    <3> QED
      BY <2>2, <3>4, <3>5 DEF OwedHere
  <2>3. CASE p # o \/ b # a
    <3>1. Untouched(p, b)
      BY <1>t, <2>1, <2>3 DEF Untouched, Working, TypeOK
    <3> QED
      BY <2>1, <3>1, SameRow, SameOperationContinues
  <2> QED
    BY <2>2, <2>3
<1>2. ASSUME NEW a \in Artifacts, NEW k \in Kinds, Release(o, a, k)
      PROVE  OwedInv'
  <2> SUFFICES ASSUME NEW p \in Owners, NEW b \in Artifacts
               PROVE  OwedHere(p, b)'
    BY DEF OwedInv, OwedHere
  <2> DEFINE last == \A j \in Kinds : handles[o][a][j] = IF j = k THEN 1 ELSE 0
             gone == IF last THEN {a} ELSE {}
  <2>1. /\ UNCHANGED <<lease, status, failed, beat, op, abandoned>>
        /\ ~Opening(o, a) /\ handles[o][a][k] > 0
        /\ handles' = [handles EXCEPT ![o][a][k] = @ - 1]
        /\ pending' = [pending EXCEPT ![o] = Due(o, gone)]
        /\ confirmed' = [confirmed EXCEPT ![o] = Forgotten(o, gone)]
    BY <1>2 DEF Release
  <2>2. /\ \A j \in Kinds : handles'[o][a][j] = IF j = k THEN handles[o][a][j] - 1 ELSE handles[o][a][j]
        /\ p # o \/ b # a => handles'[p][b] = handles[p][b]
    BY <1>t, <2>1 DEF TypeOK
  <2>3. Live(o, a)' <=> ~last
    BY <1>h, <2>1, <2>2 DEF Live
  <2>4. /\ pending'[o][a] = IF last THEN confirmed[o][a] ELSE pending[o][a]
        /\ confirmed'[o][a] = IF last THEN 0 ELSE confirmed[o][a]
    BY <1>t, <2>1 DEF Due, Forgotten, TypeOK
  <2>5. p # o \/ b # a => pending'[p][b] = pending[p][b] /\ confirmed'[p][b] = confirmed[p][b]
    BY <1>t, <2>1 DEF Due, Forgotten, TypeOK
  <2>6. CASE p = o /\ b = a
    <3> HIDE DEF last
    <3>1. Live(o, a)
      BY <2>1 DEF Live
    <3>2. (Renewed(o, a, Owed(o, a)))' = Renewed(o, a, Owed(o, a))
      BY <2>1, <2>3, <2>4, <3>1 DEF Renewed, Renewing, Owed
    <3>3. RowIsOwed(o, a)
      BY DEF OwedInv
    <3>4. RowIsOwed(o, a)'
      BY <2>1, <3>1, <3>2, <3>3 DEF RowIsOwed, Working, At, Releasing
    <3>5. OpeningIsBound(o, a)'
      BY <2>1 DEF OpeningIsBound, Opening
    <3> QED
      BY <2>6, <3>4, <3>5 DEF OwedHere
  <2>7. CASE p # o \/ b # a
    <3>1. Untouched(p, b)
      BY <2>1, <2>2, <2>5, <2>7 DEF Untouched, Working
    <3> QED
      BY <2>1, <3>1, SameRow, SameOperationContinues
  <2> QED
    BY <2>6, <2>7
<1>3. CASE NoticeExpiry(o)
  <2>1. UNCHANGED <<lease, handles, confirmed, pending, beat, status, op, abandoned>>
        /\ \A p \in Owners : failed[p] => failed'[p]
    BY <1>t, <1>3 DEF NoticeExpiry, TypeOK
  <2> QED
    BY <2>1, OperationOwes, SameOperationContinues
<1> QED
  BY <1>1, <1>2, <1>3 DEF Handle

LEMMA LeaveOwes ==
    ASSUME TypeInv, OwedInv, NEW o \in Owners, CloseManager(o) \/ Crash(o)
    PROVE  OwedInv'
<1>t. TypeOK
  BY DEF TypeInv
<1>n. NoOp.owner = None /\ NoOp.pc = "none" /\ NoOp.stamp = 0
  BY DEF NoOp
<1>1. status'[o] \in {"closed", "crashed"}
  BY <1>t DEF CloseManager, Crash, TypeOK
<1>2. \A p \in Owners, b \in Artifacts : p # o => Untouched(p, b)
  BY <1>t DEF CloseManager, Crash, TypeOK, Untouched, Working
<1>3. op' = op \/ (op' = NoOp /\ op.owner = o)
  BY DEF CloseManager, Crash
<1>4. \A p \in Owners, b \in Artifacts : p # o => Continued(p, b)
  BY <1>n, <1>3 DEF Continued, At, Opening
<1> QED
  BY <1>1, <1>2, <1>4, LeaverOwes DEF Working

LEMMA RoundOwes ==
    ASSUME OwedInv, NEW o \in Owners, UNCHANGED <<handles, op, abandoned>>,
           \A p \in Owners, b \in Artifacts : p # o =>
               /\ lease'[p][b] = lease[p][b] /\ confirmed'[p][b] = confirmed[p][b]
               /\ pending'[p][b] = pending[p][b] /\ beat'[p] = beat[p]
               /\ Working(p)' => Working(p),
           Working(o)' => \A b \in Artifacts : OwedHere(o, b)'
    PROVE  OwedInv'
<1> SUFFICES ASSUME NEW p \in Owners, NEW b \in Artifacts
             PROVE  OwedHere(p, b)'
  BY DEF OwedInv, OwedHere
<1>1. CASE p = o /\ Working(o)'
  BY <1>1
<1>2. CASE p = o /\ ~Working(o)'
  BY <1>2 DEF OwedHere, RowIsOwed, OpeningIsBound
<1>3. CASE p # o
  <2>1. Untouched(p, b)
    BY <1>3 DEF Untouched
  <2> QED
    BY <2>1, SameRow, SameOperationContinues
<1> QED
  BY <1>1, <1>2, <1>3

LEMMA HeartbeatOwes ==
    ASSUME CatalogBusy = FALSE, TypeInv, LeaseInv, OwedInv, NEW o \in Owners, Heartbeat(o)
    PROVE  OwedInv'
<1> USE DEF stored, manager
<1>t. TypeOK /\ beat[o] \in BeatSet
  BY DEF TypeInv, TypeOK
<1>i. \A b \in Artifacts : RowIsOwed(o, b) /\ OpeningIsBound(o, b)
  BY DEF OwedInv
<1>1. CASE BeatSnapshot(o)
  <2> DEFINE releases == [a \in Artifacts |-> IF Live(o, a) THEN NoRelease ELSE pending[o][a]]
             r == [NoBeat EXCEPT !.pc = "release", !.releases = releases,
                                 !.live = LiveArtifacts(o), !.closed = status[o] = "closed"]
  <2>1. /\ UNCHANGED <<lease, status, failed, handles, confirmed, op, abandoned>>
        /\ beat[o].pc = "idle"
        /\ beat' = [beat EXCEPT ![o] = r]
        /\ pending' = [pending EXCEPT ![o] =
               [a \in Artifacts |-> IF Live(o, a) THEN pending[o][a] ELSE NoRelease]]
    BY <1>1 DEF BeatSnapshot
  <2>2. r.pc = "release" /\ r.releases = releases
    BY DEF NoBeat
  <2> HIDE DEF r
  <2>3. /\ beat'[o].pc = "release"
        /\ \A b \in Artifacts : ~Live(o, b) => beat'[o].releases[b] = pending[o][b]
        /\ \A p \in Owners : p # o => beat'[p] = beat[p] /\ pending'[p] = pending[p]
        /\ \A b \in Artifacts : Live(o, b) => pending'[o][b] = pending[o][b]
    BY <1>t, <2>1, <2>2 DEF TypeOK
  <2>4. ASSUME NEW b \in Artifacts
        PROVE  OwedHere(o, b)'
    <3>1. ~Renewing(o, b) /\ ~Renewing(o, b)' /\ (Live(o, b) <=> Live(o, b)')
      BY <2>1, <2>3 DEF Renewing, Live
    <3>2. RowIsOwed(o, b)'
      <4>1. CASE Live(o, b)
        BY <1>i, <2>1, <3>1, <4>1 DEF RowIsOwed, Working, At, Owed, Renewed, Releasing
      <4>2. CASE ~Live(o, b)
        <5>1. lease[o][b] = Renewed(o, b, Owed(o, b)) => Releasing(o, b)'
          BY <2>1, <2>3, <3>1, <4>2 DEF Owed, Renewed, Releasing
        <5> QED
          BY <1>i, <2>1, <4>2, <5>1 DEF RowIsOwed, Working, At, Releasing
      <4> QED
        BY <4>1, <4>2
    <3>3. OpeningIsBound(o, b)'
      BY <1>i, <2>1, <3>1 DEF OpeningIsBound, Working, Opening, Renewed
    <3> QED
      BY <3>2, <3>3 DEF OwedHere
  <2> QED
    BY <2>1, <2>3, <2>4, RoundOwes DEF Working
<1>2. CASE BeatRelease(o)
  <2>1. /\ UNCHANGED <<status, failed, handles, confirmed, pending, op, abandoned>>
        /\ beat[o].pc = "release"
        /\ beat' = [beat EXCEPT ![o].pc = "start"]
        /\ lease' = [lease EXCEPT ![o] = [a \in Artifacts |-> DeletedRow(o, a)]]
    BY <1>2 DEF BeatRelease
  <2>2. /\ beat'[o].pc = "start"
        /\ \A p \in Owners : p # o => beat'[p] = beat[p] /\ lease'[p] = lease[p]
        /\ \A b \in Artifacts :
               lease'[o][b] = IF lease[o][b] = beat[o].releases[b] THEN 0 ELSE lease[o][b]
    BY <1>t, <2>1 DEF TypeOK, BeatSet, DeletedRow
  <2>3. ASSUME NEW b \in Artifacts
        PROVE  OwedHere(o, b)'
    <3>1. ~Renewing(o, b) /\ ~Renewing(o, b)' /\ (Live(o, b) <=> Live(o, b)')
      BY <2>1, <2>2 DEF Renewing, Live
    <3>2. RowIsOwed(o, b)'
      BY <1>i, <2>1, <2>2, <3>1 DEF RowIsOwed, Working, At, Owed, Renewed, Releasing
    <3>3. OpeningIsBound(o, b)'
      <4>1. /\ op.stamp \in Nat /\ confirmed[o][b] \in Nat /\ lease[o][b] \in Nat
            /\ Later(op.stamp, confirmed[o][b]) \in Nat
        BY <1>t, Numbers, LaterFacts
      <4>2. lease'[o][b] \in Nat /\ lease'[o][b] <= lease[o][b]
        BY <2>2, <4>1
      <4>3. Working(o) /\ Opening(o, b) /\ op.stamp > 0
                => lease'[o][b] <= Later(op.stamp, confirmed[o][b])
        BY <1>i, <3>1, <4>1, <4>2 DEF OpeningIsBound, Renewed
      <4> QED
        BY <2>1, <3>1, <4>3 DEF OpeningIsBound, Working, Opening, Renewed
    <3> QED
      BY <3>2, <3>3 DEF OwedHere
  <2> QED
    BY <2>1, <2>2, <2>3, RoundOwes DEF Working
<1>3. CASE BeatStart(o) \/ BeatNothing(o)
  <2>1. /\ UNCHANGED <<lease, failed, handles, confirmed, pending, op, abandoned>>
        /\ beat[o].pc = "start"
        /\ \A p \in Owners : status'[p] = "open" => status[p] = "open"
    BY <1>t, <1>3 DEF BeatStart, BeatNothing, EndBeat, TypeOK
  <2>2. beat'[o].pc # "confirm" /\ \A p \in Owners : p # o => beat'[p] = beat[p]
    <3>1. CASE BeatStart(o)
      <4>1. PICK stamp \in Stamps :
                beat' = [beat EXCEPT ![o] = [@ EXCEPT !.pc = "update", !.stamp = stamp,
                              !.live = beat[o].live \cap LiveArtifacts(o)]]
        BY <3>1 DEF BeatStart
      <4> QED
        BY <1>t, <4>1 DEF TypeOK, BeatSet
    <3>2. CASE BeatNothing(o)
      BY <1>t, <3>2, NoBeatFields DEF BeatNothing, EndBeat, TypeOK
    <3> QED
      BY <1>3, <3>1, <3>2
  <2>3. ASSUME NEW b \in Artifacts
        PROVE  Working(o)' => OwedHere(o, b)'
    <3>1. ~Renewing(o, b) /\ ~Renewing(o, b)' /\ (Live(o, b) <=> Live(o, b)')
      BY <2>1, <2>2 DEF Renewing, Live
    <3>2. Working(o)' => Working(o)
      BY <2>1 DEF Working
    <3>3. Working(o)' => RowIsOwed(o, b)'
      BY <1>i, <2>1, <3>1, <3>2 DEF RowIsOwed, At, Owed, Renewed, Releasing
    <3>4. Working(o)' => OpeningIsBound(o, b)'
      BY SMTT(60), <1>i, <2>1, <3>1, <3>2 DEF OpeningIsBound, Opening, Renewed
    <3> QED
      BY <3>3, <3>4 DEF OwedHere
  <2> QED
    BY <2>1, <2>2, <2>3, RoundOwes DEF Working
<1>4. CASE BeatUpdate(o)
  <2> DEFINE renewed(a) == a \in beat[o].live /\ lease[o][a] > 0
  <2>1. /\ UNCHANGED <<status, failed, handles, confirmed, pending, op, abandoned>>
        /\ beat[o].pc = "update"
        /\ lease' = [lease EXCEPT ![o] = [a \in Artifacts |->
               IF renewed(a) THEN Later(lease[o][a], beat[o].stamp) ELSE lease[o][a]]]
        /\ beat' = [beat EXCEPT ![o] = [@ EXCEPT !.pc = "confirm", !.releases = NoReleases,
                        !.lost = {a \in beat[o].live : lease[o][a] = 0}]]
    BY <1>4 DEF BeatUpdate
  <2>2. /\ beat'[o].pc = "confirm" /\ beat'[o].live = beat[o].live
        /\ beat'[o].stamp = beat[o].stamp
        /\ beat'[o].lost = {a \in beat[o].live : lease[o][a] = 0}
        /\ \A p \in Owners : p # o => beat'[p] = beat[p] /\ lease'[p] = lease[p]
        /\ \A b \in Artifacts : lease'[o][b] =
               IF renewed(b) THEN Later(lease[o][b], beat[o].stamp) ELSE lease[o][b]
    BY <1>t, <2>1 DEF TypeOK, BeatSet
  <2>3. ASSUME NEW b \in Artifacts
        PROVE  OwedHere(o, b)'
    <3>0. /\ lease[o][b] \in Nat /\ beat[o].stamp \in Nat /\ op.stamp \in Nat
          /\ confirmed[o][b] \in Nat /\ Later(op.stamp, confirmed[o][b]) \in Nat
      BY <1>t, Numbers, LaterFacts
    <3>1. ~Renewing(o, b) /\ (Live(o, b) <=> Live(o, b)') /\ ~Releasing(o, b)
      BY <2>1 DEF Renewing, Live, Releasing
    <3>2. Renewing(o, b)' <=> renewed(b)
      BY <2>2, <3>0 DEF Renewing
    <3>3. Owed(o, b)' = Owed(o, b)
      BY <2>1, <3>1 DEF Owed
    <3>4. ASSUME NEW stamp \in Int
          PROVE  Renewed(o, b, stamp) = stamp
                 /\ (Renewed(o, b, stamp))' =
                        IF renewed(b) /\ stamp # NoRelease THEN Later(beat[o].stamp, stamp) ELSE stamp
      BY <2>2, <3>1, <3>2 DEF Renewed, Renewing
    <3> HIDE DEF renewed
    <3>5. Owed(o, b) \in Int
      BY <1>t, Numbers DEF Owed
    <3>6. RowIsOwed(o, b)'
      <4>1. (Renewed(o, b, Owed(o, b)))' =
                IF renewed(b) /\ Owed(o, b) # NoRelease
                THEN Later(beat[o].stamp, Owed(o, b)) ELSE Owed(o, b)
        BY <2>2, <3>2, <3>3 DEF Renewed, Renewing
      <4>2. lease[o][b] = Owed(o, b) => lease'[o][b] = (Renewed(o, b, Owed(o, b)))'
        BY <2>2, <3>0, <4>1 DEF Later, NoRelease
      <4>3. lease'[o][b] > 0 => lease[o][b] > 0
        BY <2>2, <3>0 DEF renewed
      <4>4. Renewed(o, b, Owed(o, b)) = Owed(o, b)
        BY <3>4, <3>5
      <4> QED
        BY <1>i, <2>1, <3>1, <4>2, <4>3, <4>4 DEF RowIsOwed, Working, At
    <3>7. OpeningIsBound(o, b)'
      <4> DEFINE top == Later(op.stamp, confirmed[o][b])
      <4>1. /\ Renewed(o, b, top) = top
            /\ (Renewed(o, b, top))' = IF renewed(b) THEN Later(beat[o].stamp, top) ELSE top
        BY <2>1, <2>2, <3>0, <3>1, <3>2 DEF Renewed, Renewing, NoRelease
      <4> HIDE DEF top
      <4>2. lease[o][b] <= top => lease'[o][b] <= (Renewed(o, b, top))'
        <5>1. top \in Nat
          BY <3>0 DEF top
        <5> QED
          BY <2>2, <3>0, <4>1, <5>1 DEF Later
      <4> QED
        BY <1>i, <2>1, <4>1, <4>2 DEF OpeningIsBound, Working, Opening, top
    <3> QED
      BY <3>6, <3>7 DEF OwedHere
  <2> QED
    BY <2>1, <2>2, <2>3, RoundOwes DEF Working
<1>5. CASE BeatConfirm(o)
  <2>1. /\ UNCHANGED <<lease, handles, op, abandoned>>
        /\ beat[o].pc = "confirm"
        /\ beat' = [beat EXCEPT ![o] = NoBeat]
        /\ \A p \in Owners : status'[p] = "open" => status[p] = "open"
        /\ pending' = [pending EXCEPT ![o] = RenewedReleases(o)]
        /\ confirmed' = [confirmed EXCEPT ![o] = [a \in Artifacts |->
               IF ~Poisoned(o) /\ Live(o, a) /\ a \in beat[o].live \ beat[o].lost
               THEN Later(beat[o].stamp, confirmed[o][a]) ELSE confirmed[o][a]]]
        /\ failed' = [failed EXCEPT ![o] = Poisoned(o) \/ beat[o].lost # {}]
    BY <1>t, <1>5 DEF BeatConfirm, EndBeat, TypeOK
  <2>2. /\ beat'[o] = NoBeat
        /\ Working(o)' => Working(o) /\ ~Poisoned(o)
        /\ \A p \in Owners : p # o =>
               /\ beat'[p] = beat[p] /\ confirmed'[p] = confirmed[p]
               /\ pending'[p] = pending[p] /\ failed'[p] = failed[p]
    BY <1>t, <2>1 DEF TypeOK, Working, Poisoned
  <2>3. ASSUME NEW b \in Artifacts, Working(o)'
        PROVE  OwedHere(o, b)'
    <3>w. Working(o) /\ ~Poisoned(o)
      BY <2>2, <2>3
    <3>0. /\ lease[o][b] \in Nat /\ beat[o].stamp \in Nat /\ op.stamp \in Nat
          /\ confirmed[o][b] \in Nat /\ pending[o][b] \in Int /\ pending[o][b] >= NoRelease
      BY <1>t, Numbers
    <3>1. ~Renewing(o, b)' /\ (Live(o, b) <=> Live(o, b)') /\ ~Releasing(o, b)
      BY <2>1, <2>2, NoBeatFields DEF Renewing, Live, Releasing
    <3>2. /\ confirmed'[o][b] = IF Live(o, b) /\ Renewing(o, b)
                                THEN Later(beat[o].stamp, confirmed[o][b]) ELSE confirmed[o][b]
          /\ pending'[o][b] = IF Renewing(o, b) /\ ~Live(o, b) /\ pending[o][b] # NoRelease
                              THEN Later(beat[o].stamp, pending[o][b]) ELSE pending[o][b]
      BY <1>t, <2>1, <3>w DEF TypeOK, Renewing, RenewedReleases
    <3>3. confirmed[o][b] # NoRelease
      BY <3>0 DEF NoRelease
    <3>4. Owed(o, b)' = Renewed(o, b, Owed(o, b))
      BY <3>1, <3>2, <3>3 DEF Owed, Renewed
    <3>5. (Renewed(o, b, Owed(o, b)))' = Owed(o, b)'
      BY <3>1 DEF Renewed
    <3>6. RowIsOwed(o, b)'
      BY <1>i, <2>1, <3>w, <3>1, <3>4, <3>5 DEF RowIsOwed, At
    <3>7. OpeningIsBound(o, b)'
      <4> SUFFICES ASSUME Opening(o, b), op.stamp > 0
                   PROVE  lease[o][b] <= Later(op.stamp, confirmed'[o][b])
        BY <2>1, <3>1 DEF OpeningIsBound, Opening, Renewed
      <4>1. lease[o][b] <= Renewed(o, b, Later(op.stamp, confirmed[o][b]))
        BY <1>i, <3>w DEF OpeningIsBound
      <4>2. Later(op.stamp, confirmed[o][b]) # NoRelease
        <5>1. Later(op.stamp, confirmed[o][b]) \in Nat
          BY <3>0, LaterFacts
        <5> QED
          BY <5>1 DEF NoRelease
      <4>3. CASE Renewing(o, b) /\ Live(o, b)
        <5>1. Renewed(o, b, Later(op.stamp, confirmed[o][b]))
                  = Later(beat[o].stamp, Later(op.stamp, confirmed[o][b]))
          BY <4>2, <4>3 DEF Renewed
        <5>2. confirmed'[o][b] = Later(beat[o].stamp, confirmed[o][b])
          BY <3>2, <4>3
        <5> QED
          BY <3>0, <4>1, <5>1, <5>2 DEF Later
      <4>4. CASE Renewing(o, b) /\ ~Live(o, b)
        <5>1. op.stamp > beat[o].stamp
          BY <3>w, <4>4 DEF LeaseInv, OpeningIsNewest, Renewing, Working
        <5>2. Renewed(o, b, Later(op.stamp, confirmed[o][b]))
                  = Later(beat[o].stamp, Later(op.stamp, confirmed[o][b]))
          BY <4>2, <4>4 DEF Renewed
        <5>3. confirmed'[o][b] = confirmed[o][b]
          BY <3>2, <4>4
        <5> QED
          BY <3>0, <4>1, <5>1, <5>2, <5>3 DEF Later
      <4>5. CASE ~Renewing(o, b)
        BY <3>2, <4>1, <4>5 DEF Renewed
      <4> QED
        BY <4>3, <4>4, <4>5
    <3> QED
      BY <3>6, <3>7 DEF OwedHere
  <2> QED
    BY <2>1, <2>2, <2>3, RoundOwes DEF Working
<1>6. CASE BeatFail(o)
  <2>1. ~Working(o)'
    BY <1>t, <1>6 DEF BeatFail, Working, TypeOK
  <2>2. \A p \in Owners, b \in Artifacts : p # o => Untouched(p, b)
    BY <1>t, <1>6 DEF BeatFail, Untouched, Working, TypeOK
  <2>3. UNCHANGED op
    BY <1>6 DEF BeatFail
  <2> QED
    BY <2>1, <2>2, <2>3, LeaverOwes, SameOperationContinues
<1> QED
  BY <1>1, <1>2, <1>3, <1>4, <1>5, <1>6 DEF Heartbeat, BeatBusy

LEMMA LessFacts ==
    /\ Less(NoRelease) = NoRelease
    /\ \A x \in Nat : Less(x) \in Nat /\ Less(x) # NoRelease
    /\ \A x, y \in Nat : Less(Later(x, y)) = Later(Less(x), Less(y))
    /\ \A x, y \in Nat : x <= y => Less(x) <= Less(y)
BY DEF Less, Later, NoRelease

LEMMA ExpireFields ==
    ASSUME TypeOK, Expire, NEW o \in Owners, NEW a \in Artifacts
    PROVE  /\ lease'[o][a] = Less(lease[o][a]) /\ confirmed'[o][a] = Less(confirmed[o][a])
           /\ pending'[o][a] = Less(pending[o][a])
           /\ beat'[o].pc = beat[o].pc /\ beat'[o].live = beat[o].live
           /\ beat'[o].lost = beat[o].lost /\ beat'[o].stamp = Less(beat[o].stamp)
           /\ beat'[o].releases[a] = Less(beat[o].releases[a])
           /\ op'.pc = op.pc /\ op'.owner = op.owner /\ op'.artifact = op.artifact
           /\ op'.stamp = Less(op.stamp)
           /\ UNCHANGED <<status, failed, handles>>
           /\ lease[o][a] > 1 /\ <<o, a>> \in abandoned => <<o, a>> \in abandoned'
<1>1. beat[o] \in BeatSet /\ op \in OpSet
  BY DEF TypeOK
<1>2. beat'[o] = [beat[o] EXCEPT !.stamp = Less(beat[o].stamp),
                      !.releases = [b \in Artifacts |-> Less(beat[o].releases[b])]]
  BY DEF Expire
<1>3. /\ beat'[o].pc = beat[o].pc /\ beat'[o].live = beat[o].live
      /\ beat'[o].lost = beat[o].lost /\ beat'[o].stamp = Less(beat[o].stamp)
      /\ beat'[o].releases[a] = Less(beat[o].releases[a])
  BY <1>1, <1>2 DEF BeatSet
<1>4. op' = [op EXCEPT !.stamp = Less(op.stamp)]
  BY DEF Expire
<1>5. /\ op'.pc = op.pc /\ op'.owner = op.owner /\ op'.artifact = op.artifact
      /\ op'.stamp = Less(op.stamp)
  BY <1>1, <1>4 DEF OpSet
<1>6. /\ lease'[o][a] = Less(lease[o][a]) /\ confirmed'[o][a] = Less(confirmed[o][a])
      /\ pending'[o][a] = Less(pending[o][a]) /\ UNCHANGED <<status, failed, handles>>
  BY DEF Expire
<1>7. lease[o][a] > 1 /\ <<o, a>> \in abandoned => <<o, a>> \in abandoned'
  BY DEF Expire
<1> QED
  BY <1>3, <1>5, <1>6, <1>7

\* The clock passes the next reading for everybody at once.
LEMMA ExpireOwes ==
    ASSUME TypeInv, OwedInv, Expire
    PROVE  OwedInv'
<1>t. TypeOK
  BY DEF TypeInv
<1> SUFFICES ASSUME NEW o \in Owners, NEW a \in Artifacts
             PROVE  RowIsOwed(o, a)' /\ OpeningIsBound(o, a)'
  BY DEF OwedInv
<1>0. /\ lease[o][a] \in Nat /\ confirmed[o][a] \in Nat /\ op.stamp \in Nat
      /\ beat[o].stamp \in Nat /\ pending[o][a] \in Nat \cup {NoRelease}
  <2>1. pending[o][a] \in Nat \cup {NoRelease}
    BY <1>t DEF TypeOK, Stamps
  <2> QED
    BY <1>t, <2>1, Numbers
<1>f. /\ lease'[o][a] = Less(lease[o][a]) /\ confirmed'[o][a] = Less(confirmed[o][a])
      /\ pending'[o][a] = Less(pending[o][a])
      /\ beat'[o].pc = beat[o].pc /\ beat'[o].live = beat[o].live
      /\ beat'[o].lost = beat[o].lost /\ beat'[o].stamp = Less(beat[o].stamp)
      /\ beat'[o].releases[a] = Less(beat[o].releases[a])
      /\ op'.pc = op.pc /\ op'.owner = op.owner /\ op'.artifact = op.artifact
      /\ op'.stamp = Less(op.stamp)
      /\ UNCHANGED <<status, failed, handles>>
      /\ lease[o][a] > 1 /\ <<o, a>> \in abandoned => <<o, a>> \in abandoned'
  BY <1>t, ExpireFields
<1>1. /\ (Live(o, a) <=> Live(o, a)') /\ (Renewing(o, a) <=> Renewing(o, a)')
      /\ (Working(o) <=> Working(o)') /\ (At(o, a, "handle") <=> At(o, a, "handle")')
      /\ (Opening(o, a) <=> Opening(o, a)')
  BY <1>f DEF Live, Renewing, Working, At, Opening
<1>2. ASSUME NEW x \in Nat \cup {NoRelease}
      PROVE  IF Renewing(o, a)' /\ Less(x) # NoRelease THEN Later(beat'[o].stamp, Less(x)) = Less(Renewed(o, a, x))
             ELSE Less(x) = Less(Renewed(o, a, x))
  BY <1>0, <1>f, <1>1, LessFacts DEF Renewed
<1>3. lease'[o][a] > 0 => lease[o][a] > 1 /\ lease[o][a] > 0
  BY <1>0, <1>f DEF Less
<1>4. RowIsOwed(o, a)'
  <2>1. Owed(o, a)' = Less(Owed(o, a)) /\ Owed(o, a) \in Nat \cup {NoRelease}
    BY <1>0, <1>f, <1>1 DEF Owed
  <2>2. (Renewed(o, a, Owed(o, a)))' = Less(Renewed(o, a, Owed(o, a)))
    BY <1>2, <2>1 DEF Renewed
  <2>3. RowIsOwed(o, a)
    BY DEF OwedInv
  <2> QED
    BY <1>f, <1>1, <1>3, <2>2, <2>3 DEF RowIsOwed, Releasing
<1>5. OpeningIsBound(o, a)'
  <2> DEFINE top == Later(op.stamp, confirmed[o][a])
  <2>1. top \in Nat /\ Less(top) = Later(op'.stamp, confirmed'[o][a])
    <3>1. top \in Nat
      BY <1>0, LaterFacts
    <3>2. Less(top) = Later(Less(op.stamp), Less(confirmed[o][a]))
      BY <1>0, LessFacts
    <3> QED
      BY <1>f, <3>1, <3>2
  <2>2. Renewed(o, a, top) \in Nat
    BY <1>t, <2>1, RenewedFacts
  <2>3. Working(o) /\ Opening(o, a) /\ op.stamp > 0 => lease[o][a] <= Renewed(o, a, top)
    BY DEF OwedInv, OpeningIsBound
  <2>4. op'.stamp > 0 => op.stamp > 0
    BY <1>0, <1>f DEF Less
  <2> HIDE DEF top
  <2>5. Working(o) /\ Opening(o, a) /\ op'.stamp > 0 => lease'[o][a] <= Less(Renewed(o, a, top))
    BY <1>0, <1>f, <2>2, <2>3, <2>4, LessFacts
  <2>6. Less(Renewed(o, a, top)) = (Renewed(o, a, Later(op.stamp, confirmed[o][a])))'
    BY <1>2, <2>1 DEF Renewed
  <2> QED
    BY <1>1, <2>5, <2>6 DEF OpeningIsBound
<1> QED
  BY <1>4, <1>5

LEMMA OwedStep ==
    ASSUME ReleaseWhileOpening = FALSE, CatalogBusy = FALSE,
           TypeInv, LeaseInv, OwedInv, [Next]_vars
    PROVE  OwedInv'
<1>1. CASE UNCHANGED vars
  <2>1. UNCHANGED <<lease, handles, confirmed, pending, beat, status, failed, op, abandoned>>
    BY <1>1 DEF vars
  <2> QED
    BY <2>1, OperationOwes, SameOperationContinues
<1>2. CASE Next
  BY <1>2, OpenOwes, PruneOrCommitOwes, HandleOwes, HeartbeatOwes, LeaveOwes, ExpireOwes DEF Next
<1> QED
  BY <1>1, <1>2

\* A release is never lost: once the releases of a manager are flushed, it
\* keeps no row but those of its handles and of openings that failed, whatever
\* renewals, openings and expiries the releases raced with (leases.py release,
\* _maintain).  This needs a heartbeat that is not turned away by the catalog:
\* a round that is puts its releases back as it had taken them.
THEOREM ReleasesLeaveNoLease ==
    ReleaseWhileOpening = FALSE /\ CatalogBusy = FALSE
        => (Spec => []FlushedReleasesLeaveNoLease)
<1> SUFFICES ASSUME ReleaseWhileOpening = FALSE, CatalogBusy = FALSE
             PROVE  Spec => []FlushedReleasesLeaveNoLease
  OBVIOUS
<1> DEFINE Inv == TypeInv /\ LeaseInv /\ OwedInv
<1>1. Init => Inv
  BY TypeInit, LeaseInit, OwedInit
<1>2. Inv /\ [Next]_vars => Inv'
  BY TypeStep, LeaseStep, OwedStep
<1>3. Inv => FlushedReleasesLeaveNoLease
  <2> SUFFICES ASSUME TypeInv, OwedInv, NEW o \in Owners, NEW a \in Artifacts,
                      lease[o][a] > 0, status[o] = "open", ~Poisoned(o), Flushed(o)
               PROVE  Live(o, a) \/ Opening(o, a) \/ <<o, a>> \in abandoned
    BY DEF FlushedReleasesLeaveNoLease
  <2>1. Working(o) /\ ~Releasing(o, a) /\ ~Renewing(o, a)
    BY DEF Poisoned, Working, Flushed, Releasing, Renewing
  <2>2. RowIsOwed(o, a)
    BY DEF OwedInv
  <2>3. ~Live(o, a) => Renewed(o, a, Owed(o, a)) = NoRelease
    BY <2>1 DEF Renewed, Owed, Flushed, NoReleases
  <2>4. lease[o][a] # NoRelease
    BY DEF NoRelease, TypeInv, TypeOK, Stamps
  <2> QED
    BY <2>1, <2>2, <2>3, <2>4 DEF RowIsOwed, At, Opening
<1> QED
  BY <1>1, <1>2, <1>3, PTL DEF Spec
=============================================================================
