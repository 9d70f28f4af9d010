---------------------------- MODULE ArtifactStore ----------------------------
(***************************************************************************)
(* The directories of an export repository beside the rows of its catalog. *)
(*                                                                         *)
(* Nothing is atomic between the file system and the catalog.  A process   *)
(* that installs an artifact moves the staging tree to its place and then  *)
(* commits the row; one that removes an artifact moves the tree aside,     *)
(* removes the row and accounts the bytes in one transaction, and deletes  *)
(* the tree last.  A step is one move or removal of a tree or one          *)
(* transaction, and the process may crash, or a call raise, between any    *)
(* two.  Opening a repository recovers what was left.                      *)
(*                                                                         *)
(* The maintenance lock admits one task at a time.  Which artifacts        *)
(* retention gives up is left open here (module Retention), and so is who  *)
(* has a lease (module ArtifactLeases).                                    *)
(***************************************************************************)
EXTENDS Naturals, FiniteSets, SequencesExt

CONSTANTS
    StoredStates,       \* prepared state instances
    StoredGenerations,  \* export generation instances
    MembersOf,          \* of each generation: the states it contains
    MaxSiblings,        \* bound: trees of one kind set aside beside an artifact
    MaxMishaps          \* bound: crashes and errors of the tasks

Stored == StoredStates \cup StoredGenerations

ASSUME StoreAssumption ==
    /\ StoredStates \cap StoredGenerations = {}
    /\ MembersOf \in [StoredGenerations -> SUBSET StoredStates]
    /\ MaxSiblings \in Nat \ {0}
    /\ MaxMishaps \in Nat

VARIABLES
    rows,        \* artifacts with a row in prepared_states or generations
    malformed,   \* rows that do not parse any more
    placed,      \* the tree in the place of each artifact
    side,        \* the trees set aside: .<instance>-incomplete-*, -quarantine-*
    retired,     \* retired_artifacts: the trees set aside that are accounted
    stageDirs,   \* artifacts whose staging directory exists
    stageLeases, \* artifacts whose staging directory has a lease
    preparers,   \* artifacts whose staging directory a live preparation uses
    task,        \* what the holder of the maintenance lock is doing
    hurt,        \* history: artifacts whose tree was damaged from outside, until a
                 \* commit of a whole one is published
    mishaps      \* history: crashes and errors so far

storeVars == <<rows, malformed, placed, side, retired, stageDirs, stageLeases, preparers,
               task, hurt, mishaps>>
staging == <<stageDirs, stageLeases, preparers>>
fromOutside == <<malformed, hurt>>

Trees == {"none", "good", "bad"}
SideNames == [of : Stored, made : {"incomplete", "quarantine"}, id : 1..MaxSiblings]
NoTask == [kind |-> "none", pc |-> "idle", art |-> {}, todo |-> <<>>, moved |-> <<>>,
           matched |-> {}, fresh |-> FALSE, tried |-> {}]
TaskPcs == {"idle", "stage", "quarantine", "restore", "settle", "release", "install", "swap",
            "backup", "publish", "orphan", "record", "discard", "account", "cleanup", "cleaned",
            "staging", "backups"}
Tasks == [kind : {"none", "stage", "commit", "prune", "recover"}, pc : TaskPcs,
          art : SUBSET Stored, todo : Seq(Stored), moved : Seq(SideNames),
          matched : SUBSET Stored, fresh : BOOLEAN, tried : SUBSET SideNames]

StoreTypeOK ==
    /\ rows \subseteq Stored
    /\ malformed \subseteq rows
    /\ placed \in [Stored -> Trees]
    /\ side \in [SideNames -> Trees]
    /\ retired \subseteq SideNames
    /\ stageDirs \subseteq Stored
    /\ stageLeases \subseteq Stored
    /\ preparers \subseteq Stored
    /\ task \in Tasks
    /\ hurt \subseteq Stored
    /\ mishaps \in 0..MaxMishaps

StoreInit ==
    /\ rows = {}
    /\ malformed = {}
    /\ placed = [a \in Stored |-> "none"]
    /\ side = [n \in SideNames |-> "none"]
    /\ retired = {}
    /\ stageDirs = {}
    /\ stageLeases = {}
    /\ preparers = {}
    /\ task = NoTask
    /\ hurt = {}
    /\ mishaps = 0

-----------------------------------------------------------------------------
(* Shared definitions *)

LockFree == task = NoTask
Pc(pc) == task.pc = pc
Step(pc) == task' = [task EXCEPT !.pc = pc]
EndTask == task' = NoTask
Raised == mishaps < MaxMishaps /\ mishaps' = mishaps + 1

Whole(a) == placed[a] = "good"
Aside(a) == {n \in SideNames : n.of = a /\ side[n] # "none"}
Unindexed == {a \in Stored : placed[a] # "none"} \ rows
Containing(states) == {g \in StoredGenerations : MembersOf[g] \cap states # {}}

\* Generations go before the states they contain.
InOrder(arts) == SetToSeq(arts \cap StoredGenerations) \o SetToSeq(arts \cap StoredStates)

\* A name with a new uuid or time.
NewName(n, a, made) ==
    /\ n = [of |-> a, made |-> made, id |-> n.id]
    /\ side[n] = "none" /\ n \notin retired
    /\ \A m \in SideNames : m.of = a /\ m.made = made /\ m.id < n.id
                                => side[m] # "none" \/ m \in retired

\* os.replace of the tree of an artifact to or from a sibling.
MoveAside(n) ==
    /\ placed' = [placed EXCEPT ![n.of] = "none"]
    /\ side' = [side EXCEPT ![n] = placed[n.of]]
MoveBack(n) ==
    /\ placed' = [placed EXCEPT ![n.of] = side[n]]
    /\ side' = [side EXCEPT ![n] = "none"]
RemoveSide(n) == side' = [side EXCEPT ![n] = "none"]

\* What an interrupted rmtree leaves of a tree.
Partly(tree) == {tree} \cup (IF tree = "none" THEN {} ELSE {"bad", "none"})

\* remove_tree: an error is ignored, and what could not be deleted is left.
TryRemoving(n) ==
    \E left \in Partly(side[n]) :
        /\ side' = [side EXCEPT ![n] = left]
        /\ IF left = "none" THEN UNCHANGED mishaps ELSE Raised

\* restore_quarantine: back to its place, unless that is taken again.
RestoreTree(n) ==
    IF placed[n.of] = "none" THEN MoveBack(n) /\ UNCHANGED mishaps
    ELSE TryRemoving(n) /\ UNCHANGED placed

-----------------------------------------------------------------------------
(* Staging directories: new_staging, discard_staging *)

BeginStaging(a) ==
    /\ LockFree
    /\ a \notin preparers /\ a \notin stageDirs
    /\ stageDirs' = stageDirs \cup {a}
    /\ task' = [NoTask EXCEPT !.kind = "stage", !.pc = "stage", !.art = {a}]
    /\ UNCHANGED <<rows, placed, side, retired, stageLeases, preparers, fromOutside, mishaps>>

ReserveStaging ==
    /\ Pc("stage")
    /\ stageLeases' = stageLeases \cup task.art
    /\ preparers' = preparers \cup task.art
    /\ EndTask
    /\ UNCHANGED <<rows, placed, side, retired, stageDirs, fromOutside, mishaps>>

ReserveStagingFails ==
    /\ Pc("stage")
    /\ Raised
    /\ stageDirs' \in {stageDirs, stageDirs \ task.art}
    /\ EndTask
    /\ UNCHANGED <<rows, placed, side, retired, stageLeases, preparers, fromOutside>>

\* With the lock the directory goes first; without it only the lease goes.
DiscardStaging(a) ==
    /\ a \in preparers /\ a \notin task.art
    /\ preparers' = preparers \ {a}
    /\ stageDirs' = IF LockFree THEN stageDirs \ {a} ELSE stageDirs
    /\ stageLeases' = stageLeases \ {a}
    /\ UNCHANGED <<rows, placed, side, retired, task, fromOutside, mishaps>>

\* A lease is released, or expires: that of a preparation that is over, or that
\* of a live one whose process could not renew it in time.
ExpireStaging(a) ==
    /\ a \in stageLeases
    /\ stageLeases' = stageLeases \ {a}
    /\ IF a \in preparers \cup task.art THEN Raised ELSE UNCHANGED mishaps
    /\ UNCHANGED <<rows, placed, side, retired, stageDirs, preparers, task, fromOutside>>

-----------------------------------------------------------------------------
(* prune, alone or as the admission of a commit *)

\* Retention gives up whole: no state goes while a generation keeps it.
Removable(spared) ==
    {victims \in SUBSET (rows \ spared) :
        Containing(victims \cap StoredStates) \cap rows \subseteq victims}

BeginPruning ==
    /\ LockFree
    /\ \E victims \in Removable({}) \ {{}} :
           task' = [NoTask EXCEPT !.kind = "prune", !.pc = "quarantine", !.matched = victims,
                                  !.todo = InOrder(victims)]
    /\ UNCHANGED <<rows, placed, side, retired, staging, fromOutside, mishaps>>

BeginCommitting(a) ==
    /\ LockFree
    /\ a \in preparers /\ a \in stageDirs
    /\ \E victims \in Removable({a} \cup (IF a \in StoredStates THEN {} ELSE MembersOf[a])) :
           task' = [NoTask EXCEPT !.kind = "commit", !.pc = "quarantine", !.art = {a},
                                  !.matched = victims, !.todo = InOrder(victims)]
    /\ UNCHANGED <<rows, placed, side, retired, staging, fromOutside, mishaps>>

QuarantineOne ==
    /\ Pc("quarantine")
    /\ task.todo # <<>>
    /\ LET a == Head(task.todo) IN
       IF placed[a] = "none"
       THEN /\ task' = [task EXCEPT !.todo = Tail(@)]
            /\ UNCHANGED <<placed, side>>
       ELSE \E n \in SideNames :
                /\ NewName(n, a, "quarantine")
                /\ MoveAside(n)
                /\ task' = [task EXCEPT !.todo = Tail(@), !.moved = Append(@, n)]
    /\ UNCHANGED <<rows, retired, staging, fromOutside, mishaps>>

\* commit_prune: the rows that are still victims go, and the trees that were
\* moved for them are accounted, in one transaction.
CommitPruning ==
    /\ Pc("quarantine") /\ task.kind \in {"prune", "commit"}
    /\ task.todo = <<>>
    /\ \E matched \in SUBSET task.matched :
           /\ matched \in Removable({})
           /\ rows' = rows \ matched
           /\ malformed' = malformed \ matched
           /\ retired' = retired \cup {n \in Range(task.moved) : n.of \in matched}
           /\ task' = [task EXCEPT !.pc = "settle", !.matched = matched]
    /\ UNCHANGED <<placed, side, staging, hurt, mishaps>>

\* Anything raised while trees are moved, or by the transaction.
MovingFails ==
    /\ Pc("quarantine")
    /\ Raised
    /\ Step("restore")
    /\ UNCHANGED <<rows, placed, side, retired, staging, fromOutside>>

\* _restore_all, in reverse
RestoreLast ==
    /\ Pc("restore")
    /\ task.moved # <<>>
    /\ RestoreTree(task.moved[Len(task.moved)])
    /\ task' = [task EXCEPT !.moved = SubSeq(@, 1, Len(@) - 1)]
    /\ UNCHANGED <<rows, retired, staging, fromOutside>>

RestoreEnds ==
    /\ Pc("restore")
    /\ task.moved = <<>>
    /\ EndTask
    /\ UNCHANGED <<rows, placed, side, retired, staging, fromOutside, mishaps>>

\* Mutation of SettleOne: what was not matched is discarded as well.
SettleDiscardsAll ==
    /\ Pc("settle")
    /\ task.moved # <<>>
    /\ RemoveSide(Head(task.moved)) /\ UNCHANGED placed /\ Step("release")
    /\ UNCHANGED <<rows, retired, staging, fromOutside, mishaps>>

\* Each tree that was moved: back if its row stayed, deleted if it went.
SettleOne ==
    /\ Pc("settle")
    /\ task.moved # <<>>
    /\ LET n == Head(task.moved) IN
       IF n.of \in task.matched
       THEN RemoveSide(n) /\ Step("release") /\ UNCHANGED <<placed, mishaps>>
       ELSE RestoreTree(n) /\ task' = [task EXCEPT !.moved = Tail(@)]
    /\ UNCHANGED <<rows, retired, staging, fromOutside>>

ReleaseRetired ==
    /\ Pc("release")
    /\ retired' = retired \ {Head(task.moved)}
    /\ task' = [task EXCEPT !.pc = "settle", !.moved = Tail(@)]
    /\ UNCHANGED <<rows, placed, side, staging, fromOutside, mishaps>>

SettleEnds ==
    /\ Pc("settle")
    /\ task.moved = <<>>
    /\ IF task.kind = "commit" THEN Step("install") ELSE EndTask
    /\ UNCHANGED <<rows, placed, side, retired, staging, fromOutside, mishaps>>

-----------------------------------------------------------------------------
(* commit_prepared_state and commit_export after their admission *)

Committing(pc) == task.kind = "commit" /\ Pc(pc)
Artifact == CHOOSE a \in Stored : a \in task.art

\* atomic_install: a whole tree of the same instance is kept, a damaged one is
\* moved to a backup, and the staging directory takes the place.
InstallTree ==
    /\ Committing("install")
    /\ CASE placed[Artifact] = "none" ->
              /\ placed' = [placed EXCEPT ![Artifact] = "good"]
              /\ task' = [task EXCEPT !.pc = "publish", !.fresh = TRUE]
              /\ stageDirs' = stageDirs \ {Artifact}
              /\ preparers' = preparers \ {Artifact}
              /\ UNCHANGED side
         [] placed[Artifact] = "good" ->
              /\ Step("publish")
              /\ stageDirs' = stageDirs \ {Artifact}
              /\ preparers' = preparers \ {Artifact}
              /\ UNCHANGED <<placed, side>>
         [] placed[Artifact] = "bad" ->
              \E n \in SideNames :
                  /\ NewName(n, Artifact, "incomplete")
                  /\ MoveAside(n)
                  /\ task' = [task EXCEPT !.pc = "swap", !.moved = <<n>>]
                  /\ UNCHANGED <<stageDirs, preparers>>
    /\ UNCHANGED <<rows, retired, stageLeases, fromOutside, mishaps>>

SwapTree ==
    /\ Committing("swap")
    /\ placed' = [placed EXCEPT ![Artifact] = "good"]
    /\ stageDirs' = stageDirs \ {Artifact}
    /\ preparers' = preparers \ {Artifact}
    /\ Step("backup")
    /\ UNCHANGED <<rows, side, retired, stageLeases, fromOutside, mishaps>>

DropBackup ==
    /\ Committing("backup")
    /\ RemoveSide(Head(task.moved))
    /\ task' = [task EXCEPT !.pc = "publish", !.moved = <<>>]
    /\ UNCHANGED <<rows, placed, retired, staging, fromOutside, mishaps>>

\* _restore_failed_install: the new tree goes back to staging and what the
\* deletion has left of the backup to its place.
InstallFails ==
    /\ task.kind = "commit"
    /\ task.pc \in {"swap", "backup"}
    /\ Raised
    /\ LET n == Head(task.moved) IN
       \E left \in IF Pc("swap") THEN {side[n]} ELSE Partly(side[n]) :
           /\ side' = [side EXCEPT ![n] = "none"]
           /\ placed' = [placed EXCEPT ![Artifact] = left]
    /\ stageDirs' = stageDirs \cup task.art
    /\ preparers' = preparers \cup task.art
    /\ EndTask
    /\ UNCHANGED <<rows, retired, stageLeases, fromOutside>>

\* commit_state and commit_generation; the foreign key needs the states.
PublishRow ==
    /\ Committing("publish")
    /\ Artifact \in StoredGenerations => MembersOf[Artifact] \subseteq rows
    /\ rows' = rows \cup {Artifact}
    /\ hurt' = IF Whole(Artifact) THEN hurt \ {Artifact} ELSE hurt
    /\ EndTask
    /\ UNCHANGED <<malformed, placed, side, retired, staging, mishaps>>

\* A lost fence or a limit: a tree that was not there before is retired.
PublishRefused ==
    /\ Committing("publish")
    /\ Raised
    /\ IF task.fresh THEN task' = [task EXCEPT !.pc = "orphan", !.todo = <<Artifact>>]
       ELSE EndTask
    /\ UNCHANGED <<rows, placed, side, retired, staging, fromOutside>>

-----------------------------------------------------------------------------
(* _retire_uncommitted, and _reconcile_orphan_artifacts for each orphan *)

OrphanMoved ==
    /\ Pc("orphan")
    /\ task.todo # <<>>
    /\ \E n \in SideNames :
           /\ NewName(n, Head(task.todo), "quarantine")
           /\ MoveAside(n)
           /\ task' = [task EXCEPT !.pc = "record", !.moved = <<n>>, !.todo = Tail(@)]
    /\ UNCHANGED <<rows, retired, staging, fromOutside, mishaps>>

OrphanRecorded ==
    /\ Pc("record")
    /\ retired' = retired \cup {Head(task.moved)}
    /\ Step("discard")
    /\ UNCHANGED <<rows, placed, side, staging, fromOutside, mishaps>>

RecordFails ==
    /\ Pc("record")
    /\ Raised
    /\ MoveBack(Head(task.moved))
    /\ EndTask
    /\ UNCHANGED <<rows, retired, staging, fromOutside>>

OrphanDiscarded ==
    /\ Pc("discard")
    /\ RemoveSide(Head(task.moved))
    /\ Step("account")
    /\ UNCHANGED <<rows, placed, retired, staging, fromOutside, mishaps>>

OrphanReleased ==
    /\ Pc("account")
    /\ retired' = retired \ {Head(task.moved)}
    /\ task' = [task EXCEPT !.pc = "orphan", !.moved = <<>>]
    /\ UNCHANGED <<rows, placed, side, staging, fromOutside, mishaps>>

OrphansEnd ==
    /\ Pc("orphan")
    /\ task.todo = <<>>
    /\ IF task.kind = "recover"
       THEN task' = [task EXCEPT !.pc = "quarantine", !.matched = {a \in rows : ~Whole(a)},
                                 !.todo = InOrder({a \in rows : ~Whole(a)})]
       ELSE EndTask
    /\ UNCHANGED <<rows, placed, side, retired, staging, fromOutside, mishaps>>

-----------------------------------------------------------------------------
(* recover, when a repository is opened or a lookup finds a damaged tree *)

BeginRecovery ==
    /\ LockFree
    /\ task' = [NoTask EXCEPT !.kind = "recover", !.pc = "cleanup"]
    /\ UNCHANGED <<rows, placed, side, retired, staging, fromOutside, mishaps>>

\* _cleanup_retired
CleanupOne ==
    /\ Pc("cleanup")
    /\ \E n \in retired :
           /\ RemoveSide(n)
           /\ task' = [task EXCEPT !.pc = "cleaned", !.moved = <<n>>]
    /\ UNCHANGED <<rows, placed, retired, staging, fromOutside, mishaps>>

CleanupReleased ==
    /\ Pc("cleaned")
    /\ retired' = retired \ {Head(task.moved)}
    /\ task' = [task EXCEPT !.pc = "cleanup", !.moved = <<>>]
    /\ UNCHANGED <<rows, placed, side, staging, fromOutside, mishaps>>

\* recovery_snapshot: malformed rows go, with the generations that contain a
\* malformed state; the staging leases are read.
RecoverySnapshot ==
    /\ Pc("cleanup")
    /\ retired = {}
    /\ rows' = rows \ (malformed \cup Containing(malformed \cap StoredStates))
    /\ malformed' = {}
    /\ task' = [task EXCEPT !.pc = "staging", !.matched = stageLeases]
    /\ UNCHANGED <<placed, side, retired, staging, hurt, mishaps>>

\* Mutation of RemoveAbandonedStaging: leases are not looked at.
RemoveAllStaging ==
    /\ Pc("staging")
    /\ stageDirs' = {}
    /\ task' = [task EXCEPT !.pc = "backups", !.matched = {}, !.todo = SetToSeq(rows)]
    /\ UNCHANGED <<rows, placed, side, retired, stageLeases, preparers, fromOutside, mishaps>>

\* A directory that cannot be deleted stays (remove_tree).
RemoveAbandonedStaging ==
    /\ Pc("staging")
    /\ \E left \in SUBSET (stageDirs \ task.matched) :
           /\ stageDirs' = (stageDirs \cap task.matched) \cup left
           /\ IF left = {} THEN UNCHANGED mishaps ELSE Raised
    /\ task' = [task EXCEPT !.pc = "backups", !.matched = {}, !.todo = SetToSeq(rows)]
    /\ UNCHANGED <<rows, placed, side, retired, stageLeases, preparers, fromOutside>>

\* _recover_one: the trees set aside beside an indexed artifact.  A whole one
\* replaces a target that is not; remove_tree is called once on each other one.
Replacement(a) == {n \in Aside(a) : side[n] = "good"}
Decided(a) == \E n \in task.tried : n.of = a
Dropping(a) == Decided(a) \/ Whole(a) \/ Replacement(a) = {}

\* A target that cannot be deleted makes the move raise (TaskRaises).
RecoverTarget ==
    /\ Pc("backups") /\ task.todo # <<>>
    /\ LET a == Head(task.todo) IN
       /\ placed[a] = "bad" /\ ~Dropping(a)
       /\ placed' = [placed EXCEPT ![a] = "none"]
    /\ UNCHANGED <<rows, side, retired, staging, task, fromOutside, mishaps>>

RecoverReplace ==
    /\ Pc("backups") /\ task.todo # <<>>
    /\ placed[Head(task.todo)] = "none" /\ ~Dropping(Head(task.todo))
    /\ \E n \in Replacement(Head(task.todo)) :
           MoveBack(n) /\ task' = [task EXCEPT !.tried = @ \cup {n}]
    /\ UNCHANGED <<rows, retired, staging, fromOutside, mishaps>>

RecoverDrop ==
    /\ Pc("backups") /\ task.todo # <<>>
    /\ Dropping(Head(task.todo))
    /\ \E n \in Aside(Head(task.todo)) \ task.tried :
           TryRemoving(n) /\ task' = [task EXCEPT !.tried = @ \cup {n}]
    /\ UNCHANGED <<rows, placed, retired, staging, fromOutside>>

RecoverNext ==
    /\ Pc("backups") /\ task.todo # <<>>
    /\ Aside(Head(task.todo)) \subseteq task.tried
    /\ task' = [task EXCEPT !.todo = Tail(@)]
    /\ UNCHANGED <<rows, placed, side, retired, staging, fromOutside, mishaps>>

BackupsEnd ==
    /\ Pc("backups") /\ task.todo = <<>>
    /\ task' = [task EXCEPT !.pc = "orphan", !.todo = SetToSeq(Unindexed)]
    /\ UNCHANGED <<rows, placed, side, retired, staging, fromOutside, mishaps>>

\* recover_artifacts: the invalid rows go, and with an invalid state the
\* generations that contain it, whose trees stay where they are.
CommitRecovery ==
    /\ Pc("quarantine") /\ task.kind = "recover"
    /\ task.todo = <<>>
    /\ LET gone == task.matched \cup Containing(task.matched \cap StoredStates) IN
       /\ rows' = rows \ gone
       /\ malformed' = malformed \ gone
       /\ retired' = retired \cup Range(task.moved)
       /\ task' = [task EXCEPT !.pc = "settle", !.matched = gone]
    /\ UNCHANGED <<placed, side, staging, hurt, mishaps>>

-----------------------------------------------------------------------------
(* Crashes, errors and damage *)

\* The trees that the task may be deleting.
Deleting ==
    CASE Pc("settle") /\ task.moved # <<>> /\ Head(task.moved).of \in task.matched
                                    -> {Head(task.moved)}
      [] task.pc \in {"discard", "backup"} -> {Head(task.moved)}
      [] Pc("cleanup")              -> retired
      [] Pc("backups") /\ task.todo # <<>> /\ Dropping(Head(task.todo))
                                    -> Aside(Head(task.todo)) \ task.tried
      [] OTHER                      -> {}

Interrupted ==
    \/ UNCHANGED side
    \/ \E n \in Deleting : \E left \in Partly(side[n]) : side' = [side EXCEPT ![n] = left]

\* The process dies: the lock is released, the catalog rolls back.
TaskCrashes ==
    /\ ~LockFree
    /\ Raised
    /\ Interrupted
    /\ preparers' = preparers \ task.art
    /\ EndTask
    /\ UNCHANGED <<rows, placed, retired, stageDirs, stageLeases, fromOutside>>

\* A call raises where the code has nothing to undo.
TaskRaises ==
    /\ task.pc \in {"settle", "release", "install", "discard", "account", "cleanup", "cleaned",
                    "staging", "backups", "restore"}
    /\ Raised
    /\ Interrupted
    /\ EndTask
    /\ UNCHANGED <<rows, placed, retired, staging, fromOutside>>

\* A preparation outside of the lock dies.
PreparerCrashes(a) ==
    /\ a \in preparers \ task.art
    /\ Raised
    /\ preparers' = preparers \ {a}
    /\ UNCHANGED <<rows, placed, side, retired, stageDirs, stageLeases, task, fromOutside>>

\* Something outside of the repository damages a tree or a row.
DamageTree(a) ==
    /\ Whole(a)
    /\ Raised
    /\ placed' = [placed EXCEPT ![a] = "bad"]
    /\ hurt' = hurt \cup {a}
    /\ UNCHANGED <<rows, malformed, side, retired, staging, task>>

DamageRow(a) ==
    /\ LockFree
    /\ a \in rows
    /\ Raised
    /\ malformed' = malformed \cup {a}
    /\ UNCHANGED <<rows, placed, side, retired, staging, task, hurt>>

-----------------------------------------------------------------------------
(* Specification *)

Staging ==
    \/ ReserveStaging \/ ReserveStagingFails
    \/ \E a \in Stored : BeginStaging(a) \/ DiscardStaging(a) \/ ExpireStaging(a)

Pruning ==
    \/ BeginPruning \/ QuarantineOne \/ CommitPruning \/ MovingFails \/ RestoreLast \/ RestoreEnds
    \/ SettleOne \/ ReleaseRetired \/ SettleEnds

Installing ==
    \/ \E a \in Stored : BeginCommitting(a)
    \/ InstallTree \/ SwapTree \/ DropBackup \/ InstallFails \/ PublishRow \/ PublishRefused

Retiring ==
    \/ OrphanMoved \/ OrphanRecorded \/ RecordFails \/ OrphanDiscarded \/ OrphanReleased \/ OrphansEnd

Recovering ==
    \/ BeginRecovery \/ CleanupOne \/ CleanupReleased \/ RecoverySnapshot \/ RemoveAbandonedStaging
    \/ RecoverTarget \/ RecoverReplace \/ RecoverDrop \/ RecoverNext \/ BackupsEnd \/ CommitRecovery

Mishap ==
    \/ TaskCrashes \/ TaskRaises
    \/ \E a \in Stored : PreparerCrashes(a) \/ DamageTree(a) \/ DamageRow(a)

StoreNext == Staging \/ Pruning \/ Installing \/ Retiring \/ Recovering \/ Mishap

StoreSpec == StoreInit /\ [][StoreNext]_storeVars

-----------------------------------------------------------------------------
(* Properties *)

\* Whatever was interrupted (validation.md:133, "failure before and after
\* filesystem installation"), an indexed artifact that nothing outside has
\* damaged still has a whole tree, in its place or beside it, and what is
\* accounted as retired is not that tree.
IndexedNeverLost ==
    \A a \in rows \ hurt : Whole(a) \/ \E n \in Replacement(a) : n \notin retired

\* Where recover ends, every row has its whole tree in its place, nothing that is
\* accounted as retired is left, and nothing beside an indexed artifact but what
\* _recover_one tried to delete and could not.
RecoveryEnds == task.kind = "recover" /\ Pc("settle") /\ task.moved = <<>>
RecoveryIsComplete ==
    RecoveryEnds =>
        /\ \A a \in rows : Whole(a) \/ a \in hurt
        /\ \A a \in rows : Aside(a) \subseteq task.tried
        /\ retired = {}

\* The rows never say that a generation contains a state that is not there.
GenerationsAreClosed ==
    \A g \in rows \cap StoredGenerations : MembersOf[g] \subseteq rows

\* The staging directory of a live preparation stays until it is installed, as
\* long as its lease does (repository.md:113: recovery removes abandoned staging).
StagingInUseStays == preparers \cap stageLeases \subseteq stageDirs

\* Bytes on disk are accounted: a tree that is neither in the place of a row nor
\* listed as retired is in the hands of a task, or an interrupted one left it.
BytesAreAccounted ==
    mishaps = 0 =>
        \A n \in SideNames : side[n] # "none" => n \in retired \/ n \in Range(task.moved)

\* The rows, the trees and the account of retired bytes agree after whatever was
\* interrupted: nothing indexed is lost, nothing in use is removed, nothing that
\* takes room is forgotten, and recovery puts the rest right.
StoreSurvivesCrashes ==
    /\ IndexedNeverLost
    /\ RecoveryIsComplete
    /\ GenerationsAreClosed
    /\ StagingInUseStays
    /\ BytesAreAccounted
=============================================================================
