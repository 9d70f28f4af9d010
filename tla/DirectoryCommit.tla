--------------------------- MODULE DirectoryCommit ---------------------------
(***************************************************************************)
(* Installing a staged directory at a destination that others may change.  *)
(*                                                                         *)
(* A writer looks at the destination, stages a tree beside it, and commits *)
(* it: with one exchange of the two directories where the platform has it, *)
(* with two renames and a recovery sibling where it has not.  What it      *)
(* replaced is compared with what it had looked at only after the move,    *)
(* and put back if it is something else.  Several writers, and owners who  *)
(* know nothing of all this, work on one destination.                      *)
(*                                                                         *)
(* A step is one call of the file system.  A tree is known by its name and *)
(* revision, which is what directory_identity records of it.               *)
(***************************************************************************)
EXTENDS Naturals, FiniteSets

CONSTANTS
    Writers,       \* writers that stage a tree for the destination
    OwnTree,       \* of each writer: the tree it stages
    FirstTree,     \* the tree at the destination in the beginning, if any
    OtherTrees,    \* trees another owner may put there
    MaxOutside,    \* bound: steps of other owners
    MaxFailures    \* bound: calls of the file system that fail

NoTree == "absent"
EmptyTree == "empty"   \* what mkdir makes at the destination
Trees3 == {FirstTree} \cup OtherTrees \cup {OwnTree[w] : w \in Writers}
RevisedTrees == [tree : Trees3 \cup {EmptyTree}, revision : 0..MaxOutside]
Absent == [tree |-> NoTree, revision |-> 0]
Fresh(t) == [tree |-> t, revision |-> 0]
Sides == {"staging", "recovery", "interrupted"}

ASSUME CommitAssumption == MaxOutside \in Nat /\ MaxFailures \in Nat

VARIABLES
    platform,    \* "exchange", "rollback" (no native exchange) or "windows"
    destination, \* the tree at the destination
    beside,      \* of each writer: the trees at its sibling paths
    writerPc,    \* of each writer: its place in commit_directory
    target,      \* of each writer: the identity seen by preflight_directory
    nested,      \* of each writer: the exports below its staging directory
    retiree,     \* of each writer: the sibling that holds what it replaced
    removed,     \* history: trees deleted, and by whom
    replacedBy,  \* history: of each writer that succeeded, what it replaced
    outside,     \* history: steps of other owners
    failures     \* history: calls that failed

commitVars == <<platform, destination, beside, writerPc, target, nested, retiree, removed,
                replacedBy, outside, failures>>

WriterPcs == {"idle", "staged", "guard", "notify", "again", "commit", "mkdir", "rmdir",
              "install", "sentinel", "swapped", "swapback", "swappedback", "moved", "restore",
              "putback", "cleanup", "abandon", "done", "failed"}

CommitTypeOK ==
    /\ platform \in {"exchange", "rollback", "windows"}
    /\ destination \in RevisedTrees \cup {Absent}
    /\ beside \in [Writers -> [Sides -> RevisedTrees \cup {Absent}]]
    /\ writerPc \in [Writers -> WriterPcs]
    /\ target \in [Writers -> RevisedTrees \cup {Absent}]
    /\ nested \in [Writers -> {"none", "intact", "edited"}]
    /\ retiree \in [Writers -> Sides \cup {"none"}]
    /\ replacedBy \in [Writers -> RevisedTrees \cup {Absent}]
    /\ \A r \in removed : r.what \in RevisedTrees /\ r.by \in Writers
    /\ outside \in 0..MaxOutside
    /\ failures \in 0..MaxFailures

CommitInit ==
    /\ platform \in {"exchange", "rollback", "windows"}
    /\ destination \in {Absent, Fresh(FirstTree)}
    /\ beside = [w \in Writers |-> [s \in Sides |-> Absent]]
    /\ writerPc = [w \in Writers |-> "idle"]
    /\ target = [w \in Writers |-> Absent]
    /\ nested = [w \in Writers |-> "none"]
    /\ retiree = [w \in Writers |-> "none"]
    /\ removed = {}
    /\ replacedBy = [w \in Writers |-> Absent]
    /\ outside = 0
    /\ failures = 0

-----------------------------------------------------------------------------
Writing(w, pc) == writerPc[w] = pc
Turn(w, pc) == writerPc' = [writerPc EXCEPT ![w] = pc]
Sibling(w, s, tree) == beside' = [beside EXCEPT ![w][s] = tree]
Fail == failures < MaxFailures /\ failures' = failures + 1
Removing(w, trees) == removed' = removed \cup {[what |-> t, by |-> w] : t \in trees \ {Absent}}
fixed == <<platform, target, nested, outside>>
trees == <<destination, beside, retiree, removed, replacedBy>>

\* stage: preflight_directory and new_staging_directory.
StageTree(w) ==
    /\ Writing(w, "idle")
    /\ target' = [target EXCEPT ![w] = destination]
    /\ Sibling(w, "staging", Fresh(OwnTree[w]))
    /\ Turn(w, "staged")
    /\ UNCHANGED <<platform, destination, nested, retiree, removed, replacedBy, outside, failures>>

\* StagedDelivery.materialize, or _materialize_export: the export is written,
\* verified and its identity remembered.
MaterializeExport(w) ==
    /\ Writing(w, "staged")
    /\ nested[w] = "none"
    /\ nested' = [nested EXCEPT ![w] = "intact"]
    /\ UNCHANGED <<platform, trees, writerPc, target, outside, failures>>

\* The application writes into the staging directory, before commit or from the
\* progress callback of commit.
EditStaging(w) ==
    /\ writerPc[w] \in {"staged", "notify"}
    /\ nested[w] = "intact"
    /\ nested' = [nested EXCEPT ![w] = "edited"]
    /\ UNCHANGED <<platform, trees, writerPc, target, outside, failures>>

\* Mutation of VerifyStaged: only the first verification is made.
VerifyOnce(w) ==
    /\ writerPc[w] \in {"staged", "again"}
    /\ Turn(w, IF Writing(w, "again") THEN "commit" ELSE IF nested[w] = "edited" THEN "staged" ELSE "guard")
    /\ UNCHANGED <<fixed, trees, failures>>

\* commit: the nested exports are verified, and once more after a callback; a
\* delivery that fails stays open.
VerifyStaged(w) ==
    /\ writerPc[w] \in {"staged", "again"}
    /\ Turn(w, IF nested[w] = "edited" THEN "staged"
               ELSE IF Writing(w, "staged") THEN "guard" ELSE "commit")
    /\ UNCHANGED <<fixed, trees, failures>>

\* The guard rejects, or lets the commit go on, with a progress callback or none.
CommitGuard(w) ==
    /\ Writing(w, "guard")
    /\ \E pc \in {"staged", "notify", "commit"} : Turn(w, pc)
    /\ UNCHANGED <<fixed, trees, failures>>

ProgressReturns(w) ==
    /\ Writing(w, "notify")
    /\ Turn(w, "again")
    /\ UNCHANGED <<fixed, trees, failures>>

\* close, or the end of the process that would have committed
CloseStaged(w) ==
    /\ Writing(w, "staged")
    /\ Turn(w, "abandon")
    /\ UNCHANGED <<fixed, trees, failures>>

\* commit_directory; without native exchange the destination moves to a new
\* recovery sibling.
BeginCommit(w) ==
    /\ Writing(w, "commit")
    /\ CASE target[w] = Absent ->
              Turn(w, "mkdir") /\ UNCHANGED <<destination, beside>>
         [] target[w] # Absent /\ destination = Absent ->
              Turn(w, "abandon") /\ UNCHANGED <<destination, beside>>
         [] target[w] # Absent /\ destination # Absent /\ platform = "exchange" ->
              /\ destination' = beside[w]["staging"]
              /\ Sibling(w, "staging", destination)
              /\ Turn(w, "swapped")
         [] OTHER ->
              /\ destination' = Absent
              /\ Sibling(w, "recovery", destination)
              /\ Turn(w, "moved")
    /\ UNCHANGED <<fixed, retiree, removed, replacedBy, failures>>

-----------------------------------------------------------------------------
(* _commit_absent *)

\* Where a failure of _commit_absent leads: to the rollback, or to the end.
CommitAbsentFails(w) == Turn(w, IF target[w] = Absent THEN "abandon" ELSE "restore")

MakeSentinel(w) ==
    /\ Writing(w, "mkdir")
    /\ IF destination = Absent
       THEN /\ destination' = Fresh(EmptyTree)
            /\ Turn(w, IF platform = "windows" THEN "rmdir" ELSE "install")
       ELSE CommitAbsentFails(w) /\ UNCHANGED destination
    /\ UNCHANGED <<fixed, beside, retiree, removed, replacedBy, failures>>

\* Windows cannot rename over a directory.
RemoveSentinel(w) ==
    /\ Writing(w, "rmdir")
    /\ IF destination = Fresh(EmptyTree)
       THEN destination' = Absent /\ Turn(w, "install")
       ELSE CommitAbsentFails(w) /\ UNCHANGED destination
    /\ UNCHANGED <<fixed, beside, retiree, removed, replacedBy, failures>>

\* Mutation of Renameable: rename replaces what is there.
AlwaysRenameable == TRUE

\* rename takes the place of nothing, or on POSIX of an empty directory.
Renameable == destination = Absent \/ (platform # "windows" /\ destination = Fresh(EmptyTree))

InstallStaged(w) ==
    /\ Writing(w, "install")
    /\ IF Renameable
       THEN /\ destination' = beside[w]["staging"]
            /\ Sibling(w, "staging", Absent)
            /\ retiree' = [retiree EXCEPT ![w] = IF target[w] = Absent THEN "none" ELSE "recovery"]
            /\ replacedBy' = [replacedBy EXCEPT ![w] = target[w]]
            /\ Turn(w, "cleanup")
            /\ Removing(w, {destination} \ {Fresh(EmptyTree)})
       ELSE /\ Turn(w, "sentinel")
            /\ UNCHANGED <<destination, beside, retiree, removed, replacedBy>>
    /\ UNCHANGED <<fixed, failures>>

InstallFailed(w) ==
    /\ Writing(w, "install")
    /\ Fail
    /\ Turn(w, "sentinel")
    /\ UNCHANGED <<fixed, destination, beside, retiree, removed, replacedBy>>

\* The empty directory that was made is removed again.
DropSentinel(w) ==
    /\ Writing(w, "sentinel")
    /\ destination' = IF platform # "windows" /\ destination = Fresh(EmptyTree) THEN Absent
                      ELSE destination
    /\ CommitAbsentFails(w)
    /\ UNCHANGED <<fixed, beside, retiree, removed, replacedBy, failures>>

-----------------------------------------------------------------------------
(* _commit_with_exchange after its exchange *)

\* Mutation of AsExpected: what was replaced is not looked at.
Unchecked(w, side) == TRUE

AsExpected(w, side) == beside[w][side] = target[w]

CompareSwapped(w) ==
    /\ Writing(w, "swapped")
    /\ IF AsExpected(w, "staging")
       THEN /\ retiree' = [retiree EXCEPT ![w] = "staging"]
            /\ replacedBy' = [replacedBy EXCEPT ![w] = beside[w]["staging"]]
            /\ Turn(w, "cleanup")
       ELSE Turn(w, "swapback") /\ UNCHANGED <<retiree, replacedBy>>
    /\ UNCHANGED <<fixed, destination, beside, removed, failures>>

\* An error or a cancellation while the identity is read.
CompareFails(w) ==
    /\ Writing(w, "swapped")
    /\ Fail
    /\ Turn(w, "swapback")
    /\ UNCHANGED <<fixed, destination, beside, retiree, removed, replacedBy>>

SwapBack(w) ==
    /\ Writing(w, "swapback")
    /\ destination # Absent
    /\ destination' = beside[w]["staging"]
    /\ Sibling(w, "staging", destination)
    /\ Turn(w, "swappedback")
    /\ UNCHANGED <<fixed, retiree, removed, replacedBy, failures>>

\* The exchange raises: what was replaced is kept at a recovery sibling.
SwapBackFails(w) ==
    /\ Writing(w, "swapback")
    /\ IF destination = Absent THEN UNCHANGED failures ELSE Fail
    /\ beside' = [beside EXCEPT ![w]["recovery"] = beside[w]["staging"], ![w]["staging"] = Absent]
    /\ Turn(w, "abandon")
    /\ UNCHANGED <<fixed, destination, retiree, removed, replacedBy>>

\* Mutation of CheckDisplaced: whatever came back is taken for the own tree.
AssumeOwnTree(w) ==
    /\ Writing(w, "swappedback")
    /\ Turn(w, "abandon")
    /\ UNCHANGED <<fixed, destination, beside, retiree, removed, replacedBy, failures>>

\* What came back may be somebody else's: it is kept at an interrupted sibling.
CheckDisplaced(w) ==
    /\ Writing(w, "swappedback")
    /\ beside' = IF beside[w]["staging"] = Fresh(OwnTree[w]) THEN beside
                 ELSE [beside EXCEPT ![w]["interrupted"] = beside[w]["staging"],
                                     ![w]["staging"] = Absent]
    /\ Turn(w, "abandon")
    /\ UNCHANGED <<fixed, destination, retiree, removed, replacedBy, failures>>

-----------------------------------------------------------------------------
(* _commit_with_rollback after its first rename, and _restore_previous *)

CompareMoved(w) ==
    /\ Writing(w, "moved")
    /\ Turn(w, IF AsExpected(w, "recovery") THEN "mkdir" ELSE "restore")
    /\ UNCHANGED <<fixed, destination, beside, retiree, removed, replacedBy, failures>>

\* What stands at the destination by now is moved to an interrupted sibling.
RestoreBegins(w) ==
    /\ Writing(w, "restore")
    /\ IF destination = Absent
       THEN UNCHANGED <<destination, beside>>
       ELSE destination' = Absent /\ Sibling(w, "interrupted", destination)
    /\ Turn(w, "putback")
    /\ UNCHANGED <<fixed, retiree, removed, replacedBy, failures>>

\* The previous tree returns; an interrupted one is reported and stays.
PutBack(w) ==
    /\ Writing(w, "putback")
    /\ Renameable
    /\ destination' = beside[w]["recovery"]
    /\ Sibling(w, "recovery", Absent)
    /\ Turn(w, "abandon")
    /\ UNCHANGED <<fixed, retiree, removed, replacedBy, failures>>

\* It cannot: the interrupted one returns if it can, the previous one stays
\* at its recovery sibling.
PutBackFails(w) ==
    /\ Writing(w, "putback")
    /\ IF Renameable THEN Fail ELSE UNCHANGED failures
    /\ IF beside[w]["interrupted"] # Absent /\ Renameable
       THEN destination' = beside[w]["interrupted"] /\ Sibling(w, "interrupted", Absent)
       ELSE UNCHANGED <<destination, beside>>
    /\ Turn(w, "abandon")
    /\ UNCHANGED <<fixed, retiree, removed, replacedBy>>

-----------------------------------------------------------------------------
(* The end of write_export and StagedDelivery.commit *)

\* The replaced tree is deleted; if that fails it stays, with a warning.
CleanupReplaced(w) ==
    /\ Writing(w, "cleanup")
    /\ IF retiree[w] = "none" THEN UNCHANGED <<beside, removed, failures>>
       ELSE \/ /\ Sibling(w, retiree[w], Absent)
               /\ Removing(w, {beside[w][retiree[w]]})
               /\ UNCHANGED failures
            \/ Fail /\ UNCHANGED <<beside, removed>>
    /\ Turn(w, "done")
    /\ UNCHANGED <<fixed, destination, retiree, replacedBy>>

\* rmtree of the staging path.
DiscardStaged(w) ==
    /\ Writing(w, "abandon")
    /\ Sibling(w, "staging", Absent)
    /\ Removing(w, {beside[w]["staging"]})
    /\ Turn(w, "failed")
    /\ UNCHANGED <<fixed, destination, retiree, replacedBy, failures>>

\* Another owner edits, removes, or creates the destination.
OtherOwner ==
    /\ outside < MaxOutside
    /\ outside' = outside + 1
    /\ \/ /\ destination # Absent
          /\ destination' \in {Absent, [destination EXCEPT !.revision = outside + 1]}
       \/ /\ destination = Absent
          /\ destination' \in {Fresh(t) : t \in OtherTrees}
    /\ UNCHANGED <<platform, beside, writerPc, target, nested, retiree, removed, replacedBy, failures>>

CommitNext ==
    \/ OtherOwner
    \/ \E w \in Writers :
           \/ StageTree(w) \/ MaterializeExport(w) \/ EditStaging(w) \/ VerifyStaged(w)
           \/ CommitGuard(w) \/ ProgressReturns(w) \/ CloseStaged(w) \/ BeginCommit(w)
           \/ MakeSentinel(w) \/ RemoveSentinel(w) \/ InstallStaged(w) \/ InstallFailed(w) \/ DropSentinel(w)
           \/ CompareSwapped(w) \/ CompareFails(w) \/ SwapBack(w) \/ SwapBackFails(w) \/ CheckDisplaced(w)
           \/ CompareMoved(w) \/ RestoreBegins(w) \/ PutBack(w) \/ PutBackFails(w)
           \/ CleanupReplaced(w) \/ DiscardStaged(w)

CommitSpec == CommitInit /\ [][CommitNext]_commitVars

-----------------------------------------------------------------------------
(* Properties *)

\* Whoever else is at work and whatever fails, a writer deletes its own tree or
\* exactly the one it had looked at (application-publication-and-delivery.md:
\* "prevents a staged operation from overwriting a concurrent owner's
\* replacement").
OthersTreesSurvive ==
    \A r \in removed : r.what = Fresh(OwnTree[r.by]) \/ r.what = target[r.by]

\* A writer that succeeds has replaced exactly what it had looked at.
OnlyExpectedReplaced ==
    \A w \in Writers : writerPc[w] \in {"cleanup", "done"} => replacedBy[w] = target[w]

\* Nobody outside touches the destination and no other writer has begun to install.
BeforeCommit == {"idle", "staged", "guard", "notify", "again", "commit"}
AloneAtWork(w) == outside = 0 /\ \A v \in Writers \ {w} : writerPc[v] \in BeforeCommit

\* Alone at a destination that nobody else changes, a writer that fails leaves
\* there what it found, or keeps it at its recovery sibling.
FailureIsUndone ==
    \A w \in Writers : Writing(w, "failed") /\ AloneAtWork(w) =>
        destination = target[w] \/ beside[w]["recovery"] = target[w]

\* No export is installed that changed since it was verified
\* (application-publication-and-delivery.md:247).
OnlyVerifiedInstalled ==
    \A w \in Writers : writerPc[w] \in {"cleanup", "done"} => nested[w] # "edited"

\* The deliveries to one destination, as a whole.
DeliveriesAreAtomic ==
    OthersTreesSurvive /\ OnlyExpectedReplaced /\ FailureIsUndone /\ OnlyVerifiedInstalled
=============================================================================
