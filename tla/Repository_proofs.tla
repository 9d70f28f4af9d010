--------------------------- MODULE Repository_proofs ---------------------------
(***************************************************************************)
(* Proofs about what the processes of a repository share.  First what they *)
(* share by name and replace by a rename: the lock file of a repository    *)
(* (MaintenanceFile), its catalog (CatalogReset) and the directory of a    *)
(* delivery (DirectoryCommit).  Others hold the old one open or write      *)
(* beside it meanwhile, and what has to be shown in each is which file, or *)
(* which tree, everyone is at.  Then what a prune keeps and what it charges *)
(* for that (Retention), for any number of artifacts and all limits.       *)
(***************************************************************************)
EXTENDS MaintenanceFile, CatalogReset, DirectoryCommit, Retention, Sums_proofs

-----------------------------------------------------------------------------
(* The lock file: an inductive invariant *)

\* A process that looks at a file has an attempt left.
AttemptsLast ==
    \A p \in LockProcs :
        lockPc[p] \in {"open", "compare", "candidates", "current", "replace"}
            => attempt[p] < SchemaAttempts

\* What is going to be moved could not be read, and is still what was seen before
\* it was opened.
MovedIsUnreadable ==
    \A p \in LockProcs :
        /\ lockPc[p] \in {"compare", "candidates", "current", "replace"} =>
               /\ opened[p] # NoNode /\ opened[p] \notin readable
               /\ before[p] # NoNode /\ atPath = before[p] => opened[p] = before[p]
        /\ lockPc[p] \in {"candidates", "current", "replace"} =>
               before[p] # NoNode /\ before[p] \notin readable
        /\ lockPc[p] = "replace" => compared[p] = before[p]

\* A process that locks, or has the lock, does so on the file everyone finds.
LockedIsFound ==
    \A p \in LockProcs :
        /\ lockPc[p] \in {"begin", "held"} =>
               /\ opened[p] # NoNode
               /\ swapped \/ (opened[p] = atPath /\ opened[p] \in readable)
        /\ lockPc[p] = "held" => writer[opened[p]] = p

LockInv == LockTypeOK /\ AttemptsLast /\ MovedIsUnreadable /\ LockedIsFound

LEMMA LockInvInit == LockInit => LockInv
<1> SUFFICES ASSUME LockInit PROVE LockInv
  OBVIOUS
<1>1. atPath \in Nodes \cup {NoNode} /\ readable \subseteq Nodes
  BY DEF LockInit
<1>2. writer \in [Nodes -> LockProcs \cup {NoWriter}]
  BY DEF LockInit
<1>3. lockPc \in [LockProcs -> {"idle", "connect", "open", "compare", "candidates", "current",
                                 "replace", "begin", "held"}]
  BY DEF LockInit
<1>4. before \in [LockProcs -> Nodes \cup {NoNode}] /\ opened \in [LockProcs -> Nodes \cup {NoNode}]
  BY DEF LockInit
<1>5. attempt \in [LockProcs -> 0..SchemaAttempts]
  BY DEF LockInit, SchemaAttempts
<1>6. corruptions \in 0..MaxCorruptions
  BY LockAssumption DEF LockInit, LockAssumption
<1>7. compared \in [LockProcs -> Nodes \cup {NoNode}] /\ swapped \in BOOLEAN
  BY DEF LockInit
<1>8. LockTypeOK
  BY <1>1, <1>2, <1>3, <1>4, <1>5, <1>6, <1>7 DEF LockTypeOK
<1>9. AttemptsLast /\ MovedIsUnreadable /\ LockedIsFound
  BY DEF LockInit, AttemptsLast, MovedIsUnreadable, LockedIsFound
<1> QED
  BY <1>8, <1>9 DEF LockInv

\* What a step of p does to the places of all processes.
LEMMA LockPcs ==
    ASSUME LockTypeOK, NEW p \in LockProcs, NEW pc, Goto(p, pc),
           pc \in {"idle", "connect", "open", "compare", "candidates", "current", "replace",
                   "begin", "held"}
    PROVE  /\ lockPc' \in [LockProcs -> {"idle", "connect", "open", "compare", "candidates",
                                         "current", "replace", "begin", "held"}]
           /\ lockPc'[p] = pc
           /\ \A q \in LockProcs \ {p} : lockPc'[q] = lockPc[q]
BY DEF LockTypeOK, Goto

LEMMA StartLockingStep ==
    ASSUME LockInv, NEW p \in LockProcs, StartLocking(p)
    PROVE  LockInv'
<1>1. Goto(p, "connect")
  BY DEF StartLocking
<1>2. /\ attempt' \in [LockProcs -> 0..SchemaAttempts]
      /\ \A q \in LockProcs \ {p} : attempt'[q] = attempt[q]
  BY DEF LockInv, LockTypeOK, StartLocking, SchemaAttempts
<1>3. LockTypeOK'
  BY <1>1, <1>2, LockPcs DEF LockInv, LockTypeOK, StartLocking, lockHistory
<1>4. AttemptsLast' /\ MovedIsUnreadable' /\ LockedIsFound'
  BY <1>1, <1>2, LockPcs
     DEF LockInv, AttemptsLast, MovedIsUnreadable, LockedIsFound, StartLocking, lockHistory
<1> QED
  BY <1>3, <1>4 DEF LockInv

LEMMA StatBeforeStep ==
    ASSUME LockInv, NEW p \in LockProcs, StatBefore(p)
    PROVE  LockInv'
<1>1. PICK pc \in {"open", "idle"} :
          Goto(p, pc) /\ (pc = "open" => attempt[p] < SchemaAttempts)
  BY DEF StatBefore
<1>2. /\ before' \in [LockProcs -> Nodes \cup {NoNode}]
      /\ \A q \in LockProcs \ {p} : before'[q] = before[q]
  BY DEF LockInv, LockTypeOK, StatBefore
<1>3. LockTypeOK'
  BY <1>1, <1>2, LockPcs DEF LockInv, LockTypeOK, StatBefore, lockHistory
<1>4. AttemptsLast' /\ MovedIsUnreadable' /\ LockedIsFound'
  BY <1>1, <1>2, LockPcs
     DEF LockInv, AttemptsLast, MovedIsUnreadable, LockedIsFound, StatBefore, lockHistory
<1> QED
  BY <1>3, <1>4 DEF LockInv

LEMMA OpenLockFileStep ==
    ASSUME LockInv, NEW p \in LockProcs, OpenLockFile(p)
    PROVE  LockInv'
<1> USE DEF LockInv, Nodes, NoNode
<1>1. PICK pc \in {"compare", "begin", "idle"} :
          /\ Goto(p, pc)
          /\ pc = "compare" => atPath' = atPath /\ atPath # NoNode /\ atPath \notin readable
          /\ pc = "begin" => atPath' \in readable'
  <2>1. CASE atPath = NoNode
    BY <2>1 DEF OpenLockFile
  <2>2. CASE atPath # NoNode
    <3>1. atPath' = atPath /\ readable' = readable
      BY <2>2 DEF OpenLockFile
    <3>2. \/ atPath \notin readable /\ Goto(p, "compare")
          \/ atPath \in readable /\ Goto(p, "begin")
          \/ Goto(p, "idle")
      BY <2>2 DEF OpenLockFile
    <3> QED
      BY <2>2, <3>1, <3>2
  <2> QED
    BY <2>1, <2>2
<1>2. /\ atPath' \in Nodes /\ atPath' # NoNode
      /\ readable' \subseteq Nodes
      /\ opened' = [opened EXCEPT ![p] = atPath']
  BY DEF LockTypeOK, OpenLockFile, Unused
<1>3. UNCHANGED <<writer, before, attempt, corruptions, compared, swapped>>
  BY DEF OpenLockFile, lockHistory
<1>4. \/ atPath' = atPath /\ readable' = readable
      \/ /\ atPath = NoNode
         /\ readable' = readable \cup {atPath'}
         /\ \A q \in LockProcs : atPath' \notin {before[q], opened[q]}
  BY DEF OpenLockFile, Unused
<1>5. /\ opened' \in [LockProcs -> Nodes \cup {NoNode}]
      /\ opened'[p] = atPath'
      /\ \A q \in LockProcs \ {p} : opened'[q] = opened[q]
  BY <1>2 DEF LockTypeOK
<1>6. LockTypeOK'
  <2>1. lockPc' \in [LockProcs -> {"idle", "connect", "open", "compare", "candidates", "current",
                                   "replace", "begin", "held"}]
    BY <1>1, LockPcs
  <2> QED
    BY <2>1, <1>2, <1>3, <1>5 DEF LockTypeOK
<1>7. /\ lockPc'[p] \in {"compare", "begin", "idle"}
      /\ \A q \in LockProcs \ {p} : lockPc'[q] = lockPc[q]
      /\ lockPc'[p] = "compare" => atPath' = atPath /\ atPath # NoNode /\ atPath \notin readable
      /\ lockPc'[p] = "begin" => atPath' \in readable'
  BY <1>1, LockPcs
<1>8. AttemptsLast'
  <2> SUFFICES ASSUME NEW q \in LockProcs,
                      lockPc'[q] \in {"open", "compare", "candidates", "current", "replace"}
               PROVE  attempt'[q] < SchemaAttempts
    BY DEF AttemptsLast
  <2>1. CASE q = p
    <3>1. lockPc[p] = "open"
      BY DEF OpenLockFile, At
    <3> QED
      BY <2>1, <3>1, <1>3 DEF AttemptsLast
  <2> QED
    BY <2>1, <1>3, <1>7 DEF AttemptsLast
<1>9. MovedIsUnreadable'
  <2> SUFFICES ASSUME NEW q \in LockProcs PROVE MovedIsUnreadable!(q)'
    BY DEF MovedIsUnreadable
  <2>1. CASE q = p
    BY <2>1, <1>2, <1>3, <1>4, <1>5, <1>7
  <2>2. CASE q # p
    BY <2>2, <1>2, <1>3, <1>4, <1>5, <1>7 DEF MovedIsUnreadable
  <2> QED
    BY <2>1, <2>2
<1>10. LockedIsFound'
  <2> SUFFICES ASSUME NEW q \in LockProcs PROVE LockedIsFound!(q)'
    BY DEF LockedIsFound
  <2>1. CASE q = p
    BY <2>1, <1>2, <1>3, <1>5, <1>7
  <2>2. CASE q # p
    BY <2>2, <1>2, <1>3, <1>4, <1>5, <1>7 DEF LockedIsFound
  <2> QED
    BY <2>1, <2>2
<1> QED
  BY <1>6, <1>8, <1>9, <1>10

LEMMA CompareNodesStep ==
    ASSUME LockInv, NEW p \in LockProcs, CompareNodes(p)
    PROVE  LockInv'
<1>1. PICK pc \in {"candidates", "connect"} :
          Goto(p, pc) /\ (pc = "candidates" => before[p] # NoNode /\ atPath = before[p]
                                                  /\ attempt' = attempt)
  BY DEF CompareNodes
<1>2. lockPc[p] = "compare" /\ attempt[p] < SchemaAttempts
  BY DEF CompareNodes, At, LockInv, AttemptsLast
<1>3. /\ attempt' \in [LockProcs -> 0..SchemaAttempts]
      /\ \A q \in LockProcs \ {p} : attempt'[q] = attempt[q]
  BY <1>2 DEF LockInv, LockTypeOK, CompareNodes, SchemaAttempts
<1>4. LockTypeOK'
  BY <1>1, <1>3, LockPcs DEF LockInv, LockTypeOK, CompareNodes, lockHistory
<1>5. AttemptsLast' /\ MovedIsUnreadable' /\ LockedIsFound'
  BY <1>1, <1>2, <1>3, LockPcs
     DEF LockInv, AttemptsLast, MovedIsUnreadable, LockedIsFound, CompareNodes, lockHistory
<1> QED
  BY <1>4, <1>5 DEF LockInv

LEMMA CheckCandidateStep ==
    ASSUME LockInv, NEW p \in LockProcs, CheckCandidate(p)
    PROVE  LockInv'
<1>1. PICK pc \in {"current", "replace", "connect"} :
          /\ Goto(p, pc)
          /\ pc # "connect" => atPath = before[p] /\ attempt' = attempt
  BY DEF CheckCandidate, StillExpected
<1>2. lockPc[p] \in {"candidates", "current"} /\ attempt[p] < SchemaAttempts
  BY DEF CheckCandidate, LockInv, AttemptsLast
<1>3. /\ attempt' \in [LockProcs -> 0..SchemaAttempts]
      /\ \A q \in LockProcs \ {p} : attempt'[q] = attempt[q]
  BY <1>2 DEF LockInv, LockTypeOK, CheckCandidate, SchemaAttempts
<1>4. /\ compared' \in [LockProcs -> Nodes \cup {NoNode}]
      /\ compared'[p] = atPath
      /\ \A q \in LockProcs \ {p} : compared'[q] = compared[q]
  BY DEF LockInv, LockTypeOK, CheckCandidate
<1>5. LockTypeOK'
  BY <1>1, <1>3, <1>4, LockPcs DEF LockInv, LockTypeOK, CheckCandidate
<1>6. AttemptsLast' /\ MovedIsUnreadable' /\ LockedIsFound'
  BY <1>1, <1>2, <1>3, <1>4, LockPcs
     DEF LockInv, AttemptsLast, MovedIsUnreadable, LockedIsFound, CheckCandidate
<1> QED
  BY <1>5, <1>6 DEF LockInv

LEMMA ReplaceFileStep ==
    ASSUME LockInv, NEW p \in LockProcs, ReplaceFile(p)
    PROVE  LockInv'
<1>1. Goto(p, "connect") /\ lockPc[p] = "replace" /\ attempt[p] < SchemaAttempts
  BY DEF ReplaceFile, At, LockInv, AttemptsLast
<1>2. /\ attempt' \in [LockProcs -> 0..SchemaAttempts]
      /\ \A q \in LockProcs \ {p} : attempt'[q] = attempt[q]
  BY <1>1 DEF LockInv, LockTypeOK, ReplaceFile, SchemaAttempts
<1>3. swapped' \in BOOLEAN /\ atPath' = NoNode
  BY DEF ReplaceFile, LockInv, LockTypeOK
<1>4. LockTypeOK'
  BY <1>1, <1>2, <1>3, LockPcs DEF LockInv, LockTypeOK, ReplaceFile
<1>5. compared[p] = before[p] /\ before[p] \notin readable
  BY <1>1 DEF LockInv, MovedIsUnreadable
<1>6. AttemptsLast' /\ MovedIsUnreadable'
  BY <1>1, <1>2, <1>3, LockPcs DEF LockInv, AttemptsLast, MovedIsUnreadable, ReplaceFile
<1>7. ASSUME NEW q \in LockProcs, lockPc[q] \in {"begin", "held"}
      PROVE  swapped'
  BY <1>5, <1>7 DEF LockInv, LockedIsFound, ReplaceFile
<1>8. LockedIsFound'
  BY <1>1, <1>7, LockPcs DEF LockInv, LockedIsFound, ReplaceFile
<1> QED
  BY <1>4, <1>6, <1>8 DEF LockInv

LEMMA BeginImmediateStep ==
    ASSUME LockInv, NEW p \in LockProcs, BeginImmediate(p)
    PROVE  LockInv'
<1>1. PICK pc \in {"held", "idle"} :
          /\ Goto(p, pc)
          /\ pc = "held" => /\ writer[opened[p]] = NoWriter
                            /\ writer' = [writer EXCEPT ![opened[p]] = p]
          /\ pc = "idle" => writer' = writer
  BY DEF BeginImmediate
<1>2. lockPc[p] = "begin" /\ opened[p] \in Nodes
  BY DEF BeginImmediate, At, LockInv, LockTypeOK, LockedIsFound
<1>3. /\ writer' \in [Nodes -> LockProcs \cup {NoWriter}]
      /\ lockPc'[p] = "held" => writer'[opened[p]] = p
      /\ \A n \in Nodes : writer[n] # NoWriter => writer'[n] = writer[n]
  BY <1>1, <1>2, LockPcs DEF LockInv, LockTypeOK
<1>4. LockTypeOK'
  BY <1>1, <1>3, LockPcs DEF LockInv, LockTypeOK, BeginImmediate, lockHistory
<1>5. AttemptsLast' /\ MovedIsUnreadable'
  BY <1>1, LockPcs DEF LockInv, AttemptsLast, MovedIsUnreadable, BeginImmediate, lockHistory
<1>6. LockedIsFound'
  BY <1>1, <1>2, <1>3, LockPcs, LockAssumption
     DEF LockInv, LockTypeOK, LockedIsFound, BeginImmediate, lockHistory, LockAssumption
<1> QED
  BY <1>4, <1>5, <1>6 DEF LockInv

LEMMA EndLockingStep ==
    ASSUME LockInv, NEW p \in LockProcs, EndLocking(p)
    PROVE  LockInv'
<1>1. Goto(p, "idle")
  BY DEF EndLocking
<1>2. /\ writer' \in [Nodes -> LockProcs \cup {NoWriter}]
      /\ \A n \in Nodes : writer[n] # p => writer'[n] = writer[n]
  BY DEF LockInv, LockTypeOK, EndLocking
<1>3. LockTypeOK'
  BY <1>1, <1>2, LockPcs DEF LockInv, LockTypeOK, EndLocking, lockHistory
<1>4. AttemptsLast' /\ MovedIsUnreadable' /\ LockedIsFound'
  BY <1>1, <1>2, LockPcs
     DEF LockInv, LockTypeOK, AttemptsLast, MovedIsUnreadable, LockedIsFound, EndLocking,
         lockHistory
<1> QED
  BY <1>3, <1>4 DEF LockInv

LEMMA CorruptFileStep ==
    ASSUME LockInv, CorruptFile
    PROVE  LockInv'
<1>1. LockTypeOK'
  <2>1. corruptions' \in 0..MaxCorruptions
    BY LockAssumption DEF LockInv, LockTypeOK, CorruptFile, LockAssumption
  <2> QED
    BY <2>1 DEF LockInv, LockTypeOK, CorruptFile, lockHistory
<1>2. AttemptsLast' /\ MovedIsUnreadable'
  BY DEF LockInv, AttemptsLast, MovedIsUnreadable, CorruptFile, lockHistory
<1>3. ASSUME NEW q \in LockProcs, lockPc[q] \in {"begin", "held"}, ~swapped
      PROVE  opened[q] # atPath
  <2>1. CASE lockPc[q] = "begin"
    BY <2>1 DEF CorruptFile
  <2>2. CASE lockPc[q] = "held"
    <3>1. writer[opened[q]] = q
      BY <2>2 DEF LockInv, LockedIsFound
    <3> QED
      BY <3>1, LockAssumption DEF CorruptFile, LockAssumption
  <2> QED
    BY <1>3, <2>1, <2>2
<1>4. LockedIsFound'
  BY <1>3 DEF LockInv, LockTypeOK, LockedIsFound, CorruptFile, lockHistory
<1> QED
  BY <1>1, <1>2, <1>4 DEF LockInv

LEMMA LockInvStep == LockInv /\ [LockNext]_lockVars => LockInv'
<1> SUFFICES ASSUME LockInv, [LockNext]_lockVars PROVE LockInv'
  OBVIOUS
<1>1. CASE UNCHANGED lockVars
  BY <1>1 DEF lockVars, LockInv, LockTypeOK, AttemptsLast, MovedIsUnreadable, LockedIsFound
<1> QED
  BY <1>1, CorruptFileStep, StartLockingStep, StatBeforeStep, OpenLockFileStep, CompareNodesStep,
     CheckCandidateStep, ReplaceFileStep, BeginImmediateStep, EndLockingStep DEF LockNext

\* Every variable of the lock file stays in its type.
THEOREM LockTypeCorrect == LockSpec => []LockTypeOK
<1>1. LockInv => LockTypeOK
  BY DEF LockInv
<1> QED
  BY LockInvInit, LockInvStep, <1>1, PTL DEF LockSpec

\* However many processes find the lock file damaged and replace it at once, and
\* whichever of them is ended in between, at most one maintains the repository, as
\* long as no file changed between its last comparison and its move
\* (maintenance_lock, _connect, _discard_corrupt_lock).
THEOREM LocksAreExclusive == LockSpec => []LockIsExclusive
<1>1. LockInv => LockIsExclusive
  <2> SUFFICES ASSUME LockInv, ~swapped PROVE Cardinality(Holders) <= 1
    BY DEF LockIsExclusive
  <2>1. \A p, q \in Holders : p = q
    BY DEF LockInv, LockedIsFound, Holders, At
  <2>2. CASE Holders = {}
    BY <2>2, FS_EmptySet
  <2>3. CASE Holders # {}
    <3>1. PICK p : Holders = {p}
      BY <2>1, <2>3
    <3> QED
      BY <3>1, FS_Singleton
  <2> QED
    BY <2>2, <2>3
<1> QED
  BY LockInvInit, LockInvStep, <1>1, PTL DEF LockSpec

-----------------------------------------------------------------------------
(* The catalog: an inductive invariant *)

\* A catalog that is still to be made indexes nothing.
NewIsEmpty ==
    /\ usable \subseteq 1..made
    /\ \A c \in Catalogs : c > made => catalogRows[c] = {}

\* Who has renamed a catalog is on the way to retire it.
InReset(p) ==
    \/ openerPc[p] \in {"snapshots", "unindexed"}
    \/ openerPc[p] = "create" /\ replacedCatalogs[p] # {}

ReplacedIsRetired ==
    /\ \A p \in Openers : replacedCatalogs[p] # {} => openerPc[p] \in {"create", "snapshots"}
    /\ snapshots \subseteq UNION {replacedCatalogs[p] : p \in Openers}

\* A tree without a row is left by a catalog that is being retired.
LeftIsRetired == treesOnDisk \subseteq CurrentRows \/ \E p \in Openers : InReset(p)

ResetInv ==
    /\ ResetTypeOK
    /\ NewIsEmpty
    /\ unfinished \/ (ReplacedIsRetired /\ LeftIsRetired)
LEMMA ResetInvInit == ResetInit => ResetInv
<1> SUFFICES ASSUME ResetInit PROVE ResetInv
  OBVIOUS
<1>1. catalogAt \in Catalogs \cup {NoCatalog} /\ usable \subseteq Catalogs
  BY DEF ResetInit
<1>2. catalogRows \in [Catalogs -> SUBSET CommittedTrees] /\ treesOnDisk \subseteq CommittedTrees
  BY DEF ResetInit
<1>3. openerPc \in [Openers -> {"closed", "open", "confirm", "rename", "create", "snapshots",
                                "unindexed", "ready"}]
  BY DEF ResetInit
<1>4. sawBroken \in [Openers -> Catalogs \cup {NoCatalog}] /\ snapshots \subseteq Catalogs
  BY DEF ResetInit
<1>5. replacedCatalogs \in [Openers -> SUBSET Catalogs]
  BY DEF ResetInit
<1>6. made \in 0..MaxCatalogs /\ broken \in 0..MaxBroken
  BY ResetAssumption DEF ResetInit, ResetAssumption
<1>8. mistaken \in BOOLEAN /\ unfinished \in BOOLEAN
  BY DEF ResetInit
<1>7. NewIsEmpty /\ ReplacedIsRetired /\ LeftIsRetired
  BY DEF ResetInit, NewIsEmpty, ReplacedIsRetired, LeftIsRetired
<1> QED
  BY <1>1, <1>2, <1>3, <1>4, <1>5, <1>6, <1>7, <1>8 DEF ResetTypeOK, ResetInv

\* What a step of p does to the places of all processes.
LEMMA OpenerPcs ==
    ASSUME ResetTypeOK, NEW p \in Openers, NEW pc, Advance(p, pc),
           pc \in {"closed", "open", "confirm", "rename", "create", "snapshots", "unindexed",
                   "ready"}
    PROVE  /\ openerPc' \in [Openers -> {"closed", "open", "confirm", "rename", "create",
                                         "snapshots", "unindexed", "ready"}]
           /\ openerPc'[p] = pc
           /\ \A q \in Openers \ {p} : openerPc'[q] = openerPc[q]
BY DEF ResetTypeOK, Advance

\* A catalog that is made where none is leaves the indexed trees as they are, and
\* those of nothing are none.
LEMMA MakeCatalogTypes ==
    ASSUME ResetInv, MakeCatalog, catalogRows' = catalogRows
    PROVE  /\ made' \in 0..MaxCatalogs
           /\ catalogAt' \in Catalogs \cup {NoCatalog}
           /\ usable' \subseteq Catalogs
           /\ NewIsEmpty'
           /\ CurrentRows' = CurrentRows
<1> USE ResetAssumption DEF ResetAssumption, ResetInv, ResetTypeOK, Catalogs, NoCatalog
<1>1. CASE catalogAt = NoCatalog
  <2>1. made + 1 \in Catalogs /\ made' = made + 1 /\ catalogAt' = made + 1
            /\ usable' = usable \cup {made + 1}
    BY <1>1 DEF MakeCatalog
  <2>2. catalogRows[made + 1] = {}
    BY <2>1 DEF NewIsEmpty
  <2>3. CurrentRows' = CurrentRows
    BY <1>1, <2>1, <2>2 DEF CurrentRows
  <2>4. NewIsEmpty'
    BY <2>1 DEF NewIsEmpty
  <2> QED
    BY <2>1, <2>3, <2>4
<1>2. CASE catalogAt # NoCatalog
  BY <1>2 DEF MakeCatalog, NewIsEmpty, CurrentRows
<1> QED
  BY <1>1, <1>2

\* A step of p that neither begins nor ends a reset.
LEMMA ResetsStay ==
    ASSUME ResetTypeOK, NEW p \in Openers, ReplacedIsRetired, LeftIsRetired,
           \A q \in Openers \ {p} : openerPc'[q] = openerPc[q],
           openerPc[p] \notin {"create", "snapshots", "unindexed"},
           openerPc'[p] \notin {"create", "snapshots", "unindexed"},
           UNCHANGED <<replacedCatalogs, snapshots>>,
           treesOnDisk \subseteq CurrentRows => treesOnDisk' \subseteq CurrentRows'
    PROVE  ReplacedIsRetired' /\ LeftIsRetired'
<1>1. ReplacedIsRetired'
  BY DEF ReplacedIsRetired
<1>2. LeftIsRetired'
  BY DEF LeftIsRetired, InReset
<1> QED
  BY <1>1, <1>2

LEMMA OpenCatalogStep ==
    ASSUME ResetInv, NEW p \in Openers, OpenCatalog(p)
    PROVE  ResetInv'
<1>1. PICK pc \in {"confirm", "rename", "ready"} : Advance(p, pc)
  BY DEF OpenCatalog
<1>2. openerPc[p] \in {"closed", "open"}
  BY DEF OpenCatalog, InOpening
<1>3. /\ made' \in 0..MaxCatalogs
      /\ catalogAt' \in Catalogs \cup {NoCatalog}
      /\ usable' \subseteq Catalogs
      /\ NewIsEmpty'
      /\ CurrentRows' = CurrentRows
  <2>1. catalogRows' = catalogRows
    BY DEF OpenCatalog
  <2>2. CASE MakeCatalog
    BY <2>1, <2>2, MakeCatalogTypes
  <2>3. CASE UNCHANGED <<made, catalogAt, usable>>
    BY <2>1, <2>3 DEF ResetInv, ResetTypeOK, NewIsEmpty, CurrentRows
  <2> QED
    BY <2>2, <2>3 DEF OpenCatalog
<1>4. sawBroken' \in [Openers -> Catalogs \cup {NoCatalog}]
  BY DEF ResetInv, ResetTypeOK, OpenCatalog
<1>5. ResetTypeOK'
  BY <1>1, <1>3, <1>4, OpenerPcs DEF ResetInv, ResetTypeOK, OpenCatalog
<1>6. UNCHANGED <<replacedCatalogs, snapshots, treesOnDisk, unfinished>>
  BY DEF OpenCatalog
<1>7. openerPc'[p] \in {"confirm", "rename", "ready"}
          /\ \A q \in Openers \ {p} : openerPc'[q] = openerPc[q]
  BY <1>1, OpenerPcs DEF ResetInv
<1>8. unfinished' \/ (ReplacedIsRetired' /\ LeftIsRetired')
  BY <1>2, <1>3, <1>6, <1>7, ResetsStay DEF ResetInv
<1> QED
  BY <1>3, <1>5, <1>8 DEF ResetInv

LEMMA ConfirmCorruptionStep ==
    ASSUME ResetInv, NEW p \in Openers, ConfirmCorruption(p)
    PROVE  ResetInv'
<1>1. PICK pc \in {"rename", "closed"} : Advance(p, pc)
  BY DEF ConfirmCorruption
<1>2. openerPc[p] = "confirm"
  BY DEF ConfirmCorruption, InOpening
<1>3. ResetTypeOK' /\ NewIsEmpty' /\ CurrentRows' = CurrentRows
  BY <1>1, OpenerPcs
     DEF ResetInv, ResetTypeOK, ConfirmCorruption, NewIsEmpty, CurrentRows
<1>4. openerPc'[p] \in {"rename", "closed"}
          /\ \A q \in Openers \ {p} : openerPc'[q] = openerPc[q]
  BY <1>1, OpenerPcs DEF ResetInv
<1>5. UNCHANGED <<replacedCatalogs, snapshots, treesOnDisk, unfinished>>
  BY DEF ConfirmCorruption
<1>6. unfinished' \/ (ReplacedIsRetired' /\ LeftIsRetired')
  BY <1>2, <1>3, <1>4, <1>5, ResetsStay DEF ResetInv
<1> QED
  BY <1>3, <1>6 DEF ResetInv

LEMMA RenameCatalogStep ==
    ASSUME ResetInv, NEW p \in Openers, RenameCatalog(p)
    PROVE  ResetInv'
<1>1. Advance(p, "create") /\ openerPc[p] = "rename"
  BY DEF RenameCatalog, InOpening
<1>2. /\ replacedCatalogs' \in [Openers -> SUBSET Catalogs]
      /\ replacedCatalogs'[p] = {catalogAt} \ {NoCatalog}
      /\ \A q \in Openers \ {p} : replacedCatalogs'[q] = replacedCatalogs[q]
  BY DEF ResetInv, ResetTypeOK, RenameCatalog
<1>3. /\ snapshots' = snapshots \cup ({catalogAt} \ {NoCatalog})
      /\ catalogAt' = NoCatalog
      /\ UNCHANGED <<usable, catalogRows, treesOnDisk, sawBroken, made, broken, unfinished>>
  BY DEF RenameCatalog
<1>4. snapshots' \subseteq Catalogs /\ mistaken' \in BOOLEAN
  BY DEF ResetInv, ResetTypeOK, RenameCatalog
<1>5. ResetTypeOK'
  BY <1>1, <1>2, <1>3, <1>4, OpenerPcs DEF ResetInv, ResetTypeOK
<1>6. NewIsEmpty'
  BY <1>3 DEF ResetInv, NewIsEmpty
<1>7. openerPc'[p] = "create" /\ \A q \in Openers \ {p} : openerPc'[q] = openerPc[q]
  BY <1>1, OpenerPcs DEF ResetInv
<1>8. ASSUME ReplacedIsRetired
      PROVE  ReplacedIsRetired'
  <2>1. replacedCatalogs[p] = {}
    BY <1>1, <1>8 DEF ReplacedIsRetired
  <2>2. \A q \in Openers : replacedCatalogs[q] \subseteq replacedCatalogs'[q]
    BY <1>2, <2>1
  <2> QED
    BY <1>2, <1>3, <1>7, <1>8, <2>2 DEF ReplacedIsRetired
<1>9. ASSUME LeftIsRetired
      PROVE  LeftIsRetired'
  <2>1. CASE catalogAt = NoCatalog
    <3>1. CurrentRows' = CurrentRows
      BY <1>3, <2>1 DEF CurrentRows
    <3> QED
      BY <1>1, <1>2, <1>3, <1>7, <1>9, <3>1 DEF LeftIsRetired, InReset
  <2>2. CASE catalogAt # NoCatalog
    BY <1>2, <1>7, <2>2 DEF LeftIsRetired, InReset
  <2> QED
    BY <2>1, <2>2
<1> QED
  BY <1>3, <1>5, <1>6, <1>8, <1>9 DEF ResetInv

LEMMA CreateCatalogStep ==
    ASSUME ResetInv, NEW p \in Openers, CreateCatalog(p)
    PROVE  ResetInv'
<1>1. openerPc[p] = "create" /\ UNCHANGED <<catalogRows, treesOnDisk, sawBroken, snapshots,
                                             replacedCatalogs, broken, mistaken>>
  BY DEF CreateCatalog, InOpening
<1>2. CASE catalogAt # NoCatalog /\ catalogAt \notin usable
  <2>1. Advance(p, "closed") /\ unfinished' = TRUE /\ UNCHANGED <<made, catalogAt, usable>>
    BY <1>2 DEF CreateCatalog
  <2>2. ResetTypeOK' /\ NewIsEmpty'
    BY <1>1, <2>1, OpenerPcs DEF ResetInv, ResetTypeOK, NewIsEmpty
  <2> QED
    BY <2>1, <2>2 DEF ResetInv
<1>3. CASE ~(catalogAt # NoCatalog /\ catalogAt \notin usable)
  <2>1. MakeCatalog /\ unfinished' = unfinished
    BY <1>3 DEF CreateCatalog
  <2>2. PICK pc \in {"ready", "snapshots"} :
            Advance(p, pc) /\ (pc = "ready" <=> replacedCatalogs[p] = {})
    BY <1>3 DEF CreateCatalog
  <2>3. /\ made' \in 0..MaxCatalogs
        /\ catalogAt' \in Catalogs \cup {NoCatalog}
        /\ usable' \subseteq Catalogs
        /\ NewIsEmpty'
        /\ CurrentRows' = CurrentRows
    BY <1>1, <2>1, MakeCatalogTypes
  <2>4. ResetTypeOK'
    BY <1>1, <2>1, <2>2, <2>3, OpenerPcs DEF ResetInv, ResetTypeOK
  <2>5. openerPc'[p] \in {"ready", "snapshots"}
            /\ (openerPc'[p] = "ready" <=> replacedCatalogs[p] = {})
            /\ \A q \in Openers \ {p} : openerPc'[q] = openerPc[q]
    BY <2>2, OpenerPcs DEF ResetInv
  <2>6. ASSUME ReplacedIsRetired
        PROVE  ReplacedIsRetired'
    BY <1>1, <2>5, <2>6 DEF ReplacedIsRetired
  <2>7. ASSUME LeftIsRetired
        PROVE  LeftIsRetired'
    BY <1>1, <2>3, <2>5, <2>7 DEF LeftIsRetired, InReset
  <2> QED
    BY <2>1, <2>3, <2>4, <2>6, <2>7 DEF ResetInv
<1> QED
  BY <1>2, <1>3

LEMMA RetireSnapshotsStep ==
    ASSUME ResetInv, NEW p \in Openers, RetireSnapshots(p)
    PROVE  ResetInv'
<1>1. Advance(p, "unindexed") /\ openerPc[p] = "snapshots"
  BY DEF RetireSnapshots, InOpening
<1>2. /\ snapshots' = snapshots \ replacedCatalogs[p]
      /\ UNCHANGED <<catalogAt, usable, catalogRows, treesOnDisk, sawBroken, made, broken,
                     mistaken, unfinished>>
  BY DEF RetireSnapshots
<1>3. /\ replacedCatalogs' \in [Openers -> SUBSET Catalogs]
      /\ replacedCatalogs'[p] = {}
      /\ \A q \in Openers \ {p} : replacedCatalogs'[q] = replacedCatalogs[q]
  BY DEF ResetInv, ResetTypeOK, RetireSnapshots
<1>4. ResetTypeOK' /\ NewIsEmpty'
  BY <1>1, <1>2, <1>3, OpenerPcs DEF ResetInv, ResetTypeOK, NewIsEmpty
<1>5. openerPc'[p] = "unindexed" /\ \A q \in Openers \ {p} : openerPc'[q] = openerPc[q]
  BY <1>1, OpenerPcs DEF ResetInv
<1>6. ASSUME ReplacedIsRetired
      PROVE  ReplacedIsRetired'
  BY <1>2, <1>3, <1>5, <1>6 DEF ReplacedIsRetired
<1>7. LeftIsRetired'
  BY <1>5 DEF LeftIsRetired, InReset
<1> QED
  BY <1>2, <1>4, <1>6, <1>7 DEF ResetInv

LEMMA RetireUnindexedStep ==
    ASSUME ResetInv, NEW p \in Openers, RetireUnindexed(p)
    PROVE  ResetInv'
<1>1. Advance(p, "ready") /\ openerPc[p] = "unindexed" /\ treesOnDisk' = {}
  BY DEF RetireUnindexed, InOpening
<1>2. UNCHANGED <<catalogAt, usable, catalogRows, sawBroken, snapshots, replacedCatalogs, made,
                  broken, unfinished>>
  BY DEF RetireUnindexed
<1>3. mistaken' \in BOOLEAN
  BY DEF ResetInv, ResetTypeOK, RetireUnindexed
<1>4. ResetTypeOK' /\ NewIsEmpty'
  BY <1>1, <1>2, <1>3, OpenerPcs DEF ResetInv, ResetTypeOK, NewIsEmpty
<1>5. openerPc'[p] = "ready" /\ \A q \in Openers \ {p} : openerPc'[q] = openerPc[q]
  BY <1>1, OpenerPcs DEF ResetInv
<1>6. ASSUME ReplacedIsRetired
      PROVE  ReplacedIsRetired'
  BY <1>1, <1>2, <1>5, <1>6 DEF ReplacedIsRetired
<1>7. LeftIsRetired'
  BY <1>1 DEF LeftIsRetired
<1> QED
  BY <1>2, <1>4, <1>6, <1>7 DEF ResetInv

LEMMA CommitTreeStep ==
    ASSUME ResetInv, NEW p \in Openers, NEW a \in CommittedTrees, CommitTree(p, a)
    PROVE  ResetInv'
<1>1. /\ catalogAt \in Catalogs /\ catalogAt \in 1..made
      /\ treesOnDisk' = treesOnDisk \cup {a}
      /\ UNCHANGED <<catalogAt, usable, openerPc, sawBroken, snapshots, replacedCatalogs, made,
                     broken, mistaken, unfinished>>
  BY DEF ResetInv, ResetTypeOK, NewIsEmpty, CommitTree
<1>2. /\ catalogRows' \in [Catalogs -> SUBSET CommittedTrees]
      /\ catalogRows'[catalogAt] = catalogRows[catalogAt] \cup {a}
      /\ \A c \in Catalogs \ {catalogAt} : catalogRows'[c] = catalogRows[c]
  BY <1>1 DEF ResetInv, ResetTypeOK, CommitTree
<1>3. ResetTypeOK'
  BY <1>1, <1>2 DEF ResetInv, ResetTypeOK
<1>4. NewIsEmpty'
  <2>1. made \in Nat
    BY DEF ResetInv, ResetTypeOK
  <2>2. \A c \in Catalogs : c > made => c # catalogAt
    BY <1>1, <2>1 DEF Catalogs
  <2> QED
    BY <1>1, <1>2, <2>2 DEF ResetInv, NewIsEmpty
<1>5. CurrentRows' = CurrentRows \cup {a}
  BY <1>1, <1>2 DEF CurrentRows, Catalogs, NoCatalog
<1>6. ReplacedIsRetired => ReplacedIsRetired'
  BY <1>1 DEF ReplacedIsRetired
<1>7. LeftIsRetired => LeftIsRetired'
  BY <1>1, <1>5 DEF LeftIsRetired, InReset
<1> QED
  BY <1>1, <1>3, <1>4, <1>6, <1>7 DEF ResetInv

LEMMA CloseOpenerStep ==
    ASSUME ResetInv, NEW p \in Openers, CloseOpener(p)
    PROVE  ResetInv'
<1>1. /\ Advance(p, "closed")
      /\ unfinished' = (unfinished \/ openerPc[p] \in {"create", "snapshots", "unindexed"})
      /\ UNCHANGED <<catalogAt, usable, catalogRows, treesOnDisk, sawBroken, snapshots, made,
                     broken, mistaken>>
  BY DEF CloseOpener
<1>2. /\ replacedCatalogs' \in [Openers -> SUBSET Catalogs]
      /\ replacedCatalogs'[p] = {}
      /\ \A q \in Openers \ {p} : replacedCatalogs'[q] = replacedCatalogs[q]
  BY DEF ResetInv, ResetTypeOK, CloseOpener
<1>3. unfinished' \in BOOLEAN
  BY <1>1
<1>4. ResetTypeOK' /\ NewIsEmpty'
  BY <1>1, <1>2, <1>3, OpenerPcs DEF ResetInv, ResetTypeOK, NewIsEmpty
<1>5. openerPc'[p] = "closed" /\ \A q \in Openers \ {p} : openerPc'[q] = openerPc[q]
  BY <1>1, OpenerPcs DEF ResetInv
<1>6. CASE ~unfinished'
  <2>1. /\ ReplacedIsRetired /\ LeftIsRetired
        /\ openerPc[p] \notin {"create", "snapshots", "unindexed"}
    BY <1>1, <1>6 DEF ResetInv
  <2>2. replacedCatalogs' = replacedCatalogs
    <3>1. replacedCatalogs[p] = {}
      BY <2>1 DEF ReplacedIsRetired
    <3> QED
      BY <1>2, <3>1 DEF ResetInv, ResetTypeOK
  <2>3. CurrentRows' = CurrentRows
    BY <1>1 DEF CurrentRows
  <2>4. UNCHANGED <<replacedCatalogs, snapshots>> /\ treesOnDisk' = treesOnDisk
    BY <1>1, <2>2
  <2>5. ReplacedIsRetired' /\ LeftIsRetired'
    BY <1>5, <2>1, <2>3, <2>4, ResetsStay DEF ResetInv
  <2> QED
    BY <1>4, <2>5 DEF ResetInv
<1> QED
  BY <1>3, <1>4, <1>6 DEF ResetInv

LEMMA BreakCatalogStep ==
    ASSUME ResetInv, BreakCatalog
    PROVE  ResetInv'
<1>1. broken' \in 0..MaxBroken
  BY ResetAssumption DEF ResetInv, ResetTypeOK, BreakCatalog, ResetAssumption
<1>2. ResetTypeOK' /\ NewIsEmpty'
  BY <1>1 DEF ResetInv, ResetTypeOK, BreakCatalog, NewIsEmpty
<1>3. UNCHANGED <<openerPc, replacedCatalogs, snapshots, treesOnDisk, unfinished>>
          /\ CurrentRows' = CurrentRows
  BY DEF BreakCatalog, CurrentRows
<1> QED
  BY <1>2, <1>3 DEF ResetInv, ReplacedIsRetired, LeftIsRetired, InReset

LEMMA ResetInvStep == ResetInv /\ [ResetNext]_resetVars => ResetInv'
<1> SUFFICES ASSUME ResetInv, [ResetNext]_resetVars PROVE ResetInv'
  OBVIOUS
<1>1. CASE UNCHANGED resetVars
  BY <1>1 DEF resetVars, ResetInv, ResetTypeOK, NewIsEmpty, ReplacedIsRetired, LeftIsRetired,
              InReset, CurrentRows
<1> QED
  BY <1>1, BreakCatalogStep, OpenCatalogStep, ConfirmCorruptionStep, RenameCatalogStep,
     CreateCatalogStep, RetireSnapshotsStep, RetireUnindexedStep, CloseOpenerStep, CommitTreeStep
     DEF ResetNext

\* Every variable of the reset stays in its type.
THEOREM ResetTypeCorrect == ResetSpec => []ResetTypeOK
<1>1. ResetInv => ResetTypeOK
  BY DEF ResetInv
<1> QED
  BY ResetInvInit, ResetInvStep, <1>1, PTL DEF ResetSpec

\* However many processes open a repository with an unusable catalog at once, once
\* none of them is in a reset and none was left halfway, every tree has a row in
\* the catalog of today and no renamed catalog is left (open_catalog,
\* retire_catalog_snapshots, retire_unindexed_artifacts).
THEOREM ResetsLeaveTheIndexed == ResetSpec => []OnlyIndexedRemain
<1>1. ResetInv => OnlyIndexedRemain
  <2> SUFFICES ASSUME ResetInv, ~unfinished,
                      \A p \in Openers : openerPc[p] \in {"closed", "ready"}
               PROVE  treesOnDisk \subseteq CurrentRows /\ snapshots = {}
    BY DEF OnlyIndexedRemain
  <2>1. treesOnDisk \subseteq CurrentRows
    BY DEF ResetInv, LeftIsRetired, InReset
  <2>2. \A p \in Openers : replacedCatalogs[p] = {}
    BY DEF ResetInv, ReplacedIsRetired
  <2>3. snapshots = {}
    BY <2>2 DEF ResetInv, ReplacedIsRetired
  <2> QED
    BY <2>1, <2>3
<1> QED
  BY ResetInvInit, ResetInvStep, <1>1, PTL DEF ResetSpec

-----------------------------------------------------------------------------
(* The directory of a delivery: an inductive invariant.  For any number of     *)
(* writers, other owners and failing calls, on every platform.                 *)

Staging(w) == beside[w]["staging"]
Recovery(w) == beside[w]["recovery"]
Own(w) == Fresh(OwnTree[w])
Installing == {"mkdir", "rmdir", "install", "sentinel"}
RollingBack == {"moved", "restore", "putback"}
Swapping == {"swapped", "swapback", "swappedback"}

\* Where the tree of a writer is, and the tree it had looked at.
StagedIsOwn(w) ==
    /\ writerPc[w] \in (BeforeCommit \ {"idle"}) \cup Installing \cup RollingBack =>
           Staging(w) = Own(w)
    /\ writerPc[w] = "abandon" => Staging(w) \in {Own(w), Absent}

ReplacedIsTarget(w) ==
    /\ writerPc[w] \in Installing => target[w] = Absent \/ Recovery(w) = target[w]
    /\ writerPc[w] = "cleanup" => retiree[w] = "none" \/ beside[w][retiree[w]] = target[w]
    /\ writerPc[w] \in {"cleanup", "done"} => replacedBy[w] = target[w]

\* From its last verification on, nobody writes into what is committed.
CommittedIsVerified(w) ==
    writerPc[w] \in {"guard", "commit", "cleanup", "done"} \cup Installing \cup RollingBack
                        \cup Swapping
        => nested[w] # "edited"

RemovedIsKnown(w) ==
    /\ writerPc[w] = "idle" => \A r \in removed : r.by # w
    /\ \A r \in removed : r.by = w => r.what = Own(w) \/ r.what = target[w]

\* Where the tree a writer had looked at is, if nobody else has touched it.
AloneKeepsTarget(w) ==
    AloneAtWork(w) =>
        /\ writerPc[w] \in (BeforeCommit \ {"idle"}) \cup {"swappedback"} => destination = target[w]
        /\ writerPc[w] \in {"swapped", "swapback"} => Staging(w) = target[w]
        /\ writerPc[w] \in RollingBack => destination = Absent /\ Recovery(w) = target[w]
        /\ writerPc[w] = "mkdir" => destination = Absent
        /\ writerPc[w] = "rmdir" => destination = Fresh(EmptyTree)
        /\ writerPc[w] \in {"install", "sentinel"} =>
               \/ destination = Absent
               \/ platform # "windows" /\ destination = Fresh(EmptyTree)
        /\ writerPc[w] \in {"abandon", "failed"} =>
               destination = target[w] \/ Recovery(w) = target[w]

WriterInv(w) ==
    /\ StagedIsOwn(w)
    /\ ReplacedIsTarget(w)
    /\ CommittedIsVerified(w)
    /\ RemovedIsKnown(w)
    /\ AloneKeepsTarget(w)

CommitInv == CommitTypeOK /\ \A w \in Writers : WriterInv(w)

-----------------------------------------------------------------------------
(* A step of one writer *)

\* What a step of w leaves alone.
OnlyWriter(w) ==
    /\ \A v \in Writers \ {w} :
           /\ writerPc'[v] = writerPc[v] /\ beside'[v] = beside[v] /\ target'[v] = target[v]
           /\ nested'[v] = nested[v] /\ retiree'[v] = retiree[v]
           /\ replacedBy'[v] = replacedBy[v]
    /\ \A r \in removed' : r \in removed \/ r.by = w
    /\ writerPc'[w] \in BeforeCommit => writerPc[w] \in BeforeCommit /\ destination' = destination
    /\ UNCHANGED <<platform, outside>>

LEMMA AloneBefore ==
    ASSUME NEW w \in Writers, OnlyWriter(w)
    PROVE  /\ AloneAtWork(w)' => AloneAtWork(w)
           /\ \A v \in Writers \ {w} :
                  AloneAtWork(v)' => AloneAtWork(v) /\ destination' = destination
BY DEF OnlyWriter, AloneAtWork

LEMMA WriterStep ==
    ASSUME CommitInv, NEW w \in Writers, CommitTypeOK', OnlyWriter(w), WriterInv(w)'
    PROVE  CommitInv'
<1> SUFFICES ASSUME NEW v \in Writers, v # w PROVE WriterInv(v)'
  BY DEF CommitInv
<1>1. WriterInv(v)
  BY DEF CommitInv
<1>2. /\ writerPc'[v] = writerPc[v] /\ beside'[v] = beside[v] /\ target'[v] = target[v]
      /\ nested'[v] = nested[v] /\ retiree'[v] = retiree[v] /\ replacedBy'[v] = replacedBy[v]
      /\ \A r \in removed' : r \in removed \/ r.by # v
      /\ platform' = platform
  BY DEF OnlyWriter
<1>3. StagedIsOwn(v)'
  BY <1>1, <1>2 DEF WriterInv, StagedIsOwn, Staging, Own, Fresh
<1>4. ReplacedIsTarget(v)'
  BY <1>1, <1>2 DEF WriterInv, ReplacedIsTarget, Recovery
<1>5. CommittedIsVerified(v)'
  BY <1>1, <1>2 DEF WriterInv, CommittedIsVerified
<1>6. RemovedIsKnown(v)'
  BY <1>1, <1>2 DEF WriterInv, RemovedIsKnown, Own, Fresh
<1>7. AloneKeepsTarget(v)'
  <2>1. AloneAtWork(v)' => AloneAtWork(v) /\ destination' = destination
    BY AloneBefore
  <2> QED
    BY <1>1, <1>2, <2>1 DEF WriterInv, AloneKeepsTarget, Staging, Recovery, Fresh
<1> QED
  BY <1>3, <1>4, <1>5, <1>6, <1>7 DEF WriterInv

LEMMA TurnsOne ==
    ASSUME CommitTypeOK, NEW w \in Writers, NEW pc \in WriterPcs, Turn(w, pc)
    PROVE  /\ writerPc' \in [Writers -> WriterPcs]
           /\ writerPc'[w] = pc
           /\ \A v \in Writers \ {w} : writerPc'[v] = writerPc[v]
BY DEF CommitTypeOK, Turn

LEMMA SiblingOne ==
    ASSUME CommitTypeOK, NEW w \in Writers, NEW s \in Sides,
           NEW t \in RevisedTrees \cup {Absent}, Sibling(w, s, t)
    PROVE  /\ beside' \in [Writers -> [Sides -> RevisedTrees \cup {Absent}]]
           /\ beside'[w][s] = t
           /\ \A x \in Sides \ {s} : beside'[w][x] = beside[w][x]
           /\ \A v \in Writers \ {w} : beside'[v] = beside[v]
<1>1. [beside[w] EXCEPT ![s] = t] \in [Sides -> RevisedTrees \cup {Absent}]
  BY DEF CommitTypeOK
<1>2. beside' = [beside EXCEPT ![w] = [beside[w] EXCEPT ![s] = t]]
  BY DEF Sibling
<1> QED
  BY <1>1, <1>2 DEF CommitTypeOK

LEMMA TreeTypes ==
    /\ \A w \in Writers : Own(w) \in RevisedTrees
    /\ Fresh(EmptyTree) \in RevisedTrees
    /\ \A t \in OtherTrees \cup {FirstTree} : Fresh(t) \in RevisedTrees
<1>1. 0 \in 0..MaxOutside
  BY CommitAssumption DEF CommitAssumption
<1> QED
  BY <1>1 DEF Own, Fresh, RevisedTrees, Trees3

LEMMA FailType == CommitTypeOK /\ Fail => failures' \in 0..MaxFailures
BY CommitAssumption DEF CommitTypeOK, Fail, CommitAssumption

\* A step of w that changes its place, and of the rest at most what nested says.
LEMMA PlainStep ==
    ASSUME CommitInv, NEW w \in Writers, NEW pc \in WriterPcs, Turn(w, pc),
           UNCHANGED <<platform, destination, beside, target, retiree, removed, replacedBy, outside>>,
           nested' \in [Writers -> {"none", "intact", "edited"}],
           \A v \in Writers \ {w} : nested'[v] = nested[v],
           failures' \in 0..MaxFailures,
           pc \in BeforeCommit => writerPc[w] \in BeforeCommit
    PROVE  CommitTypeOK' /\ OnlyWriter(w)
<1>1. CommitTypeOK'
  BY TurnsOne DEF CommitInv, CommitTypeOK
<1>2. OnlyWriter(w)
  BY TurnsOne DEF CommitInv, OnlyWriter
<1> QED
  BY <1>1, <1>2

-----------------------------------------------------------------------------
(* Staging, and up to the commit *)

LEMMA CommitInvInit == CommitInit => CommitInv
<1> SUFFICES ASSUME CommitInit PROVE CommitInv
  OBVIOUS
<1>1. destination \in RevisedTrees \cup {Absent} /\ platform \in {"exchange", "rollback", "windows"}
  BY TreeTypes DEF CommitInit
<1>2. beside \in [Writers -> [Sides -> RevisedTrees \cup {Absent}]]
  BY DEF CommitInit
<1>3. writerPc \in [Writers -> WriterPcs] /\ retiree \in [Writers -> Sides \cup {"none"}]
  BY DEF CommitInit, WriterPcs
<1>4. /\ target \in [Writers -> RevisedTrees \cup {Absent}]
      /\ replacedBy \in [Writers -> RevisedTrees \cup {Absent}]
  BY DEF CommitInit
<1>5. nested \in [Writers -> {"none", "intact", "edited"}]
  BY DEF CommitInit
<1>6. outside \in 0..MaxOutside /\ failures \in 0..MaxFailures
  BY CommitAssumption DEF CommitInit, CommitAssumption
<1>7. CommitTypeOK
  BY <1>1, <1>2, <1>3, <1>4, <1>5, <1>6 DEF CommitTypeOK, CommitInit
<1>8. ASSUME NEW w \in Writers PROVE WriterInv(w)
  <2>1. writerPc[w] = "idle" /\ removed = {}
    BY DEF CommitInit
  <2> QED
    BY <2>1 DEF WriterInv, StagedIsOwn, ReplacedIsTarget, CommittedIsVerified, RemovedIsKnown,
               AloneKeepsTarget, BeforeCommit, Installing, RollingBack, Swapping
<1> QED
  BY <1>7, <1>8 DEF CommitInv

LEMMA StageTreeStep ==
    ASSUME CommitInv, NEW w \in Writers, StageTree(w)
    PROVE  CommitInv'
<1>1. Turn(w, "staged") /\ writerPc[w] = "idle" /\ Sibling(w, "staging", Own(w))
  BY DEF StageTree, Writing, Own
<1>2. UNCHANGED <<platform, destination, nested, retiree, removed, replacedBy, outside, failures>>
  BY DEF StageTree
<1>3. /\ target' \in [Writers -> RevisedTrees \cup {Absent}]
      /\ target'[w] = destination
      /\ \A v \in Writers \ {w} : target'[v] = target[v]
  BY DEF StageTree, CommitInv, CommitTypeOK
<1>4. /\ beside' \in [Writers -> [Sides -> RevisedTrees \cup {Absent}]]
      /\ beside'[w]["staging"] = Own(w)
      /\ \A v \in Writers \ {w} : beside'[v] = beside[v]
  BY <1>1, SiblingOne, TreeTypes DEF CommitInv, Sides
<1>5. /\ writerPc' \in [Writers -> WriterPcs]
      /\ writerPc'[w] = "staged"
      /\ \A v \in Writers \ {w} : writerPc'[v] = writerPc[v]
  BY <1>1, TurnsOne DEF CommitInv, WriterPcs
<1>6. CommitTypeOK'
  BY <1>2, <1>3, <1>4, <1>5 DEF CommitInv, CommitTypeOK
<1>7. OnlyWriter(w)
  BY <1>1, <1>2, <1>3, <1>4, <1>5 DEF OnlyWriter, BeforeCommit
<1>8. RemovedIsKnown(w)'
  BY <1>1, <1>2, <1>5 DEF CommitInv, WriterInv, RemovedIsKnown
<1>9. WriterInv(w)'
  BY <1>2, <1>3, <1>4, <1>5, <1>8
     DEF WriterInv, StagedIsOwn, ReplacedIsTarget, CommittedIsVerified, AloneKeepsTarget, Staging,
         Own, Fresh, BeforeCommit, Installing, RollingBack, Swapping
<1> QED
  BY <1>6, <1>7, <1>9, WriterStep

\* Whatever happens before the commit, all that matters is what was written.
LEMMA BeforeStep ==
    ASSUME CommitInv, NEW w \in Writers, NEW pc \in {"staged", "guard", "notify", "again", "commit"},
           Turn(w, pc), writerPc[w] \in BeforeCommit \ {"idle"},
           UNCHANGED <<fixed, trees, failures>>,
           pc \in {"guard", "commit"} => nested[w] # "edited"
    PROVE  CommitInv'
<1>1. UNCHANGED <<platform, destination, beside, target, nested, retiree, removed, replacedBy,
                  outside, failures>>
  BY DEF fixed, trees
<1>2. CommitTypeOK' /\ OnlyWriter(w)
  BY <1>1, PlainStep DEF CommitInv, CommitTypeOK, WriterPcs
<1>3. writerPc'[w] = pc
  BY TurnsOne DEF CommitInv, WriterPcs
<1>4. AloneAtWork(w)' => AloneAtWork(w)
  BY <1>2, AloneBefore
<1>5. WriterInv(w)
  BY DEF CommitInv
<1>6. StagedIsOwn(w)' /\ ReplacedIsTarget(w)' /\ CommittedIsVerified(w)'
  BY <1>1, <1>3, <1>5
     DEF WriterInv, StagedIsOwn, ReplacedIsTarget, CommittedIsVerified, Staging, Own, Fresh,
         BeforeCommit, Installing, RollingBack, Swapping
<1>7. RemovedIsKnown(w)'
  BY <1>1, <1>3, <1>5 DEF WriterInv, RemovedIsKnown, Own, Fresh
<1>8. AloneKeepsTarget(w)'
  BY <1>1, <1>3, <1>4, <1>5 DEF WriterInv, AloneKeepsTarget, BeforeCommit, RollingBack
<1> QED
  BY <1>2, <1>6, <1>7, <1>8, WriterStep DEF WriterInv

\* The export below the staging directory is written or edited.
LEMMA NestedStep ==
    ASSUME CommitInv, NEW w \in Writers, MaterializeExport(w) \/ EditStaging(w)
    PROVE  CommitInv'
<1>1. /\ UNCHANGED <<platform, destination, beside, writerPc, target, retiree, removed, replacedBy,
                     outside, failures>>
      /\ writerPc[w] \in {"staged", "notify"}
  BY DEF MaterializeExport, EditStaging, trees, Writing
<1>2. /\ nested' \in [Writers -> {"none", "intact", "edited"}]
      /\ \A v \in Writers \ {w} : nested'[v] = nested[v]
  BY DEF CommitInv, CommitTypeOK, MaterializeExport, EditStaging
<1>3. CommitTypeOK'
  BY <1>1, <1>2 DEF CommitInv, CommitTypeOK
<1>4. OnlyWriter(w)
  BY <1>1, <1>2 DEF OnlyWriter
<1>5. WriterInv(w)
  BY DEF CommitInv
<1>6. StagedIsOwn(w)' /\ ReplacedIsTarget(w)' /\ CommittedIsVerified(w)' /\ RemovedIsKnown(w)'
  BY <1>1, <1>5
     DEF WriterInv, StagedIsOwn, ReplacedIsTarget, CommittedIsVerified, RemovedIsKnown, Staging,
         Recovery, Own, Fresh, Installing, RollingBack, Swapping
<1>7. AloneKeepsTarget(w)'
  BY <1>1, <1>4, <1>5, AloneBefore DEF WriterInv, AloneKeepsTarget, Staging, Recovery, Fresh
<1> QED
  BY <1>3, <1>4, <1>6, <1>7, WriterStep DEF WriterInv

LEMMA VerifyStagedStep ==
    ASSUME CommitInv, NEW w \in Writers, VerifyStaged(w)
    PROVE  CommitInv'
<1>1. writerPc[w] \in BeforeCommit \ {"idle"}
  BY DEF VerifyStaged, BeforeCommit
<1>2. PICK pc \in {"staged", "guard", "commit"} :
          Turn(w, pc) /\ (pc # "staged" => nested[w] # "edited")
  BY DEF VerifyStaged
<1> QED
  BY <1>1, <1>2, BeforeStep DEF VerifyStaged

LEMMA CommitGuardStep ==
    ASSUME CommitInv, NEW w \in Writers, CommitGuard(w)
    PROVE  CommitInv'
<1>1. writerPc[w] = "guard" /\ writerPc[w] \in BeforeCommit \ {"idle"}
  BY DEF CommitGuard, BeforeCommit, Writing
<1>2. PICK pc \in {"staged", "notify", "commit"} : Turn(w, pc)
  BY DEF CommitGuard
<1>3. nested[w] # "edited"
  BY <1>1 DEF CommitInv, WriterInv, CommittedIsVerified
<1> QED
  BY <1>1, <1>2, <1>3, BeforeStep DEF CommitGuard

LEMMA ProgressReturnsStep ==
    ASSUME CommitInv, NEW w \in Writers, ProgressReturns(w)
    PROVE  CommitInv'
<1>1. writerPc[w] \in BeforeCommit \ {"idle"} /\ Turn(w, "again")
  BY DEF ProgressReturns, BeforeCommit, Writing
<1> QED
  BY <1>1, BeforeStep DEF ProgressReturns

LEMMA CloseStagedStep ==
    ASSUME CommitInv, NEW w \in Writers, CloseStaged(w)
    PROVE  CommitInv'
<1>1. UNCHANGED <<platform, destination, beside, target, nested, retiree, removed, replacedBy,
                  outside, failures>>
  BY DEF CloseStaged, fixed, trees
<1>2. Turn(w, "abandon") /\ writerPc[w] = "staged"
  BY DEF CloseStaged, Writing
<1>3. CommitTypeOK' /\ OnlyWriter(w)
  BY <1>1, <1>2, PlainStep DEF CommitInv, CommitTypeOK, WriterPcs, BeforeCommit
<1>4. writerPc'[w] = "abandon"
  BY <1>2, TurnsOne DEF CommitInv, WriterPcs
<1>5. WriterInv(w) /\ (AloneAtWork(w)' => AloneAtWork(w))
  BY <1>3, AloneBefore DEF CommitInv
<1>6. StagedIsOwn(w)' /\ ReplacedIsTarget(w)' /\ CommittedIsVerified(w)' /\ RemovedIsKnown(w)'
  BY <1>1, <1>2, <1>4, <1>5
     DEF WriterInv, StagedIsOwn, ReplacedIsTarget, CommittedIsVerified, RemovedIsKnown, Staging,
         Own, Fresh, BeforeCommit, Installing, RollingBack, Swapping
<1>7. AloneKeepsTarget(w)'
  BY <1>1, <1>2, <1>4, <1>5 DEF WriterInv, AloneKeepsTarget, BeforeCommit, RollingBack
<1> QED
  BY <1>3, <1>6, <1>7, WriterStep DEF WriterInv

-----------------------------------------------------------------------------
(* The commit *)

Ongoing == Installing \cup RollingBack \cup Swapping \cup {"commit"}
AfterCommit == Installing \cup RollingBack \cup Swapping \cup {"abandon"}

\* A step of the commit that changes the destination, the siblings of w, or none.
LEMMA CommitStep ==
    ASSUME CommitInv, NEW w \in Writers, NEW pc \in AfterCommit, Turn(w, pc),
           writerPc[w] \in Ongoing,
           UNCHANGED <<fixed, retiree, removed, replacedBy>>,
           destination' \in RevisedTrees \cup {Absent},
           beside' \in [Writers -> [Sides -> RevisedTrees \cup {Absent}]],
           \A v \in Writers \ {w} : beside'[v] = beside[v],
           failures' \in 0..MaxFailures,
           pc \in Installing \cup RollingBack => Staging(w)' = Own(w),
           pc = "abandon" => Staging(w)' \in {Own(w), Absent},
           pc \in Installing => target[w] = Absent \/ Recovery(w)' = target[w],
           AloneAtWork(w) => AloneKeepsTarget(w)'
    PROVE  CommitInv'
<1>1. UNCHANGED <<platform, target, nested, retiree, removed, replacedBy, outside>>
  BY DEF fixed
<1>2. pc \in WriterPcs /\ pc \notin BeforeCommit /\ pc \notin {"cleanup", "done", "failed"}
  BY DEF AfterCommit, Installing, RollingBack, Swapping, WriterPcs, BeforeCommit
<1>3. /\ writerPc' \in [Writers -> WriterPcs]
      /\ writerPc'[w] = pc
      /\ \A v \in Writers \ {w} : writerPc'[v] = writerPc[v]
  BY <1>2, TurnsOne DEF CommitInv
<1>4. CommitTypeOK'
  BY <1>1, <1>3 DEF CommitInv, CommitTypeOK
<1>5. OnlyWriter(w)
  BY <1>1, <1>2, <1>3 DEF OnlyWriter
<1>6. WriterInv(w)
  BY DEF CommitInv
<1>7. Own(w)' = Own(w)
  BY DEF Own, Fresh
<1>8. StagedIsOwn(w)'
  BY <1>2, <1>3, <1>7 DEF StagedIsOwn, BeforeCommit
<1>9. ReplacedIsTarget(w)'
  BY <1>1, <1>2, <1>3 DEF ReplacedIsTarget
<1>10. CommittedIsVerified(w)'
  <2>1. nested[w] # "edited"
    BY <1>6 DEF WriterInv, CommittedIsVerified, Ongoing
  <2> QED
    BY <1>1, <2>1 DEF CommittedIsVerified
<1>11. RemovedIsKnown(w)'
  BY <1>1, <1>2, <1>3, <1>6, <1>7 DEF WriterInv, RemovedIsKnown, BeforeCommit
<1>12. AloneKeepsTarget(w)'
  BY <1>5, AloneBefore DEF AloneKeepsTarget
<1> QED
  BY <1>4, <1>5, <1>8, <1>9, <1>10, <1>11, <1>12, WriterStep DEF WriterInv

\* What w has to show of its place, one fact per place.
LEMMA KeepsTarget ==
    ASSUME NEW w \in Writers, NEW pc \in AfterCommit, writerPc'[w] = pc,
           UNCHANGED <<target, platform>>,
           pc = "swappedback" => destination' = target[w],
           pc \in {"swapped", "swapback"} => Staging(w)' = target[w],
           pc \in RollingBack => destination' = Absent /\ Recovery(w)' = target[w],
           pc = "mkdir" => destination' = Absent,
           pc = "rmdir" => destination' = Fresh(EmptyTree),
           pc \in {"install", "sentinel"} =>
               \/ destination' = Absent
               \/ platform # "windows" /\ destination' = Fresh(EmptyTree),
           pc = "abandon" => destination' = target[w] \/ Recovery(w)' = target[w]
    PROVE  AloneKeepsTarget(w)'
BY DEF AloneKeepsTarget, AfterCommit, BeforeCommit, Installing, RollingBack, Swapping, Fresh

\* Every sibling and the destination hold a tree or nothing.
LEMMA PlacesHoldTrees ==
    ASSUME CommitInv, NEW w \in Writers
    PROVE  /\ destination \in RevisedTrees \cup {Absent}
           /\ \A s \in Sides : beside[w][s] \in RevisedTrees \cup {Absent}
           /\ beside \in [Writers -> [Sides -> RevisedTrees \cup {Absent}]]
           /\ failures \in 0..MaxFailures
BY DEF CommitInv, CommitTypeOK

LEMMA BeginCommitStep ==
    ASSUME CommitInv, NEW w \in Writers, BeginCommit(w)
    PROVE  CommitInv'
<1>1. /\ writerPc[w] = "commit"
      /\ UNCHANGED <<fixed, retiree, removed, replacedBy, failures>>
      /\ UNCHANGED <<target, platform>>
  BY DEF BeginCommit, Writing, fixed
<1>2. Staging(w) = Own(w) /\ (AloneAtWork(w) => destination = target[w])
  BY <1>1 DEF CommitInv, WriterInv, StagedIsOwn, AloneKeepsTarget, BeforeCommit
<1>3. CASE target[w] = Absent
  <2>1. Turn(w, "mkdir") /\ UNCHANGED <<destination, beside>>
    BY <1>3 DEF BeginCommit
  <2>2. writerPc'[w] = "mkdir"
    BY <2>1, TurnsOne DEF CommitInv, WriterPcs
  <2>3. AloneAtWork(w) => AloneKeepsTarget(w)'
    BY <1>1, <1>2, <1>3, <2>1, <2>2, KeepsTarget
       DEF AfterCommit, Installing, RollingBack
  <2>4. Staging(w)' = Own(w)
    BY <1>2, <2>1 DEF Staging, Own, Fresh
  <2> QED
    BY <1>1, <1>3, <2>1, <2>3, <2>4, CommitStep, PlacesHoldTrees
       DEF AfterCommit, Installing, RollingBack, Ongoing
<1>4. CASE target[w] # Absent /\ destination = Absent
  <2>1. Turn(w, "abandon") /\ UNCHANGED <<destination, beside>>
    BY <1>4 DEF BeginCommit
  <2>2. writerPc'[w] = "abandon"
    BY <2>1, TurnsOne DEF CommitInv, WriterPcs
  <2>3. ~AloneAtWork(w)
    BY <1>2, <1>4
  <2>4. Staging(w)' = Own(w)
    BY <1>2, <2>1 DEF Staging, Own, Fresh
  <2> QED
    BY <1>1, <2>1, <2>3, <2>4, CommitStep, PlacesHoldTrees
       DEF AfterCommit, Installing, RollingBack, Ongoing
<1>5. CASE target[w] # Absent /\ destination # Absent /\ platform = "exchange"
  <2>1. /\ Turn(w, "swapped") /\ destination' = beside[w]["staging"]
        /\ Sibling(w, "staging", destination)
    BY <1>5 DEF BeginCommit
  <2>2. writerPc'[w] = "swapped"
    BY <2>1, TurnsOne DEF CommitInv, WriterPcs
  <2>3. /\ beside' \in [Writers -> [Sides -> RevisedTrees \cup {Absent}]]
        /\ Staging(w)' = destination
        /\ \A v \in Writers \ {w} : beside'[v] = beside[v]
    BY <2>1, SiblingOne, PlacesHoldTrees DEF CommitInv, Sides, Staging
  <2>4. AloneAtWork(w) => AloneKeepsTarget(w)'
    BY <1>1, <1>2, <2>2, <2>3, KeepsTarget
       DEF AfterCommit, Installing, RollingBack, Swapping
  <2>5. destination' \in RevisedTrees \cup {Absent}
    BY <2>1, PlacesHoldTrees DEF Sides
  <2> QED
    BY <1>1, <2>1, <2>3, <2>4, <2>5, CommitStep, PlacesHoldTrees
       DEF AfterCommit, Installing, RollingBack, Swapping, Ongoing
<1>6. CASE target[w] # Absent /\ destination # Absent /\ platform # "exchange"
  <2>1. /\ Turn(w, "moved") /\ destination' = Absent
        /\ Sibling(w, "recovery", destination)
    BY <1>6 DEF BeginCommit
  <2>2. writerPc'[w] = "moved"
    BY <2>1, TurnsOne DEF CommitInv, WriterPcs
  <2>3. /\ beside' \in [Writers -> [Sides -> RevisedTrees \cup {Absent}]]
        /\ Recovery(w)' = destination
        /\ Staging(w)' = Staging(w)
        /\ \A v \in Writers \ {w} : beside'[v] = beside[v]
    BY <2>1, SiblingOne, PlacesHoldTrees DEF CommitInv, Sides, Staging, Recovery
  <2>4. AloneAtWork(w) => AloneKeepsTarget(w)'
    BY <1>1, <1>2, <2>1, <2>2, <2>3, KeepsTarget
       DEF AfterCommit, Installing, RollingBack, Swapping
  <2> QED
    BY <1>1, <1>2, <2>1, <2>3, <2>4, CommitStep, PlacesHoldTrees
       DEF AfterCommit, Installing, RollingBack, Swapping, Ongoing
<1> QED
  BY <1>3, <1>4, <1>5, <1>6

\* Where a failure of _commit_absent leads, with the destination as it was found.
LEMMA CommitAbsentFailsStep ==
    ASSUME CommitInv, NEW w \in Writers, CommitAbsentFails(w), writerPc[w] \in Installing,
           UNCHANGED <<fixed, beside, retiree, removed, replacedBy, failures>>,
           destination' \in RevisedTrees \cup {Absent},
           AloneAtWork(w) => destination' = Absent
    PROVE  CommitInv'
<1>1. Staging(w)' = Own(w) /\ (target[w] = Absent \/ Recovery(w)' = target[w])
  BY DEF CommitInv, WriterInv, StagedIsOwn, ReplacedIsTarget, Staging, Recovery, Installing
<1>2. UNCHANGED <<target, platform>> /\ writerPc[w] \in Ongoing
  BY DEF fixed, Ongoing
<1>3. CASE target[w] = Absent
  <2>1. Turn(w, "abandon")
    BY <1>3 DEF CommitAbsentFails
  <2>2. writerPc'[w] = "abandon"
    BY <2>1, TurnsOne DEF CommitInv, WriterPcs
  <2>3. AloneAtWork(w) => AloneKeepsTarget(w)'
    BY <1>2, <1>3, <2>2, KeepsTarget DEF AfterCommit, RollingBack
  <2> QED
    BY <1>1, <1>2, <2>1, <2>3, CommitStep, PlacesHoldTrees
       DEF AfterCommit, Installing, RollingBack, Ongoing
<1>4. CASE target[w] # Absent
  <2>1. Turn(w, "restore")
    BY <1>4 DEF CommitAbsentFails
  <2>2. writerPc'[w] = "restore"
    BY <2>1, TurnsOne DEF CommitInv, WriterPcs
  <2>3. AloneAtWork(w) => AloneKeepsTarget(w)'
    BY <1>1, <1>2, <1>4, <2>2, KeepsTarget DEF AfterCommit, RollingBack
  <2> QED
    BY <1>1, <1>2, <2>1, <2>3, CommitStep, PlacesHoldTrees
       DEF AfterCommit, Installing, RollingBack, Ongoing
<1> QED
  BY <1>3, <1>4

LEMMA MakeSentinelStep ==
    ASSUME CommitInv, NEW w \in Writers, MakeSentinel(w)
    PROVE  CommitInv'
<1>1. /\ writerPc[w] = "mkdir"
      /\ UNCHANGED <<fixed, beside, retiree, removed, replacedBy, failures>>
      /\ UNCHANGED <<target, platform>>
  BY DEF MakeSentinel, Writing, fixed
<1>2. AloneAtWork(w) => destination = Absent
  BY <1>1 DEF CommitInv, WriterInv, AloneKeepsTarget
<1>3. Staging(w)' = Own(w) /\ (target[w] = Absent \/ Recovery(w)' = target[w])
  BY <1>1 DEF CommitInv, WriterInv, StagedIsOwn, ReplacedIsTarget, Staging, Recovery, Installing
<1>4. CASE destination = Absent
  <2>1. /\ destination' = Fresh(EmptyTree)
        /\ Turn(w, IF platform = "windows" THEN "rmdir" ELSE "install")
    BY <1>4 DEF MakeSentinel
  <2>2. PICK pc \in {"rmdir", "install"} :
            Turn(w, pc) /\ (pc = "install" => platform # "windows")
    BY <2>1
  <2>3. writerPc'[w] = pc
    BY <2>2, TurnsOne DEF CommitInv, WriterPcs
  <2>4. AloneAtWork(w) => AloneKeepsTarget(w)'
    BY <1>1, <2>1, <2>2, <2>3, KeepsTarget DEF AfterCommit, Installing, RollingBack
  <2> QED
    BY <1>1, <1>3, <2>1, <2>2, <2>4, CommitStep, PlacesHoldTrees, TreeTypes
       DEF AfterCommit, Installing, RollingBack, Ongoing
<1>5. CASE destination # Absent
  <2>1. CommitAbsentFails(w) /\ destination' = destination
    BY <1>5 DEF MakeSentinel
  <2> QED
    BY <1>1, <1>2, <1>5, <2>1, CommitAbsentFailsStep, PlacesHoldTrees DEF Installing
<1> QED
  BY <1>4, <1>5

LEMMA RemoveSentinelStep ==
    ASSUME CommitInv, NEW w \in Writers, RemoveSentinel(w)
    PROVE  CommitInv'
<1>1. /\ writerPc[w] = "rmdir"
      /\ UNCHANGED <<fixed, beside, retiree, removed, replacedBy, failures>>
      /\ UNCHANGED <<target, platform>>
  BY DEF RemoveSentinel, Writing, fixed
<1>2. AloneAtWork(w) => destination = Fresh(EmptyTree)
  BY <1>1 DEF CommitInv, WriterInv, AloneKeepsTarget
<1>3. Staging(w)' = Own(w) /\ (target[w] = Absent \/ Recovery(w)' = target[w])
  BY <1>1 DEF CommitInv, WriterInv, StagedIsOwn, ReplacedIsTarget, Staging, Recovery, Installing
<1>4. CASE destination = Fresh(EmptyTree)
  <2>1. destination' = Absent /\ Turn(w, "install")
    BY <1>4 DEF RemoveSentinel
  <2>2. writerPc'[w] = "install"
    BY <2>1, TurnsOne DEF CommitInv, WriterPcs
  <2>3. AloneAtWork(w) => AloneKeepsTarget(w)'
    BY <1>1, <2>1, <2>2, KeepsTarget DEF AfterCommit, Installing, RollingBack
  <2> QED
    BY <1>1, <1>3, <2>1, <2>3, CommitStep, PlacesHoldTrees
       DEF AfterCommit, Installing, RollingBack, Ongoing
<1>5. CASE destination # Fresh(EmptyTree)
  <2>1. CommitAbsentFails(w) /\ destination' = destination
    BY <1>5 DEF RemoveSentinel
  <2> QED
    BY <1>1, <1>2, <1>5, <2>1, CommitAbsentFailsStep, PlacesHoldTrees DEF Installing
<1> QED
  BY <1>4, <1>5

\* The step from the place where the staged tree is renamed to its removal again.
LEMMA ToSentinelStep ==
    ASSUME CommitInv, NEW w \in Writers, Turn(w, "sentinel"), writerPc[w] = "install",
           UNCHANGED <<fixed, destination, beside, retiree, removed, replacedBy>>,
           failures' \in 0..MaxFailures
    PROVE  CommitInv'
<1>1. UNCHANGED <<target, platform>>
  BY DEF fixed
<1>2. Staging(w)' = Own(w) /\ (target[w] = Absent \/ Recovery(w)' = target[w])
  BY DEF CommitInv, WriterInv, StagedIsOwn, ReplacedIsTarget, Staging, Recovery, Installing
<1>3. writerPc'[w] = "sentinel"
  BY TurnsOne DEF CommitInv, WriterPcs
<1>4. AloneAtWork(w) => \/ destination = Absent
                        \/ platform # "windows" /\ destination = Fresh(EmptyTree)
  BY DEF CommitInv, WriterInv, AloneKeepsTarget
<1>5. AloneAtWork(w) => AloneKeepsTarget(w)'
  BY <1>1, <1>3, <1>4, KeepsTarget DEF AfterCommit, Installing, RollingBack
<1> QED
  BY <1>2, <1>5, CommitStep, PlacesHoldTrees
     DEF AfterCommit, Installing, RollingBack, Ongoing

LEMMA InstallFailedStep ==
    ASSUME CommitInv, NEW w \in Writers, InstallFailed(w)
    PROVE  CommitInv'
<1>1. writerPc[w] = "install" /\ Turn(w, "sentinel") /\ failures' \in 0..MaxFailures
  BY FailType DEF InstallFailed, Writing, CommitInv
<1> QED
  BY <1>1, ToSentinelStep DEF InstallFailed

\* The end of a commit that succeeds.
LEMMA SucceedsStep ==
    ASSUME CommitInv, NEW w \in Writers, Turn(w, "cleanup"), writerPc[w] \in Ongoing,
           UNCHANGED <<fixed, removed, failures>>,
           destination' \in RevisedTrees \cup {Absent},
           beside' \in [Writers -> [Sides -> RevisedTrees \cup {Absent}]],
           \A v \in Writers \ {w} : beside'[v] = beside[v],
           NEW side \in Sides \cup {"none"}, retiree' = [retiree EXCEPT ![w] = side],
           replacedBy' = [replacedBy EXCEPT ![w] = target[w]],
           side # "none" => beside'[w][side] = target[w]
    PROVE  CommitInv'
<1>1. UNCHANGED <<platform, target, nested, removed, outside, failures>>
  BY DEF fixed
<1>2. /\ writerPc' \in [Writers -> WriterPcs]
      /\ writerPc'[w] = "cleanup"
      /\ \A v \in Writers \ {w} : writerPc'[v] = writerPc[v]
  BY TurnsOne DEF CommitInv, WriterPcs
<1>3. /\ retiree' \in [Writers -> Sides \cup {"none"}] /\ retiree'[w] = side
      /\ \A v \in Writers \ {w} : retiree'[v] = retiree[v]
  BY DEF CommitInv, CommitTypeOK
<1>4. /\ replacedBy' \in [Writers -> RevisedTrees \cup {Absent}]
      /\ replacedBy'[w] = target[w]
      /\ \A v \in Writers \ {w} : replacedBy'[v] = replacedBy[v]
  BY DEF CommitInv, CommitTypeOK
<1>5. CommitTypeOK'
  BY <1>1, <1>2, <1>3, <1>4 DEF CommitInv, CommitTypeOK
<1>6. OnlyWriter(w)
  BY <1>1, <1>2, <1>3, <1>4 DEF OnlyWriter, BeforeCommit
<1>7. nested[w] # "edited"
  BY DEF CommitInv, WriterInv, CommittedIsVerified, Ongoing
<1>8. RemovedIsKnown(w)'
  BY <1>1, <1>2 DEF CommitInv, WriterInv, RemovedIsKnown, Own, Fresh
<1>9. WriterInv(w)'
  BY <1>1, <1>2, <1>3, <1>4, <1>7, <1>8
     DEF WriterInv, StagedIsOwn, ReplacedIsTarget, CommittedIsVerified, AloneKeepsTarget,
         BeforeCommit, Installing, RollingBack, Swapping
<1> QED
  BY <1>5, <1>6, <1>9, WriterStep

LEMMA DropSentinelStep ==
    ASSUME CommitInv, NEW w \in Writers, DropSentinel(w)
    PROVE  CommitInv'
<1>1. /\ writerPc[w] = "sentinel" /\ CommitAbsentFails(w)
      /\ UNCHANGED <<fixed, beside, retiree, removed, replacedBy, failures>>
      /\ destination' = IF platform # "windows" /\ destination = Fresh(EmptyTree) THEN Absent
                        ELSE destination
  BY DEF DropSentinel, Writing
<1>2. AloneAtWork(w) => \/ destination = Absent
                        \/ platform # "windows" /\ destination = Fresh(EmptyTree)
  BY <1>1 DEF CommitInv, WriterInv, AloneKeepsTarget
<1>3. AloneAtWork(w) => destination' = Absent
  BY <1>1, <1>2
<1>4. destination' \in RevisedTrees \cup {Absent}
  BY <1>1, PlacesHoldTrees
<1> QED
  BY <1>1, <1>3, <1>4, CommitAbsentFailsStep DEF Installing

LEMMA InstallStagedStep ==
    ASSUME CommitInv, NEW w \in Writers, InstallStaged(w)
    PROVE  CommitInv'
<1>1. writerPc[w] = "install" /\ UNCHANGED <<fixed, failures>>
  BY DEF InstallStaged, Writing
<1>2. Staging(w) = Own(w) /\ (target[w] = Absent \/ Recovery(w) = target[w])
  BY <1>1 DEF CommitInv, WriterInv, StagedIsOwn, ReplacedIsTarget, Installing
<1>3. CASE ~Renameable
  BY <1>1, <1>3, ToSentinelStep, PlacesHoldTrees DEF InstallStaged
<1>4. CASE Renameable
  <2>1. /\ destination' = beside[w]["staging"]
        /\ Sibling(w, "staging", Absent)
        /\ retiree' = [retiree EXCEPT ![w] = IF target[w] = Absent THEN "none" ELSE "recovery"]
        /\ replacedBy' = [replacedBy EXCEPT ![w] = target[w]]
        /\ Turn(w, "cleanup")
        /\ Removing(w, {destination} \ {Fresh(EmptyTree)})
    BY <1>4 DEF InstallStaged
  <2>2. ({destination} \ {Fresh(EmptyTree)}) \ {Absent} = {}
    BY <1>4 DEF Renameable
  <2>3. removed' = removed
    BY <2>1, <2>2 DEF Removing
  <2>4. PICK side \in {"none", "recovery"} :
            /\ retiree' = [retiree EXCEPT ![w] = side]
            /\ side # "none" => target[w] # Absent
    BY <2>1
  <2>5. /\ beside' \in [Writers -> [Sides -> RevisedTrees \cup {Absent}]]
        /\ beside'[w]["recovery"] = beside[w]["recovery"]
        /\ \A v \in Writers \ {w} : beside'[v] = beside[v]
    BY <2>1, SiblingOne DEF CommitInv, Sides
  <2>6. side # "none" => beside'[w][side] = target[w]
    BY <1>2, <2>4, <2>5 DEF Recovery
  <2>7. destination' \in RevisedTrees \cup {Absent}
    BY <2>1, PlacesHoldTrees DEF Sides
  <2>8. side \in Sides \cup {"none"} /\ writerPc[w] \in Ongoing
    BY <1>1 DEF Sides, Ongoing, Installing
  <2> QED
    BY <1>1, <2>1, <2>3, <2>4, <2>5, <2>6, <2>7, <2>8, SucceedsStep
<1> QED
  BY <1>3, <1>4

-----------------------------------------------------------------------------
(* The exchange of the two directories *)

LEMMA CompareSwappedStep ==
    ASSUME CommitInv, NEW w \in Writers, CompareSwapped(w)
    PROVE  CommitInv'
<1>1. /\ writerPc[w] = "swapped" /\ writerPc[w] \in Ongoing
      /\ UNCHANGED <<fixed, destination, beside, removed, failures>>
      /\ UNCHANGED <<target, platform>>
  BY DEF CompareSwapped, Writing, fixed, Ongoing, Swapping
<1>2. CASE AsExpected(w, "staging")
  <2>1. /\ retiree' = [retiree EXCEPT ![w] = "staging"]
        /\ replacedBy' = [replacedBy EXCEPT ![w] = target[w]]
        /\ Turn(w, "cleanup")
        /\ beside'[w]["staging"] = target[w]
    BY <1>1, <1>2 DEF CompareSwapped, AsExpected
  <2> QED
    BY <1>1, <2>1, SucceedsStep, PlacesHoldTrees DEF Sides
<1>3. CASE ~AsExpected(w, "staging")
  <2>1. Turn(w, "swapback") /\ UNCHANGED <<retiree, replacedBy>>
    BY <1>3 DEF CompareSwapped
  <2>2. ~AloneAtWork(w)
    BY <1>1, <1>3 DEF CommitInv, WriterInv, AloneKeepsTarget, AsExpected, Staging
  <2> QED
    BY <1>1, <2>1, <2>2, CommitStep, PlacesHoldTrees
       DEF AfterCommit, Installing, RollingBack, Swapping
<1> QED
  BY <1>2, <1>3

LEMMA CompareFailsStep ==
    ASSUME CommitInv, NEW w \in Writers, CompareFails(w)
    PROVE  CommitInv'
<1>1. /\ writerPc[w] = "swapped" /\ writerPc[w] \in Ongoing
      /\ Turn(w, "swapback")
      /\ UNCHANGED <<fixed, destination, beside, retiree, removed, replacedBy>>
      /\ UNCHANGED <<target, platform>>
  BY DEF CompareFails, Writing, fixed, Ongoing, Swapping
<1>2. failures' \in 0..MaxFailures
  BY FailType DEF CommitInv, CompareFails
<1>3. AloneAtWork(w) => Staging(w)' = target[w]
  BY <1>1 DEF CommitInv, WriterInv, AloneKeepsTarget, Staging
<1>4. writerPc'[w] = "swapback"
  BY <1>1, TurnsOne DEF CommitInv, WriterPcs
<1>5. AloneAtWork(w) => AloneKeepsTarget(w)'
  BY <1>1, <1>3, <1>4, KeepsTarget DEF AfterCommit, RollingBack, Swapping
<1> QED
  BY <1>1, <1>2, <1>5, CommitStep, PlacesHoldTrees
     DEF AfterCommit, Installing, RollingBack, Swapping

LEMMA SwapBackStep ==
    ASSUME CommitInv, NEW w \in Writers, SwapBack(w)
    PROVE  CommitInv'
<1>1. /\ writerPc[w] = "swapback" /\ writerPc[w] \in Ongoing
      /\ Turn(w, "swappedback")
      /\ destination' = Staging(w)
      /\ Sibling(w, "staging", destination)
      /\ UNCHANGED <<fixed, retiree, removed, replacedBy, failures>>
      /\ UNCHANGED <<target, platform>>
  BY DEF SwapBack, Writing, fixed, Ongoing, Swapping, Staging
<1>2. /\ beside' \in [Writers -> [Sides -> RevisedTrees \cup {Absent}]]
      /\ \A v \in Writers \ {w} : beside'[v] = beside[v]
  BY <1>1, SiblingOne, PlacesHoldTrees DEF CommitInv, Sides
<1>3. AloneAtWork(w) => destination' = target[w]
  BY <1>1 DEF CommitInv, WriterInv, AloneKeepsTarget
<1>4. writerPc'[w] = "swappedback" /\ destination' \in RevisedTrees \cup {Absent}
  BY <1>1, TurnsOne, PlacesHoldTrees DEF CommitInv, WriterPcs, Staging, Sides
<1>5. AloneAtWork(w) => AloneKeepsTarget(w)'
  BY <1>1, <1>3, <1>4, KeepsTarget DEF AfterCommit, RollingBack, Swapping
<1> QED
  BY <1>1, <1>2, <1>4, <1>5, CommitStep, PlacesHoldTrees
     DEF AfterCommit, Installing, RollingBack, Swapping

LEMMA SwapBackFailsStep ==
    ASSUME CommitInv, NEW w \in Writers, SwapBackFails(w)
    PROVE  CommitInv'
<1>1. /\ writerPc[w] = "swapback" /\ writerPc[w] \in Ongoing
      /\ Turn(w, "abandon")
      /\ UNCHANGED <<fixed, destination, retiree, removed, replacedBy>>
      /\ UNCHANGED <<target, platform>>
  BY DEF SwapBackFails, Writing, fixed, Ongoing, Swapping
<1>2. failures' \in 0..MaxFailures
  BY FailType, PlacesHoldTrees DEF CommitInv, SwapBackFails
<1>3. [beside[w] EXCEPT !["recovery"] = beside[w]["staging"], !["staging"] = Absent]
          \in [Sides -> RevisedTrees \cup {Absent}]
  BY PlacesHoldTrees DEF Sides
<1>4. beside' = [beside EXCEPT ![w] =
          [beside[w] EXCEPT !["recovery"] = beside[w]["staging"], !["staging"] = Absent]]
  BY PlacesHoldTrees DEF SwapBackFails
<1>5. /\ beside' \in [Writers -> [Sides -> RevisedTrees \cup {Absent}]]
      /\ \A v \in Writers \ {w} : beside'[v] = beside[v]
      /\ Recovery(w)' = Staging(w) /\ Staging(w)' = Absent
  BY <1>3, <1>4, PlacesHoldTrees DEF Recovery, Staging, Sides
<1>6. AloneAtWork(w) => Recovery(w)' = target[w]
  BY <1>1, <1>5 DEF CommitInv, WriterInv, AloneKeepsTarget
<1>7. writerPc'[w] = "abandon"
  BY <1>1, TurnsOne DEF CommitInv, WriterPcs
<1>8. AloneAtWork(w) => AloneKeepsTarget(w)'
  BY <1>1, <1>6, <1>7, KeepsTarget DEF AfterCommit, RollingBack
<1> QED
  BY <1>1, <1>2, <1>5, <1>8, CommitStep, PlacesHoldTrees
     DEF AfterCommit, Installing, RollingBack, Swapping

LEMMA CheckDisplacedStep ==
    ASSUME CommitInv, NEW w \in Writers, CheckDisplaced(w)
    PROVE  CommitInv'
<1>1. /\ writerPc[w] = "swappedback" /\ writerPc[w] \in Ongoing
      /\ Turn(w, "abandon")
      /\ UNCHANGED <<fixed, destination, retiree, removed, replacedBy, failures>>
      /\ UNCHANGED <<target, platform>>
  BY DEF CheckDisplaced, Writing, fixed, Ongoing, Swapping
<1>2. /\ beside' \in [Writers -> [Sides -> RevisedTrees \cup {Absent}]]
      /\ \A v \in Writers \ {w} : beside'[v] = beside[v]
      /\ Staging(w)' \in {Own(w), Absent}
  <2>1. CASE beside[w]["staging"] = Fresh(OwnTree[w])
    BY <2>1, PlacesHoldTrees DEF CheckDisplaced, Staging, Own
  <2>2. CASE beside[w]["staging"] # Fresh(OwnTree[w])
    <3>1. [beside[w] EXCEPT !["interrupted"] = beside[w]["staging"], !["staging"] = Absent]
              \in [Sides -> RevisedTrees \cup {Absent}]
      BY PlacesHoldTrees DEF Sides
    <3>2. beside' = [beside EXCEPT ![w] =
              [beside[w] EXCEPT !["interrupted"] = beside[w]["staging"], !["staging"] = Absent]]
      BY <2>2, PlacesHoldTrees DEF CheckDisplaced
    <3> QED
      BY <3>1, <3>2, PlacesHoldTrees DEF Staging, Sides
  <2> QED
    BY <2>1, <2>2
<1>3. AloneAtWork(w) => destination' = target[w]
  BY <1>1 DEF CommitInv, WriterInv, AloneKeepsTarget
<1>4. writerPc'[w] = "abandon"
  BY <1>1, TurnsOne DEF CommitInv, WriterPcs
<1>5. AloneAtWork(w) => AloneKeepsTarget(w)'
  BY <1>1, <1>3, <1>4, KeepsTarget DEF AfterCommit, RollingBack
<1> QED
  BY <1>1, <1>2, <1>5, CommitStep, PlacesHoldTrees
     DEF AfterCommit, Installing, RollingBack, Swapping

-----------------------------------------------------------------------------
(* The two renames, and what a failure of them brings back *)

LEMMA CompareMovedStep ==
    ASSUME CommitInv, NEW w \in Writers, CompareMoved(w)
    PROVE  CommitInv'
<1>1. /\ writerPc[w] = "moved" /\ writerPc[w] \in Ongoing
      /\ UNCHANGED <<fixed, destination, beside, retiree, removed, replacedBy, failures>>
      /\ UNCHANGED <<target, platform>>
  BY DEF CompareMoved, Writing, fixed, Ongoing, RollingBack
<1>2. Staging(w)' = Own(w) /\ Recovery(w)' = Recovery(w)
  BY <1>1 DEF CommitInv, WriterInv, StagedIsOwn, Staging, Recovery, RollingBack
<1>3. AloneAtWork(w) => destination = Absent /\ Recovery(w) = target[w]
  BY <1>1 DEF CommitInv, WriterInv, AloneKeepsTarget, RollingBack
<1>4. PICK pc \in {"mkdir", "restore"} :
          Turn(w, pc) /\ (pc = "mkdir" => Recovery(w) = target[w])
  BY DEF CompareMoved, AsExpected, Recovery
<1>5. writerPc'[w] = pc
  BY <1>4, TurnsOne DEF CommitInv, WriterPcs
<1>6. AloneAtWork(w) => AloneKeepsTarget(w)'
  BY <1>1, <1>2, <1>3, <1>5, KeepsTarget DEF AfterCommit, Installing, RollingBack
<1> QED
  BY <1>1, <1>2, <1>4, <1>6, CommitStep, PlacesHoldTrees
     DEF AfterCommit, Installing, RollingBack

LEMMA RestoreBeginsStep ==
    ASSUME CommitInv, NEW w \in Writers, RestoreBegins(w)
    PROVE  CommitInv'
<1>1. /\ writerPc[w] = "restore" /\ writerPc[w] \in Ongoing
      /\ Turn(w, "putback")
      /\ UNCHANGED <<fixed, retiree, removed, replacedBy, failures>>
      /\ UNCHANGED <<target, platform>>
  BY DEF RestoreBegins, Writing, fixed, Ongoing, RollingBack
<1>2. Staging(w) = Own(w) /\ (AloneAtWork(w) => Recovery(w) = target[w])
  BY <1>1 DEF CommitInv, WriterInv, StagedIsOwn, AloneKeepsTarget, RollingBack
<1>3. /\ beside' \in [Writers -> [Sides -> RevisedTrees \cup {Absent}]]
      /\ \A v \in Writers \ {w} : beside'[v] = beside[v]
      /\ Staging(w)' = Staging(w) /\ Recovery(w)' = Recovery(w)
      /\ destination' = Absent
  <2>1. CASE destination = Absent
    BY <2>1, PlacesHoldTrees DEF RestoreBegins, Staging, Recovery
  <2>2. CASE destination # Absent
    <3>1. Sibling(w, "interrupted", destination) /\ destination' = Absent
      BY <2>2 DEF RestoreBegins
    <3> QED
      BY <3>1, SiblingOne, PlacesHoldTrees DEF CommitInv, Sides, Staging, Recovery
  <2> QED
    BY <2>1, <2>2
<1>4. writerPc'[w] = "putback"
  BY <1>1, TurnsOne DEF CommitInv, WriterPcs
<1>5. AloneAtWork(w) => AloneKeepsTarget(w)'
  BY <1>1, <1>2, <1>3, <1>4, KeepsTarget DEF AfterCommit, RollingBack
<1> QED
  BY <1>1, <1>2, <1>3, <1>5, CommitStep, PlacesHoldTrees
     DEF AfterCommit, Installing, RollingBack

LEMMA PutBackStep ==
    ASSUME CommitInv, NEW w \in Writers, PutBack(w)
    PROVE  CommitInv'
<1>1. /\ writerPc[w] = "putback" /\ writerPc[w] \in Ongoing
      /\ Turn(w, "abandon")
      /\ destination' = Recovery(w)
      /\ Sibling(w, "recovery", Absent)
      /\ UNCHANGED <<fixed, retiree, removed, replacedBy, failures>>
      /\ UNCHANGED <<target, platform>>
  BY DEF PutBack, Writing, fixed, Ongoing, RollingBack, Recovery
<1>2. Staging(w) = Own(w) /\ (AloneAtWork(w) => destination' = target[w])
  BY <1>1 DEF CommitInv, WriterInv, StagedIsOwn, AloneKeepsTarget, RollingBack
<1>3. /\ beside' \in [Writers -> [Sides -> RevisedTrees \cup {Absent}]]
      /\ \A v \in Writers \ {w} : beside'[v] = beside[v]
      /\ Staging(w)' = Staging(w)
  BY <1>1, SiblingOne DEF CommitInv, Sides, Staging
<1>4. writerPc'[w] = "abandon" /\ destination' \in RevisedTrees \cup {Absent}
  BY <1>1, TurnsOne, PlacesHoldTrees DEF CommitInv, WriterPcs, Recovery, Sides
<1>5. AloneAtWork(w) => AloneKeepsTarget(w)'
  BY <1>1, <1>2, <1>4, KeepsTarget DEF AfterCommit, RollingBack
<1> QED
  BY <1>1, <1>2, <1>3, <1>4, <1>5, CommitStep, PlacesHoldTrees
     DEF AfterCommit, Installing, RollingBack

LEMMA PutBackFailsStep ==
    ASSUME CommitInv, NEW w \in Writers, PutBackFails(w)
    PROVE  CommitInv'
<1>1. /\ writerPc[w] = "putback" /\ writerPc[w] \in Ongoing
      /\ Turn(w, "abandon")
      /\ UNCHANGED <<fixed, retiree, removed, replacedBy>>
      /\ UNCHANGED <<target, platform>>
  BY DEF PutBackFails, Writing, fixed, Ongoing, RollingBack
<1>2. Staging(w) = Own(w) /\ (AloneAtWork(w) => Recovery(w) = target[w])
  BY <1>1 DEF CommitInv, WriterInv, StagedIsOwn, AloneKeepsTarget, RollingBack
<1>3. failures' \in 0..MaxFailures
  BY FailType, PlacesHoldTrees DEF CommitInv, PutBackFails
<1>4. /\ beside' \in [Writers -> [Sides -> RevisedTrees \cup {Absent}]]
      /\ \A v \in Writers \ {w} : beside'[v] = beside[v]
      /\ Staging(w)' = Staging(w) /\ Recovery(w)' = Recovery(w)
      /\ destination' \in RevisedTrees \cup {Absent}
  <2>1. CASE beside[w]["interrupted"] # Absent /\ Renameable
    <3>1. Sibling(w, "interrupted", Absent) /\ destination' = beside[w]["interrupted"]
      BY <2>1 DEF PutBackFails
    <3> QED
      BY <3>1, SiblingOne, PlacesHoldTrees DEF CommitInv, Sides, Staging, Recovery
  <2>2. CASE ~(beside[w]["interrupted"] # Absent /\ Renameable)
    <3>1. UNCHANGED <<destination, beside>>
      BY <2>2 DEF PutBackFails
    <3> QED
      BY <3>1, PlacesHoldTrees DEF Staging, Recovery
  <2> QED
    BY <2>1, <2>2
<1>5. writerPc'[w] = "abandon"
  BY <1>1, TurnsOne DEF CommitInv, WriterPcs
<1>6. AloneAtWork(w) => AloneKeepsTarget(w)'
  BY <1>1, <1>2, <1>4, <1>5, KeepsTarget DEF AfterCommit, RollingBack
<1> QED
  BY <1>1, <1>2, <1>3, <1>4, <1>6, CommitStep
     DEF AfterCommit, Installing, RollingBack

-----------------------------------------------------------------------------
(* The end of a commit *)

\* Only what w knows is deleted.
LEMMA RemovesKnown ==
    ASSUME CommitInv, NEW w \in Writers, writerPc'[w] # "idle", target' = target,
           NEW t \in RevisedTrees \cup {Absent}, Removing(w, {t}),
           t \in {Own(w), target[w], Absent}
    PROVE  /\ RemovedIsKnown(w)'
           /\ \A r \in removed' : r \in removed \/ r.by = w
           /\ \A r \in removed' : r.what \in RevisedTrees /\ r.by \in Writers
<1>1. removed' = removed \cup {[what |-> u, by |-> w] : u \in {t} \ {Absent}}
  BY DEF Removing
<1>2. \A r \in removed' : r \in removed \/ (r.by = w /\ r.what = t /\ t # Absent)
  BY <1>1
<1>3. \A r \in removed : r.by = w => r.what = Own(w) \/ r.what = target[w]
  BY DEF CommitInv, WriterInv, RemovedIsKnown
<1>4. \A r \in removed : r.what \in RevisedTrees /\ r.by \in Writers
  BY DEF CommitInv, CommitTypeOK
<1>5. RemovedIsKnown(w)'
  BY <1>2, <1>3 DEF RemovedIsKnown, Own, Fresh
<1> QED
  BY <1>2, <1>4, <1>5

LEMMA CleanupReplacedStep ==
    ASSUME CommitInv, NEW w \in Writers, CleanupReplaced(w)
    PROVE  CommitInv'
<1>1. /\ writerPc[w] = "cleanup" /\ Turn(w, "done")
      /\ UNCHANGED <<platform, target, nested, outside, destination, retiree, replacedBy>>
  BY DEF CleanupReplaced, Writing, fixed
<1>2. /\ writerPc' \in [Writers -> WriterPcs]
      /\ writerPc'[w] = "done"
      /\ \A v \in Writers \ {w} : writerPc'[v] = writerPc[v]
  BY <1>1, TurnsOne DEF CommitInv, WriterPcs
<1>3. /\ beside' \in [Writers -> [Sides -> RevisedTrees \cup {Absent}]]
      /\ \A v \in Writers \ {w} : beside'[v] = beside[v]
      /\ failures' \in 0..MaxFailures
      /\ RemovedIsKnown(w)'
      /\ \A r \in removed' : r \in removed \/ r.by = w
      /\ \A r \in removed' : r.what \in RevisedTrees /\ r.by \in Writers
  <2>1. CASE UNCHANGED <<beside, removed>> /\ failures' \in 0..MaxFailures
    <3>1. RemovedIsKnown(w)'
      BY <1>1, <1>2, <2>1 DEF CommitInv, WriterInv, RemovedIsKnown, Own, Fresh
    <3> QED
      BY <2>1, <3>1, PlacesHoldTrees DEF CommitInv, CommitTypeOK
  <2>2. CASE /\ retiree[w] # "none" /\ Sibling(w, retiree[w], Absent)
             /\ Removing(w, {beside[w][retiree[w]]}) /\ failures' = failures
    <3>1. retiree[w] \in Sides
      BY <2>2 DEF CommitInv, CommitTypeOK
    <3>2. beside[w][retiree[w]] = target[w]
      BY <1>1, <2>2 DEF CommitInv, WriterInv, ReplacedIsTarget
    <3>3. target[w] \in RevisedTrees \cup {Absent}
      BY DEF CommitInv, CommitTypeOK
    <3>4. Removing(w, {target[w]})
      BY <2>2, <3>2
    <3>5. /\ RemovedIsKnown(w)'
          /\ \A r \in removed' : r \in removed \/ r.by = w
          /\ \A r \in removed' : r.what \in RevisedTrees /\ r.by \in Writers
      BY <1>1, <1>2, <3>3, <3>4, RemovesKnown
    <3>6. /\ beside' \in [Writers -> [Sides -> RevisedTrees \cup {Absent}]]
          /\ \A v \in Writers \ {w} : beside'[v] = beside[v]
      BY <2>2, <3>1, SiblingOne DEF CommitInv
    <3> QED
      BY <2>2, <3>5, <3>6, PlacesHoldTrees
  <2> QED
    BY <2>1, <2>2, FailType, PlacesHoldTrees DEF CleanupReplaced, CommitInv
<1>4. CommitTypeOK'
  BY <1>1, <1>2, <1>3 DEF CommitInv, CommitTypeOK
<1>5. OnlyWriter(w)
  BY <1>1, <1>2, <1>3 DEF OnlyWriter, BeforeCommit
<1>6. nested[w] # "edited" /\ replacedBy[w] = target[w]
  BY <1>1 DEF CommitInv, WriterInv, CommittedIsVerified, ReplacedIsTarget
<1>7. WriterInv(w)'
  BY <1>1, <1>2, <1>3, <1>6
     DEF WriterInv, StagedIsOwn, ReplacedIsTarget, CommittedIsVerified, AloneKeepsTarget,
         BeforeCommit, Installing, RollingBack, Swapping
<1> QED
  BY <1>4, <1>5, <1>7, WriterStep

LEMMA DiscardStagedStep ==
    ASSUME CommitInv, NEW w \in Writers, DiscardStaged(w)
    PROVE  CommitInv'
<1>1. /\ writerPc[w] = "abandon" /\ Turn(w, "failed")
      /\ Sibling(w, "staging", Absent) /\ Removing(w, {Staging(w)})
      /\ UNCHANGED <<platform, target, nested, outside, destination, retiree, replacedBy, failures>>
  BY DEF DiscardStaged, Writing, fixed, Staging
<1>2. /\ writerPc' \in [Writers -> WriterPcs]
      /\ writerPc'[w] = "failed"
      /\ \A v \in Writers \ {w} : writerPc'[v] = writerPc[v]
  BY <1>1, TurnsOne DEF CommitInv, WriterPcs
<1>3. /\ beside' \in [Writers -> [Sides -> RevisedTrees \cup {Absent}]]
      /\ \A v \in Writers \ {w} : beside'[v] = beside[v]
      /\ Recovery(w)' = Recovery(w)
  BY <1>1, SiblingOne DEF CommitInv, Sides, Recovery
<1>4. Staging(w) \in {Own(w), Absent} /\ Staging(w) \in RevisedTrees \cup {Absent}
  BY <1>1, PlacesHoldTrees DEF CommitInv, WriterInv, StagedIsOwn, Staging, Sides
<1>5. /\ RemovedIsKnown(w)'
      /\ \A r \in removed' : r \in removed \/ r.by = w
      /\ \A r \in removed' : r.what \in RevisedTrees /\ r.by \in Writers
  BY <1>1, <1>2, <1>4, RemovesKnown
<1>6. CommitTypeOK'
  BY <1>1, <1>2, <1>3, <1>5 DEF CommitInv, CommitTypeOK
<1>7. OnlyWriter(w)
  BY <1>1, <1>2, <1>3, <1>5 DEF OnlyWriter, BeforeCommit
<1>8. AloneAtWork(w)' => destination = target[w] \/ Recovery(w) = target[w]
  BY <1>1, <1>7, AloneBefore DEF CommitInv, WriterInv, AloneKeepsTarget
<1>9. AloneKeepsTarget(w)'
  BY <1>1, <1>2, <1>3, <1>8 DEF AloneKeepsTarget, BeforeCommit, RollingBack
<1>10. WriterInv(w)'
  BY <1>2, <1>5, <1>9
     DEF WriterInv, StagedIsOwn, ReplacedIsTarget, CommittedIsVerified,
         BeforeCommit, Installing, RollingBack, Swapping
<1> QED
  BY <1>6, <1>7, <1>10, WriterStep

\* After a step of somebody else, no writer is alone.
LEMMA OtherOwnerStep ==
    ASSUME CommitInv, OtherOwner
    PROVE  CommitInv'
<1>1. UNCHANGED <<platform, beside, writerPc, target, nested, retiree, removed, replacedBy, failures>>
  BY DEF OtherOwner
<1>2. outside' \in 0..MaxOutside /\ outside' # 0 /\ outside' = outside + 1
  BY CommitAssumption DEF OtherOwner, CommitInv, CommitTypeOK, CommitAssumption
<1>3. destination' \in RevisedTrees \cup {Absent}
  <2>1. CASE destination # Absent
    <3>1. destination \in RevisedTrees
      BY <2>1, PlacesHoldTrees DEF CommitInv, CommitTypeOK
    <3>2. [destination EXCEPT !.revision = outside + 1] \in RevisedTrees
      BY <1>2, <3>1 DEF RevisedTrees
    <3> QED
      BY <2>1, <3>2 DEF OtherOwner
  <2>2. CASE destination = Absent
    BY <2>2, TreeTypes DEF OtherOwner
  <2> QED
    BY <2>1, <2>2
<1>4. CommitTypeOK'
  BY <1>1, <1>2, <1>3 DEF CommitInv, CommitTypeOK
<1>5. ASSUME NEW w \in Writers PROVE WriterInv(w)'
  <2>1. AloneKeepsTarget(w)'
    BY <1>2 DEF AloneKeepsTarget, AloneAtWork
  <2> QED
    BY <1>1, <2>1
       DEF CommitInv, WriterInv, StagedIsOwn, ReplacedIsTarget, CommittedIsVerified, RemovedIsKnown,
           Staging, Recovery, Own, Fresh
<1> QED
  BY <1>4, <1>5 DEF CommitInv

-----------------------------------------------------------------------------
(* The theorems *)

LEMMA CommitInvStep == CommitInv /\ [CommitNext]_commitVars => CommitInv'
<1> SUFFICES ASSUME CommitInv, [CommitNext]_commitVars PROVE CommitInv'
  OBVIOUS
<1>1. ASSUME NEW w \in Writers,
             \/ StageTree(w) \/ MaterializeExport(w) \/ EditStaging(w) \/ VerifyStaged(w)
             \/ CommitGuard(w) \/ ProgressReturns(w) \/ CloseStaged(w) \/ BeginCommit(w)
      PROVE  CommitInv'
  BY <1>1, StageTreeStep, NestedStep, VerifyStagedStep, CommitGuardStep, ProgressReturnsStep,
     CloseStagedStep, BeginCommitStep
<1>2. ASSUME NEW w \in Writers,
             \/ MakeSentinel(w) \/ RemoveSentinel(w) \/ InstallStaged(w) \/ InstallFailed(w)
             \/ DropSentinel(w) \/ CompareSwapped(w) \/ CompareFails(w) \/ SwapBack(w)
             \/ SwapBackFails(w) \/ CheckDisplaced(w)
      PROVE  CommitInv'
  BY <1>2, MakeSentinelStep, RemoveSentinelStep, InstallStagedStep, InstallFailedStep,
     DropSentinelStep, CompareSwappedStep, CompareFailsStep, SwapBackStep, SwapBackFailsStep,
     CheckDisplacedStep
<1>3. ASSUME NEW w \in Writers,
             \/ CompareMoved(w) \/ RestoreBegins(w) \/ PutBack(w) \/ PutBackFails(w)
             \/ CleanupReplaced(w) \/ DiscardStaged(w)
      PROVE  CommitInv'
  BY <1>3, CompareMovedStep, RestoreBeginsStep, PutBackStep, PutBackFailsStep,
     CleanupReplacedStep, DiscardStagedStep
<1>4. CASE UNCHANGED commitVars
  BY <1>4 DEF commitVars, CommitInv, CommitTypeOK, WriterInv, StagedIsOwn, ReplacedIsTarget,
              CommittedIsVerified, RemovedIsKnown, AloneKeepsTarget, AloneAtWork, Staging, Recovery,
              Own, Fresh
<1> QED
  BY <1>1, <1>2, <1>3, <1>4, OtherOwnerStep DEF CommitNext

\* Every variable of a delivery stays in its type.
THEOREM CommitTypeCorrect == CommitSpec => []CommitTypeOK
<1>1. CommitInv => CommitTypeOK
  BY DEF CommitInv
<1> QED
  BY CommitInvInit, CommitInvStep, <1>1, PTL DEF CommitSpec

\* Whatever other writers and owners do at the destination, and whichever call
\* fails: a writer deletes only its own tree or the one it had looked at, one that
\* succeeds has replaced that one by what it verified last, and one that fails
\* alone leaves it in its place or at its recovery sibling (commit_directory,
\* StagedDelivery.commit).
THEOREM DeliveriesStayAtomic == CommitSpec => []DeliveriesAreAtomic
<1>1. CommitInv => DeliveriesAreAtomic
  <2> SUFFICES ASSUME CommitInv PROVE DeliveriesAreAtomic
    OBVIOUS
  <2>1. OthersTreesSurvive
    BY DEF OthersTreesSurvive, CommitInv, CommitTypeOK, WriterInv, RemovedIsKnown, Own
  <2>2. OnlyExpectedReplaced
    BY DEF OnlyExpectedReplaced, CommitInv, WriterInv, ReplacedIsTarget
  <2>3. FailureIsUndone
    BY DEF FailureIsUndone, CommitInv, WriterInv, AloneKeepsTarget, Recovery, Writing
  <2>4. OnlyVerifiedInstalled
    BY DEF OnlyVerifiedInstalled, CommitInv, WriterInv, CommittedIsVerified
  <2> QED
    BY <2>1, <2>2, <2>3, <2>4 DEF DeliveriesAreAtomic
<1> QED
  BY CommitInvInit, CommitInvStep, <1>1, PTL DEF CommitSpec

-----------------------------------------------------------------------------
(* Folds                                                                   *)

LEMMA LastPlace ==
    ASSUME NEW S, NEW seq \in Seq(S), NEW s \in SUBSET DOMAIN seq, s # {}
    PROVE  Max(s) \in s
<1>1. DOMAIN seq = 1..Len(seq) /\ Len(seq) \in Nat
  OBVIOUS
<1>2. s \subseteq 0..Len(seq)
  BY <1>1
<1>3. PICK x \in s : \A y \in s : x >= y
  BY <1>1, <1>2, GreatestMember
<1> QED
  BY <1>3 DEF Max

LEMMA Places ==
    ASSUME NEW S, NEW seq \in Seq(S)
    PROVE  IsFiniteSet(DOMAIN seq)
<1>1. DOMAIN seq = 1..Len(seq) /\ Len(seq) \in Nat
  OBVIOUS
<1> QED
  BY <1>1, FS_Interval

\* A fold from the left, by a function R of what was folded and the next element.
IsLeftFold(g, seq, U, b, R) ==
    /\ g \in [SUBSET DOMAIN seq -> U]
    /\ \A s \in SUBSET DOMAIN seq :
          g[s] = IF s = {} THEN b ELSE R[<<g[s \ {Max(s)}], seq[Max(s)]>>]

LEMMA LeftFoldExists ==
    ASSUME NEW S, NEW seq \in Seq(S), NEW U, NEW b \in U, NEW R \in [U \X ToSet(seq) -> U]
    PROVE  \E g : IsLeftFold(g, seq, U, b, R)
<1> DEFINE pick == [s \in SUBSET DOMAIN seq |-> Max(s)]
           F == [i \in DOMAIN seq |-> [k \in U |-> R[<<k, seq[i]>>]]]
<1>1. \A s \in SUBSET DOMAIN seq : s # {} => pick[s] \in s /\ pick[s] = Max(s)
  BY LastPlace
<1>2. F \in [DOMAIN seq -> [U -> U]]
  BY DEF ToSet
<1>3. \A i \in DOMAIN seq, k \in U : F[i][k] = R[<<k, seq[i]>>]
  OBVIOUS
<1> HIDE DEF pick, F
<1>4. Foldable(DOMAIN seq, U, b, pick, F)
  <2>1. IsFiniteSet(DOMAIN seq)
    BY Places
  <2> QED
    BY <1>1, <1>2, <2>1 DEF Foldable
<1>5. PICK g : IsFold(g, DOMAIN seq, U, b, pick, F)
  BY <1>4, FoldExists
<1>6. \A s \in SUBSET DOMAIN seq : s # {} =>
         F[pick[s]][g[s \ {pick[s]}]] = R[<<g[s \ {Max(s)}], seq[Max(s)]>>]
  <2>1. ASSUME NEW s \in SUBSET DOMAIN seq, s # {}
        PROVE  Max(s) \in DOMAIN seq /\ g[s \ {Max(s)}] \in U
    BY <1>5, <2>1, LastPlace DEF IsFold
  <2> QED
    BY <1>1, <1>3, <2>1
<1> QED
  BY <1>5, <1>6 DEF IsFold, IsLeftFold

\* What every step of a fold preserves holds of its result.
LEMMA LeftFoldStays ==
    ASSUME NEW S, NEW seq \in Seq(S), NEW U, NEW h, h[{}] \in U,
           \A s \in SUBSET DOMAIN seq : s # {} /\ h[s \ {Max(s)}] \in U => h[s] \in U
    PROVE  h[DOMAIN seq] \in U
<1> DEFINE G == {s \in SUBSET DOMAIN seq : h[s] \in U}
<1>1. {} \in G
  OBVIOUS
<1>2. ASSUME NEW s \in SUBSET DOMAIN seq, s # {} PROVE \E x \in s : s \ {x} \in G => s \in G
  <2>1. Max(s) \in s
    BY <1>2, LastPlace
  <2>2. s \ {Max(s)} \in G => s \in G
    BY <1>2
  <2> QED
    BY <2>1, <2>2
<1>3. SUBSET DOMAIN seq \subseteq G
  <2> DEFINE D == DOMAIN seq
  <2>1. IsFiniteSet(D)
    BY Places
  <2>2. \A s \in SUBSET D : s # {} => \E x \in s : s \ {x} \in G => s \in G
    BY <1>2
  <2> HIDE DEF D, G
  <2>3. SUBSET D \subseteq G
    BY <1>1, <2>1, <2>2, SubsetInduction
  <2> QED
    BY <2>3 DEF D
<1> QED
  BY <1>3

\* The three passes over what was used last.
LEMMA FoldOlder ==
    ASSUME NEW S, NEW seq \in Seq(S), NEW U, NEW b \in U,
           \A k \in U, x \in ToSet(seq) : KeepOlder(k, x) \in U
    PROVE  FoldLeft(KeepOlder, b, seq) \in U
<1> DEFINE Eq(g) == g = [s \in SUBSET DOMAIN seq |->
                           IF s = {} THEN b ELSE KeepOlder(g[s \ {Max(s)}], seq[Max(s)])]
           R == [p \in U \X ToSet(seq) |-> KeepOlder(p[1], p[2])]
           h == CHOOSE g : Eq(g)
<1>1. R \in [U \X ToSet(seq) -> U] /\ \A k \in U, x \in ToSet(seq) : R[<<k, x>>] = KeepOlder(k, x)
  OBVIOUS
<1>2. \E g : Eq(g)
  <2> HIDE DEF R
  <2>1. PICK g : IsLeftFold(g, seq, U, b, R)
    <3>1. R \in [U \X ToSet(seq) -> U]
      BY <1>1
    <3> QED
      BY <3>1, LeftFoldExists
  <2>2. ASSUME NEW s \in SUBSET DOMAIN seq, s # {}
        PROVE  R[<<g[s \ {Max(s)}], seq[Max(s)]>>] = KeepOlder(g[s \ {Max(s)}], seq[Max(s)])
    <3>1. g[s \ {Max(s)}] \in U /\ seq[Max(s)] \in ToSet(seq)
      BY <2>1, <2>2, LastPlace DEF ToSet, IsLeftFold
    <3> QED
      BY <1>1, <3>1
  <2>3. Eq(g)
    BY <2>1, <2>2 DEF IsLeftFold
  <2> QED
    BY <2>3
<1>3. FoldLeft(KeepOlder, b, seq) = h[DOMAIN seq]
  BY DEF FoldLeft, MapThenFoldSet
<1>4. Eq(h)
  BY <1>2
<1>5. h[{}] \in U
  BY <1>4
<1>6. ASSUME NEW s \in SUBSET DOMAIN seq, s # {}, h[s \ {Max(s)}] \in U PROVE h[s] \in U
  <2>1. h[s] = KeepOlder(h[s \ {Max(s)}], seq[Max(s)])
    <3> HIDE DEF h
    <3> QED
      BY <1>4, <1>6
  <2>2. seq[Max(s)] \in ToSet(seq)
    BY <1>6, LastPlace DEF ToSet
  <2> HIDE DEF h
  <2> QED
    BY <1>6, <2>1, <2>2
<1> HIDE DEF h
<1>7. h[DOMAIN seq] \in U
  BY <1>5, <1>6, LeftFoldStays
<1> QED
  BY <1>3, <1>7

LEMMA FoldIdentity ==
    ASSUME NEW S, NEW seq \in Seq(S), NEW U, NEW b \in U,
           \A k \in U, x \in ToSet(seq) : KeepIdentity(k, x) \in U
    PROVE  FoldLeft(KeepIdentity, b, seq) \in U
<1> DEFINE Eq(g) == g = [s \in SUBSET DOMAIN seq |->
                           IF s = {} THEN b ELSE KeepIdentity(g[s \ {Max(s)}], seq[Max(s)])]
           R == [p \in U \X ToSet(seq) |-> KeepIdentity(p[1], p[2])]
           h == CHOOSE g : Eq(g)
<1>1. R \in [U \X ToSet(seq) -> U] /\ \A k \in U, x \in ToSet(seq) : R[<<k, x>>] = KeepIdentity(k, x)
  OBVIOUS
<1>2. \E g : Eq(g)
  <2> HIDE DEF R
  <2>1. PICK g : IsLeftFold(g, seq, U, b, R)
    <3>1. R \in [U \X ToSet(seq) -> U]
      BY <1>1
    <3> QED
      BY <3>1, LeftFoldExists
  <2>2. ASSUME NEW s \in SUBSET DOMAIN seq, s # {}
        PROVE  R[<<g[s \ {Max(s)}], seq[Max(s)]>>] = KeepIdentity(g[s \ {Max(s)}], seq[Max(s)])
    <3>1. g[s \ {Max(s)}] \in U /\ seq[Max(s)] \in ToSet(seq)
      BY <2>1, <2>2, LastPlace DEF ToSet, IsLeftFold
    <3> QED
      BY <1>1, <3>1
  <2>3. Eq(g)
    BY <2>1, <2>2 DEF IsLeftFold
  <2> QED
    BY <2>3
<1>3. FoldLeft(KeepIdentity, b, seq) = h[DOMAIN seq]
  BY DEF FoldLeft, MapThenFoldSet
<1>4. Eq(h)
  BY <1>2
<1>5. h[{}] \in U
  BY <1>4
<1>6. ASSUME NEW s \in SUBSET DOMAIN seq, s # {}, h[s \ {Max(s)}] \in U PROVE h[s] \in U
  <2>1. h[s] = KeepIdentity(h[s \ {Max(s)}], seq[Max(s)])
    <3> HIDE DEF h
    <3> QED
      BY <1>4, <1>6
  <2>2. seq[Max(s)] \in ToSet(seq)
    BY <1>6, LastPlace DEF ToSet
  <2> HIDE DEF h
  <2> QED
    BY <1>6, <2>1, <2>2
<1> HIDE DEF h
<1>7. h[DOMAIN seq] \in U
  BY <1>5, <1>6, LeftFoldStays
<1> QED
  BY <1>3, <1>7

LEMMA FoldLoose ==
    ASSUME NEW S, NEW seq \in Seq(S), NEW U, NEW b \in U,
           \A k \in U, x \in ToSet(seq) : KeepLoose(k, x) \in U
    PROVE  FoldLeft(KeepLoose, b, seq) \in U
<1> DEFINE Eq(g) == g = [s \in SUBSET DOMAIN seq |->
                           IF s = {} THEN b ELSE KeepLoose(g[s \ {Max(s)}], seq[Max(s)])]
           R == [p \in U \X ToSet(seq) |-> KeepLoose(p[1], p[2])]
           h == CHOOSE g : Eq(g)
<1>1. R \in [U \X ToSet(seq) -> U] /\ \A k \in U, x \in ToSet(seq) : R[<<k, x>>] = KeepLoose(k, x)
  OBVIOUS
<1>2. \E g : Eq(g)
  <2> HIDE DEF R
  <2>1. PICK g : IsLeftFold(g, seq, U, b, R)
    <3>1. R \in [U \X ToSet(seq) -> U]
      BY <1>1
    <3> QED
      BY <3>1, LeftFoldExists
  <2>2. ASSUME NEW s \in SUBSET DOMAIN seq, s # {}
        PROVE  R[<<g[s \ {Max(s)}], seq[Max(s)]>>] = KeepLoose(g[s \ {Max(s)}], seq[Max(s)])
    <3>1. g[s \ {Max(s)}] \in U /\ seq[Max(s)] \in ToSet(seq)
      BY <2>1, <2>2, LastPlace DEF ToSet, IsLeftFold
    <3> QED
      BY <1>1, <3>1
  <2>3. Eq(g)
    BY <2>1, <2>2 DEF IsLeftFold
  <2> QED
    BY <2>3
<1>3. FoldLeft(KeepLoose, b, seq) = h[DOMAIN seq]
  BY DEF FoldLeft, MapThenFoldSet
<1>4. Eq(h)
  BY <1>2
<1>5. h[{}] \in U
  BY <1>4
<1>6. ASSUME NEW s \in SUBSET DOMAIN seq, s # {}, h[s \ {Max(s)}] \in U PROVE h[s] \in U
  <2>1. h[s] = KeepLoose(h[s \ {Max(s)}], seq[Max(s)])
    <3> HIDE DEF h
    <3> QED
      BY <1>4, <1>6
  <2>2. seq[Max(s)] \in ToSet(seq)
    BY <1>6, LastPlace DEF ToSet
  <2> HIDE DEF h
  <2> QED
    BY <1>6, <2>1, <2>2
<1> HIDE DEF h
<1>7. h[DOMAIN seq] \in U
  BY <1>5, <1>6, LeftFoldStays
<1> QED
  BY <1>3, <1>7

-----------------------------------------------------------------------------
(* Sequences of rows                                                       *)

\* Without is a fold: w[s] is what is left of the places s.
IsWithout(w, seq, gone) ==
    w = [s \in SUBSET DOMAIN seq |->
           IF s = {} THEN <<>>
           ELSE IF seq[Max(s)] \in gone THEN w[s \ {Max(s)}]
           ELSE Append(w[s \ {Max(s)}], seq[Max(s)])]

LEMMA WithoutExists ==
    ASSUME NEW S, NEW seq \in Seq(S), NEW gone
    PROVE  \E w : IsWithout(w, seq, gone) /\ Without(seq, gone) = w[DOMAIN seq]
<1> DEFINE w == CHOOSE v : IsWithout(v, seq, gone)
           R == [p \in Seq(S) \X ToSet(seq) |-> IF p[2] \in gone THEN p[1] ELSE Append(p[1], p[2])]
<1>1. ToSet(seq) \subseteq S
  BY DEF ToSet
<1>2. R \in [Seq(S) \X ToSet(seq) -> Seq(S)]
  BY <1>1
<1>3. \A k \in Seq(S), x \in ToSet(seq) : R[<<k, x>>] = IF x \in gone THEN k ELSE Append(k, x)
  OBVIOUS
<1> HIDE DEF R
<1>4. <<>> \in Seq(S)
  OBVIOUS
<1>5. PICK g : IsLeftFold(g, seq, Seq(S), <<>>, R)
  BY <1>2, <1>4, LeftFoldExists
<1>6. ASSUME NEW s \in SUBSET DOMAIN seq, s # {}
      PROVE  R[<<g[s \ {Max(s)}], seq[Max(s)]>>]
               = IF seq[Max(s)] \in gone THEN g[s \ {Max(s)}]
                 ELSE Append(g[s \ {Max(s)}], seq[Max(s)])
  <2>1. g[s \ {Max(s)}] \in Seq(S) /\ seq[Max(s)] \in ToSet(seq)
    BY <1>5, <1>6, LastPlace DEF ToSet, IsLeftFold
  <2> QED
    BY <1>3, <2>1
<1>7. IsWithout(g, seq, gone)
  BY <1>5, <1>6 DEF IsWithout, IsLeftFold
<1>8. Without(seq, gone) = w[DOMAIN seq]
  BY DEF Without, FoldLeft, MapThenFoldSet, IsWithout
<1>9. IsWithout(w, seq, gone)
  BY <1>7
<1> HIDE DEF w
<1> QED
  BY <1>8, <1>9

LEMMA AppendFacts ==
    ASSUME NEW S, NEW q \in Seq(S), NEW x \in S
    PROVE  /\ Append(q, x) \in Seq(S)
           /\ ToSet(Append(q, x)) = ToSet(q) \cup {x}
           /\ IsInjective(q) /\ x \notin ToSet(q) => IsInjective(Append(q, x))
<1> DEFINE r == Append(q, x)
<1>1. r \in Seq(S) /\ Len(r) = Len(q) + 1 /\ r[Len(r)] = x /\ Len(q) \in Nat
      /\ \A i \in 1..Len(q) : r[i] = q[i]
  OBVIOUS
<1>2. DOMAIN r = 1..Len(r) /\ DOMAIN q = 1..Len(q)
  BY <1>1
<1> HIDE DEF r
<1>3. ToSet(r) = ToSet(q) \cup {x}
  <2>1. \A i \in DOMAIN r : i \in DOMAIN q \/ i = Len(r)
    BY <1>1, <1>2
  <2>2. Len(r) \in DOMAIN r /\ DOMAIN q \subseteq DOMAIN r
    BY <1>1, <1>2
  <2>3. \A i \in DOMAIN q : r[i] = q[i]
    BY <1>1, <1>2
  <2> QED
    BY <1>1, <2>1, <2>2, <2>3 DEF ToSet
<1>4. ASSUME IsInjective(q), x \notin ToSet(q) PROVE IsInjective(r)
  <2>1. \A i \in DOMAIN q : q[i] # x /\ r[i] = q[i]
    BY <1>1, <1>2, <1>4 DEF ToSet
  <2>2. \A i \in DOMAIN r : i \in DOMAIN q \/ (i = Len(r) /\ r[i] = x)
    BY <1>1, <1>2
  <2> QED
    BY <1>4, <2>1, <2>2 DEF IsInjective
<1> QED
  BY <1>1, <1>3, <1>4 DEF r

\* The rows that are left are the others, each of them once.
LEMMA WithoutFacts ==
    ASSUME NEW S, NEW seq \in Seq(S), NEW gone
    PROVE  /\ Without(seq, gone) \in Seq(S)
           /\ ToSet(Without(seq, gone)) = ToSet(seq) \ gone
           /\ IsInjective(seq) => IsInjective(Without(seq, gone))
<1>1. PICK w : IsWithout(w, seq, gone) /\ Without(seq, gone) = w[DOMAIN seq]
  BY WithoutExists
<1> DEFINE OfSeq(s) == {seq[i] : i \in s}
           G == {s \in SUBSET DOMAIN seq :
                   /\ w[s] \in Seq(S) /\ ToSet(w[s]) = OfSeq(s) \ gone
                   /\ IsInjective(seq) => IsInjective(w[s])}
<1>2. {} \in G
  <2>1. w[{}] = <<>>
    BY <1>1 DEF IsWithout
  <2>2. <<>> \in Seq(S) /\ ToSet(<<>>) = {} /\ IsInjective(<<>>) /\ OfSeq({}) = {}
    BY DEF ToSet, IsInjective
  <2> QED
    BY <2>1, <2>2
<1>3. ASSUME NEW s \in SUBSET DOMAIN seq, s # {} PROVE \E i \in s : s \ {i} \in G => s \in G
  <2> DEFINE i == Max(s)
  <2>1. i \in s
    BY <1>3, LastPlace
  <2>2. w[s] = IF seq[i] \in gone THEN w[s \ {i}] ELSE Append(w[s \ {i}], seq[i])
    BY <1>1, <1>3 DEF IsWithout
  <2> HIDE DEF i
  <2>3. OfSeq(s) = OfSeq(s \ {i}) \cup {seq[i]} /\ seq[i] \in S
    BY <2>1
  <2>4. IsInjective(seq) => seq[i] \notin OfSeq(s \ {i})
    BY <2>1 DEF IsInjective
  <2>5. ASSUME s \ {i} \in G PROVE s \in G
    <3>1. /\ w[s \ {i}] \in Seq(S) /\ ToSet(w[s \ {i}]) = OfSeq(s \ {i}) \ gone
          /\ IsInjective(seq) => IsInjective(w[s \ {i}])
      BY <2>5
    <3> HIDE DEF OfSeq
    <3>2. CASE seq[i] \in gone
      BY <2>2, <2>3, <3>1, <3>2
    <3>3. CASE seq[i] \notin gone
      <4> DEFINE q == w[s \ {i}]
                 x == seq[i]
      <4>1. w[s] = Append(q, x) /\ x \in S
        BY <2>2, <2>3, <3>3
      <4>2. /\ q \in Seq(S) /\ ToSet(q) = OfSeq(s \ {i}) \ gone
            /\ IsInjective(seq) => IsInjective(q)
        BY <3>1
      <4>3. IsInjective(seq) => x \notin ToSet(q)
        BY <2>4, <4>2
      <4>4. OfSeq(s) = OfSeq(s \ {i}) \cup {x} /\ x \notin gone
        BY <2>3, <3>3
      <4> HIDE DEF q, x
      <4>5. /\ Append(q, x) \in Seq(S)
            /\ ToSet(Append(q, x)) = ToSet(q) \cup {x}
            /\ IsInjective(q) /\ x \notin ToSet(q) => IsInjective(Append(q, x))
        BY <4>1, <4>2, AppendFacts
      <4> QED
        BY <4>1, <4>2, <4>3, <4>4, <4>5
    <3> QED
      BY <3>2, <3>3
  <2> QED
    BY <2>1, <2>5
<1> HIDE DEF G
<1>4. SUBSET DOMAIN seq \subseteq G
  <2> DEFINE D == DOMAIN seq
  <2>1. IsFiniteSet(D)
    BY Places
  <2>2. \A s \in SUBSET D : s # {} => \E x \in s : s \ {x} \in G => s \in G
    BY <1>3
  <2> HIDE DEF D
  <2>3. SUBSET D \subseteq G
    BY <1>2, <2>1, <2>2, SubsetInduction
  <2> QED
    BY <2>3 DEF D
<1>5. DOMAIN seq \in G
  BY <1>4
<1> QED
  BY <1>1, <1>5 DEF G, ToSet

LEMMA ToFrontFacts ==
    ASSUME NEW S, NEW seq \in Seq(S), NEW x \in S
    PROVE  /\ ToFront(x, seq) \in Seq(S)
           /\ ToSet(ToFront(x, seq)) = ToSet(seq) \cup {x}
           /\ IsInjective(seq) => IsInjective(ToFront(x, seq))
<1> DEFINE q == Without(seq, {x})
           r == <<x>> \o q
<1>1. q \in Seq(S) /\ ToSet(q) = ToSet(seq) \ {x} /\ (IsInjective(seq) => IsInjective(q))
  BY WithoutFacts
<1> HIDE DEF q
<1>2. r \in Seq(S) /\ Len(r) = Len(q) + 1 /\ r[1] = x /\ Len(q) \in Nat
      /\ \A i \in 1..Len(q) : r[i + 1] = q[i]
  BY <1>1
<1>3. DOMAIN r = 1..Len(r) /\ DOMAIN q = 1..Len(q)
  BY <1>1, <1>2
<1>4. ToFront(x, seq) = r
  BY DEF ToFront, q
<1> HIDE DEF r
<1>5. \A i \in DOMAIN r : (r[i] = x /\ i = 1) \/ (i - 1 \in DOMAIN q /\ r[i] = q[i - 1])
  <2>1. ASSUME NEW i \in DOMAIN r, i # 1 PROVE i - 1 \in 1..Len(q) /\ (i - 1) + 1 = i
    BY <1>2, <1>3, <2>1
  <2> QED
    BY <1>2, <1>3, <2>1
<1>6. \A i \in DOMAIN q : i + 1 \in DOMAIN r /\ r[i + 1] = q[i]
  BY <1>2, <1>3
<1>7. 1 \in DOMAIN r
  BY <1>2, <1>3
<1>8. ToSet(r) = ToSet(q) \cup {x}
  BY <1>2, <1>5, <1>6, <1>7 DEF ToSet
<1>9. ASSUME IsInjective(seq) PROVE IsInjective(r)
  <2>1. \A i \in DOMAIN q : q[i] # x
    BY <1>1 DEF ToSet
  <2>2. SUFFICES ASSUME NEW i \in DOMAIN r, NEW j \in DOMAIN r, r[i] = r[j] PROVE i = j
    BY DEF IsInjective
  <2>3. CASE r[i] = x
    BY <1>5, <2>1, <2>2, <2>3
  <2>4. CASE r[i] # x
    <3>1. i - 1 \in DOMAIN q /\ j - 1 \in DOMAIN q /\ q[i - 1] = q[j - 1]
      BY <1>5, <2>2, <2>4
    <3>2. i - 1 = j - 1
      BY <1>1, <1>9, <3>1 DEF IsInjective
    <3> QED
      BY <1>3, <3>2
  <2> QED
    BY <2>3, <2>4
<1> QED
  BY <1>1, <1>2, <1>4, <1>8, <1>9

-----------------------------------------------------------------------------
(* What is kept, and what is charged for it                                *)

\* The invariant.  The victims of a prune are those that were chosen while nothing
\* disturbs it, and what is not a victim needs no victim.
PruneSet == [pc : {"none", "chosen", "admit"}, victims : SUBSET Artifacts,
             candidate : Artifacts \cup {NoArtifact}, replaced : Artifacts \cup {NoArtifact},
             disturbed : BOOLEAN]
PruneInv ==
    /\ prune \in PruneSet
    /\ prune.pc = "none" <=> Unlocked
    /\ prune.pc = "admit" => prune.candidate \in Artifacts
CurrentInScope == \A k \in Scopes : current[k] # NoArtifact => ScopeOf[current[k]] = k
VictimsAreClosed ==
    \A g \in (Indexed \cap KeptGenerations) \ prune.victims : Pinned[g] \cap prune.victims = {}
ChosenInv ==
    prune.pc = "chosen" =>
        /\ VictimsAreClosed
        /\ ~prune.disturbed => prune.victims = Victims(prune.candidate, prune.replaced)
RowsInv == RetentionTypeOK /\ RetainedIsClosed /\ CurrentInScope
RetentionInv == RowsInv /\ PruneInv /\ ChosenInv /\ RoomIsMade

\* What _Retained is at any time.
KeptSet == [metadata : Int, states : Int, generations : Int, artifacts : SUBSET Indexed,
            identities : SUBSET Scopes]
IsClosed(arts) == \A g \in arts \cap KeptGenerations : Pinned[g] \subseteq arts
Closure(arts) == arts \cup UNION {Pinned[g] : g \in arts \cap KeptGenerations}

\* The bytes that are left are those of the limits without the charges for the candidate
\* and the bytes of what is kept.
Charges == [metadata : Int, states : Int, generations : Int]
Accounted(k, ch) ==
    /\ k.metadata = Limits.metadata_bytes - ch.metadata - SumOf(MetaBytes, k.artifacts)
    /\ k.states = Limits.prepared_state_bytes - ch.states - StateBytes(k.artifacts)
    /\ k.generations = Limits.generation_bytes - ch.generations - GenerationBytes(k.artifacts)
Sound(ch) == {k \in KeptSet : IsClosed(k.artifacts) /\ Accounted(k, ch)}
Solvent(k) == k.metadata >= 0 /\ k.states >= 0 /\ k.generations >= 0

LEMMA Rows ==
    ASSUME RetentionTypeOK
    PROVE  /\ Indexed \subseteq Artifacts /\ IsFiniteSet(Indexed)
           /\ ToSet(generations) = Indexed \cap KeptGenerations
           /\ ToSet(states) = Indexed \cap KeptStates
<1>1. ToSet(generations) \subseteq KeptGenerations /\ ToSet(states) \subseteq KeptStates
  BY DEF RetentionTypeOK, ToSet
<1>2. ASSUME NEW S, NEW q \in Seq(S) PROVE IsFiniteSet(ToSet(q))
  <2> DEFINE f == [i \in DOMAIN q |-> q[i]]
  <2>1. IsFiniteSet(DOMAIN q)
    BY Places
  <2>2. f \in Surjection(DOMAIN q, ToSet(q))
    BY DEF Surjection, ToSet
  <2> HIDE DEF f
  <2> QED
    BY <2>1, <2>2, FS_Surjection
<1>3. IsFiniteSet(ToSet(generations)) /\ IsFiniteSet(ToSet(states))
  BY <1>2 DEF RetentionTypeOK
<1>4. IsFiniteSet(Indexed)
  BY <1>3, FS_Union DEF Indexed
<1> QED
  BY <1>1, <1>4, RetentionAssumption DEF Indexed, Artifacts

LEMMA Bytes ==
    ASSUME RetentionTypeOK, NEW A \in SUBSET Indexed
    PROVE  /\ SumOf(MetaBytes, A) \in Nat /\ StateBytes(A) \in Nat /\ GenerationBytes(A) \in Nat
<1>1. IsFiniteSet(A) /\ A \subseteq Artifacts
  BY Rows, FS_Subset
<1>2. IsFiniteSet(A \cap KeptStates) /\ IsFiniteSet(A \cap KeptGenerations)
  BY <1>1, FS_Subset
<1>3. \A x \in Artifacts : MetaBytes[x] \in Nat /\ ContentBytes[x] \in Nat
  BY RetentionAssumption
<1>4. SumOf(MetaBytes, A) \in Nat
  BY <1>1, <1>3, SumNat
<1>5. SumOf(ContentBytes, A \cap KeptStates) \in Nat
  BY <1>1, <1>2, <1>3, SumNat
<1>6. SumOf(ContentBytes, A \cap KeptGenerations) \in Nat
  BY <1>1, <1>2, <1>3, SumNat
<1> QED
  BY <1>4, <1>5, <1>6 DEF StateBytes, GenerationBytes

LEMMA BytesOfUnion ==
    ASSUME RetentionTypeOK, NEW A \in SUBSET Indexed, NEW B \in SUBSET Indexed, A \cap B = {}
    PROVE  /\ SumOf(MetaBytes, A \cup B) = SumOf(MetaBytes, A) + SumOf(MetaBytes, B)
           /\ StateBytes(A \cup B) = StateBytes(A) + StateBytes(B)
           /\ GenerationBytes(A \cup B) = GenerationBytes(A) + GenerationBytes(B)
<1>1. \A C \in SUBSET Indexed : IsFiniteSet(C) /\ C \subseteq Artifacts
  BY Rows, FS_Subset
<1>2. \A x \in Artifacts : MetaBytes[x] \in Nat /\ ContentBytes[x] \in Nat
  BY RetentionAssumption
<1>3. ASSUME NEW C \in SUBSET Indexed, NEW D \in SUBSET Indexed, C \cap D = {}
      PROVE  /\ SumOf(MetaBytes, C \cup D) = SumOf(MetaBytes, C) + SumOf(MetaBytes, D)
             /\ SumOf(ContentBytes, C \cup D) = SumOf(ContentBytes, C) + SumOf(ContentBytes, D)
  <2>1. IsFiniteSet(C) /\ IsFiniteSet(D) /\ \A x \in C \cup D : x \in Artifacts
    BY <1>1
  <2>2. \A x \in C \cup D : MetaBytes[x] \in Nat
    BY <1>2, <2>1
  <2>3. \A x \in C \cup D : ContentBytes[x] \in Nat
    BY <1>2, <2>1
  <2>4. SumOf(MetaBytes, C \cup D) = SumOf(MetaBytes, C) + SumOf(MetaBytes, D)
    BY <1>3, <2>1, <2>2, SumOfUnion
  <2>5. SumOf(ContentBytes, C \cup D) = SumOf(ContentBytes, C) + SumOf(ContentBytes, D)
    BY <1>3, <2>1, <2>3, SumOfUnion
  <2> QED
    BY <2>4, <2>5
<1>4. ASSUME NEW K
      PROVE  SumOf(ContentBytes, (A \cup B) \cap K)
               = SumOf(ContentBytes, A \cap K) + SumOf(ContentBytes, B \cap K)
  <2>1. (A \cup B) \cap K = (A \cap K) \cup (B \cap K)
    OBVIOUS
  <2>2. A \cap K \in SUBSET Indexed /\ B \cap K \in SUBSET Indexed /\ (A \cap K) \cap (B \cap K) = {}
    OBVIOUS
  <2> QED
    BY <1>3, <2>1, <2>2
<1> QED
  BY <1>3, <1>4 DEF StateBytes, GenerationBytes

LEMMA SpendFacts ==
    ASSUME NEW k \in KeptSet, NEW m \in Int, NEW s \in Int, NEW g \in Int
    PROVE  /\ Spend(k, m, s, g).metadata = k.metadata - m
           /\ Spend(k, m, s, g).states = k.states - s
           /\ Spend(k, m, s, g).generations = k.generations - g
           /\ Spend(k, m, s, g).artifacts = k.artifacts
           /\ Spend(k, m, s, g).identities = k.identities
           /\ Spend(k, m, s, g) \in KeptSet
<1> DEFINE r == Spend(k, m, s, g)
<1>1. r = [metadata |-> k.metadata - m, states |-> k.states - s, generations |-> k.generations - g,
           artifacts |-> k.artifacts, identities |-> k.identities]
  <2>1. r = [k EXCEPT !.metadata = @ - m, !.states = @ - s, !.generations = @ - g]
    BY DEF Spend
  <2> HIDE DEF r
  <2> QED
    BY <2>1 DEF KeptSet
<1>2. k.metadata - m \in Int /\ k.states - s \in Int /\ k.generations - g \in Int
      /\ k.artifacts \in SUBSET Indexed /\ k.identities \in SUBSET Scopes
  BY DEF KeptSet
<1> HIDE DEF r
<1>3. r \in KeptSet
  BY <1>1, <1>2 DEF KeptSet
<1> QED
  BY <1>1, <1>3 DEF r

LEMMA KeepFacts ==
    ASSUME RetentionTypeOK, NEW ch \in Charges, NEW k \in Sound(ch), NEW force \in BOOLEAN,
           NEW wanted \in SUBSET Indexed, IsClosed(wanted)
    PROVE  /\ Keep(k, wanted, force) \in Sound(ch)
           /\ k.artifacts \subseteq Keep(k, wanted, force).artifacts
           /\ force => Keep(k, wanted, force).artifacts = k.artifacts \cup wanted
           /\ ~force /\ Solvent(k) => Solvent(Keep(k, wanted, force))
<1> DEFINE added == wanted \ k.artifacts
           after == Spend(k, SumOf(MetaBytes, added), StateBytes(added), GenerationBytes(added))
           more == [after EXCEPT !.artifacts = @ \cup added]
<1>1. k \in KeptSet /\ IsClosed(k.artifacts) /\ Accounted(k, ch)
  BY DEF Sound
<1>2. added \in SUBSET Indexed /\ k.artifacts \in SUBSET Indexed /\ k.artifacts \cap added = {}
      /\ k.artifacts \cup added = k.artifacts \cup wanted
  BY <1>1 DEF KeptSet
<1>3. SumOf(MetaBytes, added) \in Nat /\ StateBytes(added) \in Nat /\ GenerationBytes(added) \in Nat
  BY <1>2, Bytes
<1>4. /\ SumOf(MetaBytes, k.artifacts \cup added) = SumOf(MetaBytes, k.artifacts) + SumOf(MetaBytes, added)
      /\ StateBytes(k.artifacts \cup added) = StateBytes(k.artifacts) + StateBytes(added)
      /\ GenerationBytes(k.artifacts \cup added) = GenerationBytes(k.artifacts) + GenerationBytes(added)
  BY <1>2, BytesOfUnion
<1>5. SumOf(MetaBytes, k.artifacts) \in Nat /\ StateBytes(k.artifacts) \in Nat
      /\ GenerationBytes(k.artifacts) \in Nat
  BY <1>2, Bytes
<1> HIDE DEF added
<1>6. /\ more.metadata = k.metadata - SumOf(MetaBytes, added)
      /\ more.states = k.states - StateBytes(added)
      /\ more.generations = k.generations - GenerationBytes(added)
      /\ more.artifacts = k.artifacts \cup added
      /\ more.identities = k.identities
      /\ more \in KeptSet
  <2> DEFINE m == SumOf(MetaBytes, added)
             s == StateBytes(added)
             g == GenerationBytes(added)
  <2>1. m \in Nat /\ s \in Nat /\ g \in Nat
    BY <1>3
  <2> HIDE DEF m, s, g
  <2>2. k \in KeptSet /\ k.artifacts \cup added \in SUBSET Indexed
    BY <1>1, <1>2
  <2>3. more = [metadata |-> k.metadata - m, states |-> k.states - s,
                generations |-> k.generations - g, artifacts |-> k.artifacts \cup added,
                identities |-> k.identities]
    <3>1. after = Spend(k, m, s, g)
      BY DEF m, s, g
    <3>2. more = [after EXCEPT !.artifacts = after.artifacts \cup added]
      OBVIOUS
    <3> HIDE DEF after, more
    <3>3. /\ after.metadata = k.metadata - m /\ after.states = k.states - s
          /\ after.generations = k.generations - g /\ after.artifacts = k.artifacts
          /\ after.identities = k.identities /\ after \in KeptSet
      BY <2>1, <2>2, <3>1, SpendFacts
    <3> QED
      BY <3>2, <3>3 DEF KeptSet
  <2>4. more \in KeptSet
    <3> HIDE DEF more
    <3> QED
      BY <2>1, <2>2, <2>3 DEF KeptSet
  <2> HIDE DEF more
  <2> QED
    BY <2>3, <2>4 DEF m, s, g
<1>7. after.metadata = more.metadata /\ after.states = more.states
      /\ after.generations = more.generations
  BY <1>1 DEF Spend, KeptSet
<1>8. IsClosed(k.artifacts \cup wanted)
  BY <1>1 DEF IsClosed
<1>9. Keep(k, wanted, force) = IF force \/ Solvent(more) THEN more ELSE k
  <2>1. Keep(k, wanted, force)
          = IF force \/ (after.metadata >= 0 /\ after.states >= 0 /\ after.generations >= 0)
            THEN more ELSE k
    BY DEF Keep, added
  <2> HIDE DEF more, after
  <2> QED
    BY <1>7, <2>1 DEF Solvent
<1> HIDE DEF more, after
<1>10. more \in Sound(ch)
  <2>1. IsClosed(more.artifacts)
    BY <1>2, <1>6, <1>8
  <2>2. Limits.metadata_bytes \in Int /\ Limits.prepared_state_bytes \in Int
        /\ Limits.generation_bytes \in Int
    BY RetentionAssumption
  <2>3. ch.metadata \in Int /\ ch.states \in Int /\ ch.generations \in Int
    BY DEF Charges
  <2>4. more.metadata = Limits.metadata_bytes - ch.metadata - SumOf(MetaBytes, more.artifacts)
    BY <1>1, <1>3, <1>4, <1>5, <1>6, <2>2, <2>3 DEF Accounted
  <2>5. more.states = Limits.prepared_state_bytes - ch.states - StateBytes(more.artifacts)
    BY <1>1, <1>3, <1>4, <1>5, <1>6, <2>2, <2>3 DEF Accounted
  <2>6. more.generations = Limits.generation_bytes - ch.generations - GenerationBytes(more.artifacts)
    BY <1>1, <1>3, <1>4, <1>5, <1>6, <2>2, <2>3 DEF Accounted
  <2> QED
    BY <1>6, <2>1, <2>4, <2>5, <2>6 DEF Sound, Accounted
<1> QED
  BY <1>2, <1>6, <1>9, <1>10

\* What is kept grows by the artifacts that are wanted and the states they pin, or not at all.
LEMMA KeepArtifactFacts ==
    ASSUME RowsInv, NEW ch \in Charges, NEW k \in Sound(ch), NEW force \in BOOLEAN,
           NEW a \in Indexed
    PROVE  /\ KeepArtifact(k, a, force) \in Sound(ch)
           /\ k.artifacts \subseteq KeepArtifact(k, a, force).artifacts
           /\ force => KeepArtifact(k, a, force).artifacts = k.artifacts \cup Closure({a})
           /\ ~force /\ Solvent(k) => Solvent(KeepArtifact(k, a, force))
<1>1. RetentionTypeOK /\ RetainedIsClosed
  BY DEF RowsInv
<1>2. k.artifacts \in SUBSET Indexed /\ IsClosed(k.artifacts)
  BY DEF Sound, KeptSet
<1>3. CASE a \in KeptGenerations
  <2> DEFINE wanted == {a} \cup Pinned[a]
  <2>1. Pinned[a] \subseteq Indexed /\ Pinned[a] \subseteq KeptStates
    BY <1>1, <1>3, RetentionAssumption DEF RetainedIsClosed
  <2>2. wanted \in SUBSET Indexed /\ IsClosed(wanted)
    BY <2>1, RetentionAssumption DEF IsClosed
  <2>3. Closure({a}) = wanted
    BY <1>3 DEF Closure
  <2>4. KeepArtifact(k, a, force) = IF a \in k.artifacts THEN k ELSE Keep(k, wanted, force)
    BY <1>3 DEF KeepArtifact, KeepGeneration
  <2> HIDE DEF wanted
  <2>5. CASE a \in k.artifacts
    <3>1. Pinned[a] \subseteq k.artifacts
      BY <1>2, <1>3, <2>5 DEF IsClosed
    <3>2. k.artifacts \cup wanted = k.artifacts
      BY <2>5, <3>1 DEF wanted
    <3> QED
      BY <2>3, <2>4, <2>5, <3>2
  <2>6. CASE a \notin k.artifacts
    BY <1>1, <2>2, <2>3, <2>4, <2>6, KeepFacts
  <2> QED
    BY <2>5, <2>6
<1>4. CASE a \notin KeptGenerations
  <2>1. IsClosed({a}) /\ Closure({a}) = {a} /\ {a} \in SUBSET Indexed
    BY <1>4 DEF IsClosed, Closure
  <2>2. KeepArtifact(k, a, force) = Keep(k, {a}, force)
    BY <1>4 DEF KeepArtifact
  <2> DEFINE wanted == {a}
  <2>3. IsClosed(wanted) /\ Closure({a}) = wanted /\ wanted \in SUBSET Indexed
        /\ KeepArtifact(k, a, force) = Keep(k, wanted, force)
    BY <2>1, <2>2
  <2> HIDE DEF wanted
  <2> QED
    BY <1>1, <2>3, KeepFacts
<1> QED
  BY <1>3, <1>4

\* What has to be kept is kept.
LEMMA KeepArtifactForced ==
    ASSUME RowsInv, NEW ch \in Charges, NEW q \in Sound(ch), NEW x \in Indexed
    PROVE  /\ KeepArtifact(q, x, TRUE) \in Sound(ch)
           /\ KeepArtifact(q, x, TRUE).artifacts = q.artifacts \cup Closure({x})
<1>1. ASSUME NEW force \in BOOLEAN, force
      PROVE  /\ KeepArtifact(q, x, force) \in Sound(ch)
             /\ KeepArtifact(q, x, force).artifacts = q.artifacts \cup Closure({x})
  BY <1>1, KeepArtifactFacts
<1> DEFINE yes == TRUE
<1>2. yes \in BOOLEAN /\ yes
  OBVIOUS
<1> HIDE DEF yes
<1>3. /\ KeepArtifact(q, x, yes) \in Sound(ch)
      /\ KeepArtifact(q, x, yes).artifacts = q.artifacts \cup Closure({x})
  BY <1>1, <1>2
<1> QED
  BY <1>3 DEF yes

LEMMA ClosureOf ==
    ASSUME RowsInv, NEW A \in SUBSET Indexed
    PROVE  /\ A \subseteq Closure(A) /\ Closure(A) \in SUBSET Indexed /\ IsClosed(Closure(A))
           /\ \A x \in A : Closure(A) = Closure(A \ {x}) \cup Closure({x})
           /\ \A B \in SUBSET Indexed : Closure(A) \cup Closure(B) = Closure(A \cup B)
<1>1. RetainedIsClosed
  BY DEF RowsInv
<1>2. \A g \in KeptGenerations : Pinned[g] \subseteq KeptStates
  BY RetentionAssumption
<1>3. \A g \in A \cap KeptGenerations : Pinned[g] \subseteq Indexed
  BY <1>1 DEF RetainedIsClosed
<1>4. Closure(A) \in SUBSET Indexed
  BY <1>3 DEF Closure
<1>5. Closure(A) \cap KeptGenerations = A \cap KeptGenerations
  BY <1>2, RetentionAssumption DEF Closure
<1>6. IsClosed(Closure(A))
  <2>1. ASSUME NEW g \in A \cap KeptGenerations PROVE Pinned[g] \subseteq Closure(A)
    BY DEF Closure
  <2> QED
    BY <1>5, <2>1 DEF IsClosed
<1>7. \A x \in A : Closure(A) = Closure(A \ {x}) \cup Closure({x})
  BY DEF Closure
<1>8. \A B \in SUBSET Indexed : Closure(A) \cup Closure(B) = Closure(A \cup B)
  BY DEF Closure
<1> QED
  BY <1>4, <1>6, <1>7, <1>8 DEF Closure

\* KeepAll is a fold over what must be kept.
IsKeepAll(h, k, arts) ==
    h = [s \in SUBSET arts |-> IF s = {} THEN k
                               ELSE KeepArtifact(h[s \ {Pick(s)}], Pick(s), TRUE)]

LEMMA KeepAllFacts ==
    ASSUME RowsInv, NEW ch \in Charges, NEW k \in Sound(ch), NEW arts \in SUBSET Indexed
    PROVE  /\ KeepAll(k, arts) \in Sound(ch)
           /\ KeepAll(k, arts).artifacts = k.artifacts \cup Closure(arts)
<1> DEFINE U == Sound(ch)
           pick == [s \in SUBSET arts |-> Pick(s)]
           F == [x \in arts |-> [q \in U |-> KeepArtifact(q, x, TRUE)]]
           h == CHOOSE f : IsKeepAll(f, k, arts)
<1>0. \A q \in U, x \in Indexed :
           /\ KeepArtifact(q, x, TRUE) \in U
           /\ KeepArtifact(q, x, TRUE).artifacts = q.artifacts \cup Closure({x})
  BY KeepArtifactForced
<1>1. IsFiniteSet(arts)
  BY Rows, FS_Subset DEF RowsInv
<1>2. \A s \in SUBSET arts : s # {} => pick[s] \in s /\ pick[s] = Pick(s)
  BY Picked
<1>3. F \in [arts -> [U -> U]] /\ \A x \in arts, q \in U : F[x][q] = KeepArtifact(q, x, TRUE)
  <2>1. \A x \in arts, q \in U : KeepArtifact(q, x, TRUE) \in U
    BY <1>0
  <2> HIDE DEF U
  <2> QED
    BY <2>1
<1>4. KeepAll(k, arts) = h[arts]
  BY DEF KeepAll, FoldSet, MapThenFoldSet, IsKeepAll, Pick
<1> HIDE DEF pick, F, U, h
<1>5. Foldable(arts, U, k, pick, F)
  <2>1. k \in U
    BY DEF U
  <2> QED
    BY <1>1, <1>2, <1>3, <2>1 DEF Foldable
<1>6. PICK g : IsFold(g, arts, U, k, pick, F)
  BY <1>5, FoldExists
<1>7. ASSUME NEW s \in SUBSET arts, s # {}
      PROVE  F[pick[s]][g[s \ {pick[s]}]] = KeepArtifact(g[s \ {Pick(s)}], Pick(s), TRUE)
  <2>1. pick[s] \in arts /\ g[s \ {pick[s]}] \in U
    BY <1>2, <1>6, <1>7 DEF IsFold
  <2> QED
    BY <1>2, <1>3, <1>7, <2>1
<1>8. IsKeepAll(g, k, arts)
  BY <1>6, <1>7 DEF IsFold, IsKeepAll
<1>9. IsKeepAll(h, k, arts)
  BY <1>8 DEF h
<1> DEFINE G == {s \in SUBSET arts :
                   /\ h[s] \in U /\ h[s].artifacts = k.artifacts \cup Closure(s)}
<1>10. {} \in G
  <2>1. h[{}] = k /\ Closure({}) = {} /\ k \in U
    BY <1>9 DEF IsKeepAll, Closure, U
  <2> QED
    BY <2>1
<1>11. ASSUME NEW s \in SUBSET arts, s # {} PROVE \E x \in s : s \ {x} \in G => s \in G
  <2> DEFINE x == Pick(s)
             q == h[s \ {x}]
  <2>1. x \in s
    BY <1>11, Picked
  <2>2. h[s] = KeepArtifact(q, x, TRUE)
    BY <1>9, <1>11 DEF IsKeepAll
  <2>3. Closure(s) = Closure(s \ {x}) \cup Closure({x})
    BY <2>1, ClosureOf
  <2>4. ASSUME s \ {x} \in G PROVE s \in G
    <3>1. q \in U /\ q.artifacts = k.artifacts \cup Closure(s \ {x})
      BY <2>4
    <3>2. x \in Indexed
      BY <2>1
    <3> HIDE DEF q, x
    <3>3. /\ KeepArtifact(q, x, TRUE) \in U
          /\ KeepArtifact(q, x, TRUE).artifacts = q.artifacts \cup Closure({x})
      BY <1>0, <3>1, <3>2
    <3> QED
      BY <2>2, <2>3, <3>1, <3>3
  <2> QED
    BY <2>1, <2>4
<1> HIDE DEF G
<1>12. SUBSET arts \subseteq G
  BY <1>1, <1>10, <1>11, SubsetInduction
<1>13. arts \in G
  BY <1>12
<1> QED
  BY <1>4, <1>13 DEF G, U

-----------------------------------------------------------------------------
(* Retained                                                                *)

NoCharges == [metadata |-> 0, states |-> 0, generations |-> 0]
ChargesFor(c, r) ==
    IF c = NoArtifact \/ c \in Indexed THEN NoCharges
    ELSE [metadata |-> ChargeOf(MetaBytes, c, r),
          states |-> IF c \in KeptStates THEN ChargeOf(ContentBytes, c, r) ELSE 0,
          generations |-> IF c \in KeptGenerations THEN ChargeOf(ContentBytes, c, r) ELSE 0]
Seen(c, r) == Protected \cup ({c, r} \cap Indexed)
Budget == [metadata |-> Limits.metadata_bytes, states |-> Limits.prepared_state_bytes,
           generations |-> Limits.generation_bytes, artifacts |-> {},
           identities |-> ProtectedIdentities]
Forced(c, r) == KeepAll(MakeRoom(Budget, c, r), Protected)

LEMMA ProtectedRowsAreThere ==
    ASSUME RowsInv
    PROVE  Protected \in SUBSET Indexed /\ ProtectedIdentities \subseteq Scopes
<1>1. RetentionTypeOK /\ RetainedIsClosed
  BY DEF RowsInv
<1>2. \A i \in ProtectedIdentities : i \in Scopes
  BY <1>1, RetentionAssumption DEF ProtectedIdentities, RetentionTypeOK, Identities, Artifacts
<1>3. \A i \in ProtectedIdentities : current[i] # NoArtifact => current[i] \in Indexed
  BY <1>1, <1>2 DEF RetainedIsClosed
<1> QED
  BY <1>2, <1>3 DEF Protected

LEMMA ChargesType ==
    ASSUME RowsInv, NEW c \in Artifacts \cup {NoArtifact}, NEW r \in Artifacts \cup {NoArtifact}
    PROVE  ChargesFor(c, r) \in Charges
<1>1. NoCharges \in Charges
  BY DEF NoCharges, Charges
<1>2. ASSUME NEW size \in [Artifacts -> Nat], c # NoArtifact PROVE ChargeOf(size, c, r) \in Int
  <2>1. size[c] \in Nat /\ (r \in Indexed => size[r] \in Nat)
    BY <1>2, Rows DEF RowsInv
  <2> QED
    BY <2>1 DEF ChargeOf
<1>3. c # NoArtifact => ChargeOf(MetaBytes, c, r) \in Int /\ ChargeOf(ContentBytes, c, r) \in Int
  BY <1>2, RetentionAssumption
<1> QED
  BY <1>1, <1>3 DEF ChargesFor, Charges

LEMMA BudgetIsSound == ASSUME RowsInv PROVE Budget \in Sound(NoCharges)
<1>1. Budget \in KeptSet
  <2>1. Limits.metadata_bytes \in Int /\ Limits.prepared_state_bytes \in Int
        /\ Limits.generation_bytes \in Int
    BY RetentionAssumption
  <2> QED
    BY <2>1, ProtectedRowsAreThere DEF Budget, KeptSet
<1>2. IsClosed(Budget.artifacts)
  BY DEF IsClosed, Budget
<1>3. Accounted(Budget, NoCharges)
  <2>1. SumOf(MetaBytes, {}) = 0 /\ StateBytes({}) = 0 /\ GenerationBytes({}) = 0
    <3>1. {} \cap KeptStates = {} /\ {} \cap KeptGenerations = {}
      OBVIOUS
    <3> QED
      BY <3>1, EmptySum DEF StateBytes, GenerationBytes
  <2>2. Limits.metadata_bytes \in Nat /\ Limits.prepared_state_bytes \in Nat
        /\ Limits.generation_bytes \in Nat
    BY RetentionAssumption
  <2> QED
    BY <2>1, <2>2 DEF Accounted, Budget, NoCharges
<1> QED
  BY <1>1, <1>2, <1>3 DEF Sound

\* What a prune has to keep is charged in full, with the candidate, before anything else.
LEMMA ForcedFacts ==
    ASSUME RowsInv, NEW c \in Artifacts \cup {NoArtifact}, NEW r \in Artifacts \cup {NoArtifact}
    PROVE  /\ Forced(c, r) \in Sound(ChargesFor(c, r))
           /\ Forced(c, r).artifacts = Closure(Seen(c, r))
<1> DEFINE found == {c, r} \cap Indexed
           matched == KeepAll(Budget, found)
           room == MakeRoom(Budget, c, r)
           ch == ChargesFor(c, r)
<1>1. found \in SUBSET Indexed /\ Protected \in SUBSET Indexed /\ NoCharges \in Charges
      /\ ch \in Charges
  BY ProtectedRowsAreThere, ChargesType DEF NoCharges, Charges
<1>2. Budget \in Sound(NoCharges) /\ Budget.artifacts = {}
  BY BudgetIsSound DEF Budget
<1>3. matched \in Sound(NoCharges) /\ matched.artifacts = Closure(found)
  <2> HIDE DEF found
  <2>1. /\ KeepAll(Budget, found) \in Sound(NoCharges)
        /\ KeepAll(Budget, found).artifacts = Budget.artifacts \cup Closure(found)
    BY <1>1, <1>2, KeepAllFacts
  <2> QED
    BY <1>2, <2>1
<1>4. room = IF c = NoArtifact \/ c \in Indexed THEN matched
             ELSE Spend(matched, ch.metadata, ch.states, ch.generations)
  BY DEF MakeRoom, ChargesFor
<1> HIDE DEF matched, room, found
<1>5. room \in Sound(ch) /\ room.artifacts = Closure(found)
  <2>1. CASE c = NoArtifact \/ c \in Indexed
    BY <1>3, <1>4, <2>1 DEF ChargesFor
  <2>2. CASE ~(c = NoArtifact \/ c \in Indexed)
    <3> HIDE DEF ch
    <3>1. room = Spend(matched, ch.metadata, ch.states, ch.generations)
      BY <1>4, <2>2
    <3>2. ch.metadata \in Int /\ ch.states \in Int /\ ch.generations \in Int
      BY <1>1 DEF Charges
    <3>3. matched \in KeptSet /\ IsClosed(matched.artifacts) /\ Accounted(matched, NoCharges)
      BY <1>3 DEF Sound
    <3>4. /\ room.metadata = matched.metadata - ch.metadata
          /\ room.states = matched.states - ch.states
          /\ room.generations = matched.generations - ch.generations
          /\ room.artifacts = matched.artifacts
          /\ room \in KeptSet
      BY <3>1, <3>2, <3>3, SpendFacts
    <3>5. /\ SumOf(MetaBytes, matched.artifacts) \in Int /\ StateBytes(matched.artifacts) \in Int
          /\ GenerationBytes(matched.artifacts) \in Int
      BY <3>3, Bytes DEF KeptSet, RowsInv
    <3>6. Limits.metadata_bytes \in Int /\ Limits.prepared_state_bytes \in Int
          /\ Limits.generation_bytes \in Int
      BY RetentionAssumption
    <3>7. Accounted(room, ch)
      BY <3>2, <3>3, <3>4, <3>5, <3>6 DEF Accounted, NoCharges
    <3> QED
      BY <1>3, <3>3, <3>4, <3>7 DEF Sound
  <2> QED
    BY <2>1, <2>2
<1>6. KeepAll(room, Protected) \in Sound(ch)
      /\ KeepAll(room, Protected).artifacts = room.artifacts \cup Closure(Protected)
  <2> HIDE DEF ch
  <2> QED
    BY <1>1, <1>5, KeepAllFacts
<1>7. Closure(found) \cup Closure(Protected) = Closure(Seen(c, r))
  <2>1. Seen(c, r) = found \cup Protected
    BY DEF Seen, found
  <2> QED
    BY <1>1, <2>1, ClosureOf
<1> QED
  BY <1>5, <1>6, <1>7 DEF Forced, room

-----------------------------------------------------------------------------
(* The three passes keep what is kept, and spend no byte that is not there. *)

Later(k0, ch) == {k \in Sound(ch) : k0.artifacts \subseteq k.artifacts /\ (Solvent(k0) => Solvent(k))}

LEMMA LaterKeeps ==
    ASSUME RowsInv, NEW ch \in Charges, NEW k0, NEW k \in Later(k0, ch), NEW a \in Indexed
    PROVE  KeepArtifact(k, a, FALSE) \in Later(k0, ch)
<1> DEFINE no == FALSE
<1>1. no \in BOOLEAN /\ ~no
  OBVIOUS
<1>2. k \in Sound(ch) /\ k0.artifacts \subseteq k.artifacts /\ (Solvent(k0) => Solvent(k))
  BY DEF Later
<1> HIDE DEF no
<1>3. /\ KeepArtifact(k, a, no) \in Sound(ch)
      /\ k.artifacts \subseteq KeepArtifact(k, a, no).artifacts
      /\ Solvent(k) => Solvent(KeepArtifact(k, a, no))
  BY <1>1, <1>2, KeepArtifactFacts
<1>4. KeepArtifact(k, a, no) \in Later(k0, ch)
  BY <1>2, <1>3 DEF Later
<1> QED
  BY <1>4 DEF no

LEMMA LaterIdentity ==
    ASSUME RowsInv, NEW ch \in Charges, NEW k0, NEW k \in Later(k0, ch), NEW i \in Identities
    PROVE  KeepIdentity(k, i) \in Later(k0, ch)
<1> DEFINE after == IF current[i] = NoArtifact THEN k ELSE KeepGeneration(k, current[i], FALSE)
           listed == [after EXCEPT !.identities = @ \cup {i}]
<1>1. i \in Scopes
  BY RetentionAssumption DEF Identities, Artifacts
<1>2. after \in Later(k0, ch)
  <2>1. CASE current[i] = NoArtifact
    BY <2>1
  <2>2. CASE current[i] # NoArtifact
    <3>1. current[i] \in Indexed /\ ScopeOf[current[i]] = i
      BY <1>1, <2>2 DEF RowsInv, RetainedIsClosed, CurrentInScope
    <3>2. current[i] \in KeptGenerations
      <4>1. current[i] \in Artifacts
        BY <3>1, Rows DEF RowsInv
      <4>2. PICK g \in KeptGenerations : i = ScopeOf[g]
        BY DEF Identities
      <4> QED
        BY <3>1, <4>1, <4>2, RetentionAssumption DEF Artifacts
    <3>3. KeepGeneration(k, current[i], FALSE) = KeepArtifact(k, current[i], FALSE)
      BY <3>2 DEF KeepArtifact
    <3> QED
      BY <2>2, <3>1, <3>3, LaterKeeps
  <2> QED
    BY <2>1, <2>2
<1>3. KeepIdentity(k, i) = k \/ KeepIdentity(k, i) = listed
  BY DEF KeepIdentity
<1> HIDE DEF after
<1>4. listed \in Later(k0, ch)
  <2>1. after \in KeptSet /\ IsClosed(after.artifacts) /\ Accounted(after, ch)
        /\ k0.artifacts \subseteq after.artifacts /\ (Solvent(k0) => Solvent(after))
    BY <1>2 DEF Later, Sound
  <2>2. /\ listed.metadata = after.metadata /\ listed.states = after.states
        /\ listed.generations = after.generations /\ listed.artifacts = after.artifacts
        /\ listed \in KeptSet
    BY <1>1, <2>1 DEF KeptSet
  <2> HIDE DEF listed
  <2>3. IsClosed(listed.artifacts) /\ Accounted(listed, ch) /\ (Solvent(k0) => Solvent(listed))
    BY <2>1, <2>2 DEF Accounted, Solvent
  <2> QED
    BY <2>1, <2>2, <2>3 DEF Later, Sound
<1> HIDE DEF listed
<1> QED
  BY <1>3, <1>4

LEMMA LaterOlder ==
    ASSUME RowsInv, NEW ch \in Charges, NEW k0, NEW k \in Later(k0, ch),
           NEW g \in ToSet(generations)
    PROVE  KeepOlder(k, g) \in Later(k0, ch)
<1>1. g \in Indexed /\ g \in KeptGenerations
  BY Rows DEF RowsInv
<1>2. KeepGeneration(k, g, FALSE) = KeepArtifact(k, g, FALSE)
  BY <1>1 DEF KeepArtifact
<1>3. KeepOlder(k, g) = k \/ KeepOlder(k, g) = KeepGeneration(k, g, FALSE)
  BY DEF KeepOlder
<1> QED
  BY <1>1, <1>2, <1>3, LaterKeeps

LEMMA LaterLoose ==
    ASSUME RowsInv, NEW ch \in Charges, NEW k0, NEW k \in Later(k0, ch), NEW s \in ToSet(states)
    PROVE  KeepLoose(k, s) \in Later(k0, ch)
<1>1. s \in Indexed /\ s \notin KeptGenerations
  BY Rows, RetentionAssumption DEF RowsInv
<1>2. Keep(k, {s}, FALSE) = KeepArtifact(k, s, FALSE)
  BY <1>1 DEF KeepArtifact
<1>3. KeepLoose(k, s) = k \/ KeepLoose(k, s) = Keep(k, {s}, FALSE)
  BY DEF KeepLoose
<1> QED
  BY <1>1, <1>2, <1>3, LaterKeeps

\* What Retained keeps: no row without the states it pins, everything it has to, and, when
\* that leaves the limits any room, nothing beyond them.
LEMMA RetainedFacts ==
    ASSUME RowsInv, NEW c \in Artifacts \cup {NoArtifact}, NEW r \in Artifacts \cup {NoArtifact}
    PROVE  Retained(c, r) \in Later(Forced(c, r), ChargesFor(c, r))
<1> DEFINE k0 == Forced(c, r)
           ch == ChargesFor(c, r)
           U == Later(k0, ch)
           recent == FoldLeft(KeepIdentity, k0, touched)
           older == FoldLeft(KeepOlder, recent, generations)
           loose == FoldLeft(KeepLoose, older, states)
<1>1. ch \in Charges /\ k0 \in U
  BY ChargesType, ForcedFacts DEF Later
<1>2. /\ generations \in Seq(KeptGenerations) /\ states \in Seq(KeptStates)
      /\ touched \in Seq(Identities) /\ ToSet(touched) \subseteq Identities
  BY DEF RowsInv, RetentionTypeOK, ToSet
<1>3. Retained(c, r) = loose
  BY DEF Retained, Forced, Budget
<1> HIDE DEF k0, ch
<1>4. recent \in U
  <2>1. \A k \in U, i \in ToSet(touched) : KeepIdentity(k, i) \in U
    BY <1>1, <1>2, LaterIdentity
  <2> HIDE DEF U
  <2> QED
    BY <1>1, <1>2, <2>1, FoldIdentity
<1> HIDE DEF recent
<1>5. older \in U
  <2>1. \A k \in U, g \in ToSet(generations) : KeepOlder(k, g) \in U
    BY <1>1, LaterOlder
  <2> HIDE DEF U
  <2> QED
    BY <1>2, <1>4, <2>1, FoldOlder
<1> HIDE DEF older
<1>6. loose \in U
  <2>1. \A k \in U, s \in ToSet(states) : KeepLoose(k, s) \in U
    BY <1>1, LaterLoose
  <2> HIDE DEF U
  <2> QED
    BY <1>2, <1>5, <2>1, FoldLoose
<1> QED
  BY <1>3, <1>6 DEF k0, ch

-----------------------------------------------------------------------------
(* Steps                                                                   *)

\* What is chosen depends on the rows, the leases, the reservations and the candidate alone.
LEMMA VictimsSame ==
    ASSUME UNCHANGED <<generations, states, touched, current, leased, preparing>>, NEW c, NEW r,
           prune'.candidate = c, prune'.replaced = r
    PROVE  Victims(prune.candidate, prune.replaced)' = Victims(c, r)
<1>1. Protected' = Protected /\ Indexed' = Indexed /\ ProtectedIdentities' = ProtectedIdentities
  BY DEF Protected, Indexed, ProtectedIdentities
<1>2. /\ ChargeOf(MetaBytes, prune.candidate, prune.replaced)' = ChargeOf(MetaBytes, c, r)
      /\ ChargeOf(ContentBytes, prune.candidate, prune.replaced)' = ChargeOf(ContentBytes, c, r)
  BY <1>1 DEF ChargeOf
<1>3. \A k : MakeRoom(k, prune.candidate, prune.replaced)' = MakeRoom(k, c, r)
  BY <1>1, <1>2 DEF MakeRoom
<1>4. \A k : KeepAll(k, Protected)' = KeepAll(k, Protected)
  BY <1>1
<1>5. \A k : FoldLeft(KeepIdentity, k, touched)' = FoldLeft(KeepIdentity, k, touched)
  BY DEF KeepIdentity, FoldLeft, MapThenFoldSet
<1>6. Retained(prune.candidate, prune.replaced)' = Retained(c, r)
  BY <1>1, <1>3, <1>4, <1>5 DEF Retained
<1> QED
  BY <1>1, <1>6 DEF Victims

\* What a prune chooses pins nothing that it leaves, is not needed by what must be kept, and
\* leaves what is within the limits when what must be kept is.
LEMMA VictimFacts ==
    ASSUME RowsInv, NEW c \in Artifacts \cup {NoArtifact}, NEW r \in Artifacts \cup {NoArtifact}
    PROVE  /\ Victims(c, r) \subseteq Indexed
           /\ Victims(c, r) \cap Closure(Seen(c, r)) = {}
           /\ IsClosed(Indexed \ Victims(c, r))
           /\ Forced(c, r).artifacts = Closure(Seen(c, r)) /\ Accounted(Forced(c, r), ChargesFor(c, r))
           /\ Retained(c, r).artifacts = Indexed \ Victims(c, r)
           /\ Accounted(Retained(c, r), ChargesFor(c, r))
           /\ Solvent(Forced(c, r)) => Solvent(Retained(c, r))
<1> DEFINE k == Retained(c, r)
           k0 == Forced(c, r)
           ch == ChargesFor(c, r)
<1>1. k \in Later(k0, ch) /\ k0 \in Sound(ch) /\ k0.artifacts = Closure(Seen(c, r))
  BY RetainedFacts, ForcedFacts
<1>2. Victims(c, r) = Indexed \ k.artifacts
  BY DEF Victims
<1> HIDE DEF k, k0, ch
<1>3. k \in KeptSet /\ IsClosed(k.artifacts) /\ Accounted(k, ch) /\ k0.artifacts \subseteq k.artifacts
      /\ (Solvent(k0) => Solvent(k)) /\ Accounted(k0, ch)
  BY <1>1 DEF Later, Sound
<1>4. k.artifacts \in SUBSET Indexed
  BY <1>3 DEF KeptSet
<1>5. Indexed \ Victims(c, r) = k.artifacts
  BY <1>2, <1>4
<1>6. IsClosed(Indexed \ Victims(c, r))
  BY <1>3, <1>5
<1> QED
  BY <1>1, <1>2, <1>3, <1>5, <1>6 DEF k, k0, ch

\* What is needed by what is protected, or about to be replaced, is in the index.
LEMMA NeededFacts ==
    ASSUME RowsInv
    PROVE  /\ ProtectedRows = Closure(Protected) /\ ProtectedRows \in SUBSET Indexed
           /\ NeededRows = Closure(Seen(prune.candidate, prune.replaced))
           /\ ProtectedRows \subseteq NeededRows /\ NeededRows \in SUBSET Indexed
<1>1. Protected \in SUBSET Indexed
  BY ProtectedRowsAreThere
<1>2. Seen(prune.candidate, prune.replaced) \in SUBSET Indexed
  BY <1>1 DEF Seen
<1>3. ProtectedRows = Closure(Protected)
  BY DEF ProtectedRows, Closure
<1>4. NeededRows = Closure(Seen(prune.candidate, prune.replaced))
  BY DEF NeededRows, Closure, Seen
<1>5. Closure(Protected) \in SUBSET Indexed
  BY <1>1, ClosureOf
<1>6. Closure(Seen(prune.candidate, prune.replaced)) \in SUBSET Indexed
  BY <1>2, ClosureOf
<1>7. Closure(Protected) \subseteq Closure(Seen(prune.candidate, prune.replaced))
  BY DEF Closure, Seen
<1> QED
  BY <1>3, <1>4, <1>5, <1>6, <1>7

LEMMA TouchFacts ==
    ASSUME RowsInv, NEW a \in Artifacts, Touch(a)
    PROVE  /\ generations' \in Seq(KeptGenerations) /\ IsInjective(generations')
           /\ states' \in Seq(KeptStates) /\ IsInjective(states')
           /\ touched' \in Seq(Identities) /\ IsInjective(touched')
           /\ Indexed' = Indexed \cup {a}
           /\ ToSet(touched) \subseteq ToSet(touched')
           /\ a \in KeptGenerations => ScopeOf[a] \in ToSet(touched')
<1>1. /\ generations \in Seq(KeptGenerations) /\ IsInjective(generations)
      /\ states \in Seq(KeptStates) /\ IsInjective(states)
      /\ touched \in Seq(Identities) /\ IsInjective(touched)
  BY DEF RowsInv, RetentionTypeOK
<1>2. CASE a \in KeptGenerations
  <2>1. /\ generations' = ToFront(a, generations) /\ touched' = ToFront(ScopeOf[a], touched)
        /\ states' = states
    BY <1>2 DEF Touch
  <2>2. ScopeOf[a] \in Identities
    BY <1>2 DEF Identities
  <2>3. /\ generations' \in Seq(KeptGenerations) /\ IsInjective(generations')
        /\ ToSet(generations') = ToSet(generations) \cup {a}
    BY <1>1, <1>2, <2>1, ToFrontFacts
  <2>4. /\ touched' \in Seq(Identities) /\ IsInjective(touched')
        /\ ToSet(touched') = ToSet(touched) \cup {ScopeOf[a]}
    BY <1>1, <2>1, <2>2, ToFrontFacts
  <2>5. Indexed' = ToSet(generations') \cup ToSet(states)
    BY <2>1 DEF Indexed
  <2> QED
    BY <1>1, <2>1, <2>3, <2>4, <2>5 DEF Indexed
<1>3. CASE a \notin KeptGenerations
  <2>1. states' = ToFront(a, states) /\ generations' = generations /\ touched' = touched
    BY <1>3 DEF Touch
  <2>2. a \in KeptStates
    BY <1>3 DEF Artifacts
  <2>3. /\ states' \in Seq(KeptStates) /\ IsInjective(states')
        /\ ToSet(states') = ToSet(states) \cup {a}
    BY <1>1, <2>1, <2>2, ToFrontFacts
  <2>4. Indexed' = ToSet(generations) \cup ToSet(states')
    BY <2>1 DEF Indexed
  <2> QED
    BY <1>1, <1>3, <2>1, <2>3, <2>4 DEF Indexed
<1> QED
  BY <1>2, <1>3

\* Leases, reservations and the prune may change: the rows stay what they are.
LEMMA RowsStay ==
    ASSUME RowsInv, UNCHANGED <<generations, states, touched, current>>,
           leased' \subseteq Artifacts, preparing' \subseteq Identities, retiredBytes' \in Nat,
           prune' \in PruneSet
    PROVE  RowsInv' /\ Indexed' = Indexed
<1>1. Indexed' = Indexed
  BY DEF Indexed
<1>2. RetentionTypeOK'
  BY DEF RowsInv, RetentionTypeOK, PruneSet
<1>3. RetainedIsClosed'
  BY <1>1 DEF RowsInv, RetainedIsClosed
<1>4. CurrentInScope'
  BY DEF RowsInv, CurrentInScope
<1> QED
  BY <1>1, <1>2, <1>3, <1>4 DEF RowsInv

LEMMA NoPruneFacts == NoPrune \in PruneSet /\ NoPrune.pc = "none"
  BY DEF NoPrune, PruneSet

LEMMA InitHolds == RetentionInit => RetentionInv
<1> SUFFICES ASSUME RetentionInit PROVE RetentionInv
  OBVIOUS
<1> USE DEF RetentionInit
<1>1. ToSet(<<>>) = {}
  BY DEF ToSet
<1>2. \A S : <<>> \in Seq(S)
  OBVIOUS
<1>3. IsInjective(<<>>)
  BY DEF IsInjective
<1>4. Indexed = {}
  BY <1>1 DEF Indexed
<1>5. RetentionTypeOK
  BY <1>2, <1>3, NoPruneFacts DEF RetentionTypeOK, PruneSet
<1>6. RetainedIsClosed /\ CurrentInScope
  BY <1>4 DEF RetainedIsClosed, CurrentInScope
<1>7. PruneInv /\ ChosenInv /\ RoomIsMade
  BY NoPruneFacts DEF PruneInv, ChosenInv, RoomIsMade, Unlocked
<1> QED
  BY <1>5, <1>6, <1>7 DEF RetentionInv, RowsInv

LEMMA ChangeLeasesKeeps == RetentionInv /\ ChangeLeases => RetentionInv' /\ Indexed' = Indexed
<1> SUFFICES ASSUME RetentionInv, ChangeLeases PROVE RetentionInv' /\ Indexed' = Indexed
  OBVIOUS
<1>1. RowsInv /\ RetentionTypeOK /\ prune \in PruneSet /\ Indexed \subseteq Artifacts
      /\ (prune.pc = "none" <=> Unlocked)
  BY Rows DEF RetentionInv, RowsInv, PruneInv
<1>2. /\ leased' \subseteq Artifacts /\ preparing' \subseteq Identities
      /\ prune' = IF Unlocked THEN prune ELSE [prune EXCEPT !.disturbed = TRUE]
      /\ UNCHANGED <<generations, states, touched, current, retiredBytes>>
  BY <1>1 DEF ChangeLeases, RetentionTypeOK
<1>3. prune' \in PruneSet /\ prune'.pc = prune.pc /\ prune'.victims = prune.victims
      /\ prune'.candidate = prune.candidate /\ (prune'.disturbed \/ prune'.pc = "none")
  BY <1>1, <1>2 DEF PruneSet
<1>4. RowsInv' /\ Indexed' = Indexed
  BY <1>1, <1>2, <1>3, RowsStay DEF RetentionTypeOK
<1>5. Unlocked' <=> Unlocked
  BY <1>1, <1>2, <1>3, NoPruneFacts DEF Unlocked
<1>6. PruneInv'
  BY <1>1, <1>3, <1>5 DEF RetentionInv, PruneInv
<1>7. ChosenInv'
  BY <1>3, <1>4 DEF RetentionInv, ChosenInv, VictimsAreClosed
<1>8. RoomIsMade'
  BY <1>3 DEF RoomIsMade
<1> QED
  BY <1>4, <1>6, <1>7, <1>8 DEF RetentionInv

LEMMA OpenArtifactKeeps ==
    ASSUME RetentionInv, NEW a \in Artifacts, OpenArtifact(a)
    PROVE  RetentionInv' /\ Indexed' = Indexed
<1>1. RowsInv /\ RetentionTypeOK /\ RetainedIsClosed /\ CurrentInScope /\ PruneInv /\ Touch(a)
      /\ Unlocked /\ current[ScopeOf[a]] = a /\ leased' = leased \cup {a}
      /\ UNCHANGED <<current, preparing, retiredBytes, prune>>
  BY DEF RetentionInv, RowsInv, OpenArtifact
<1>2. a \in Indexed
  <2>1. ScopeOf[a] \in Scopes /\ a # NoArtifact
    BY RetentionAssumption
  <2> QED
    BY <1>1, <2>1 DEF RetainedIsClosed
<1>3. Indexed' = Indexed
  BY <1>1, <1>2, TouchFacts
<1>4. RetentionTypeOK'
  BY <1>1, TouchFacts DEF RetentionTypeOK
<1>5. RetainedIsClosed'
  BY <1>1, <1>3, TouchFacts DEF RetainedIsClosed
<1>6. CurrentInScope' /\ PruneInv'
  BY <1>1 DEF CurrentInScope, PruneInv, Unlocked
<1>7. ChosenInv' /\ RoomIsMade'
  BY <1>1, NoPruneFacts DEF Unlocked, ChosenInv, RoomIsMade
<1> QED
  BY <1>3, <1>4, <1>5, <1>6, <1>7 DEF RetentionInv, RowsInv

\* What is chosen stays what would be chosen, as long as no lease and no reservation changes.
LEMMA ChooseVictimsKeeps ==
    ASSUME RetentionInv, NEW c \in Artifacts \cup {NoArtifact}, ChooseVictims(c)
    PROVE  RetentionInv' /\ Indexed' = Indexed
<1> DEFINE r == IF c = NoArtifact THEN NoArtifact ELSE current[ScopeOf[c]]
<1>1. RowsInv /\ RetentionTypeOK /\ RetainedIsClosed
  BY DEF RetentionInv, RowsInv
<1>2. r \in Artifacts \cup {NoArtifact}
  BY <1>1, RetentionAssumption DEF RetentionTypeOK
<1>3. /\ prune' = [pc |-> "chosen", victims |-> Victims(c, r), candidate |-> c, replaced |-> r,
                   disturbed |-> FALSE]
      /\ UNCHANGED <<generations, states, touched, current, leased, preparing, retiredBytes>>
  BY DEF ChooseVictims
<1> HIDE DEF r
<1>4. /\ Victims(c, r) \subseteq Indexed /\ Indexed \subseteq Artifacts
      /\ IsClosed(Indexed \ Victims(c, r))
  BY <1>1, <1>2, VictimFacts, Rows
<1>5. prune' \in PruneSet
  BY <1>2, <1>3, <1>4 DEF PruneSet
<1>6. RowsInv' /\ Indexed' = Indexed
  BY <1>1, <1>3, <1>5, RowsStay DEF RetentionTypeOK
<1>7. PruneInv'
  BY <1>3, <1>5, NoPruneFacts DEF PruneInv, Unlocked
<1>8. Victims(prune.candidate, prune.replaced)' = Victims(c, r)
  <2>1. UNCHANGED <<generations, states, touched, current, leased, preparing>>
    BY <1>3
  <2>2. prune'.candidate = c /\ prune'.replaced = r
    BY <1>3
  <2> QED
    BY <2>1, <2>2, VictimsSame
<1>9. ChosenInv'
  <2>1. VictimsAreClosed'
    BY <1>3, <1>4, <1>6 DEF VictimsAreClosed, IsClosed
  <2> QED
    BY <1>3, <1>8, <2>1 DEF ChosenInv
<1>10. RoomIsMade'
  BY <1>3 DEF RoomIsMade
<1> QED
  BY <1>6, <1>7, <1>9, <1>10 DEF RetentionInv

LEMMA CleanupRetiredKeeps == RetentionInv /\ CleanupRetired => RetentionInv' /\ Indexed' = Indexed
<1> SUFFICES ASSUME RetentionInv, CleanupRetired PROVE RetentionInv' /\ Indexed' = Indexed
  OBVIOUS
<1>1. RowsInv /\ RetentionTypeOK /\ PruneInv /\ Unlocked /\ retiredBytes' = 0
      /\ UNCHANGED <<generations, states, touched, current, leased, preparing, prune>>
  BY DEF RetentionInv, RowsInv, CleanupRetired
<1>2. RowsInv' /\ Indexed' = Indexed
  BY <1>1, RowsStay DEF RetentionTypeOK, PruneInv
<1>3. PruneInv' /\ ChosenInv' /\ RoomIsMade'
  BY <1>1, NoPruneFacts DEF PruneInv, Unlocked, ChosenInv, RoomIsMade
<1> QED
  BY <1>2, <1>3 DEF RetentionInv

LEMMA RefuseKeeps == RetentionInv /\ Refuse => RetentionInv' /\ Indexed' = Indexed
<1> SUFFICES ASSUME RetentionInv, Refuse PROVE RetentionInv' /\ Indexed' = Indexed
  OBVIOUS
<1>1. RowsInv /\ RetentionTypeOK /\ prune' = NoPrune
      /\ UNCHANGED <<generations, states, touched, current, leased, preparing, retiredBytes>>
  BY DEF RetentionInv, RowsInv, Refuse
<1>2. RowsInv' /\ Indexed' = Indexed
  BY <1>1, RowsStay, NoPruneFacts DEF RetentionTypeOK
<1>3. PruneInv' /\ ChosenInv' /\ RoomIsMade'
  BY <1>1, NoPruneFacts DEF PruneInv, Unlocked, ChosenInv, RoomIsMade
<1> QED
  BY <1>2, <1>3 DEF RetentionInv

LEMMA AdmitKeeps == RetentionInv /\ Admit => RetentionInv' /\ Indexed \subseteq Indexed'
<1> SUFFICES ASSUME RetentionInv, Admit PROVE RetentionInv' /\ Indexed \subseteq Indexed'
  OBVIOUS
<1> DEFINE c == prune.candidate
<1>1. /\ RowsInv /\ RetentionTypeOK /\ RetainedIsClosed /\ CurrentInScope /\ PruneInv
      /\ c \in Artifacts /\ Touch(c) /\ current' = [current EXCEPT ![ScopeOf[c]] = c]
      /\ leased' = leased \cup {c} /\ prune' = NoPrune /\ UNCHANGED <<preparing, retiredBytes>>
      /\ (c \in KeptGenerations => Pinned[c] \subseteq Indexed)
  BY DEF RetentionInv, RowsInv, PruneInv, Admit, Admissible
<1> HIDE DEF c
<1>2. Indexed' = Indexed \cup {c} /\ ToSet(touched) \subseteq ToSet(touched')
      /\ (c \in KeptGenerations => ScopeOf[c] \in ToSet(touched'))
  BY <1>1, TouchFacts
<1>3. current' \in [Scopes -> Artifacts \cup {NoArtifact}]
      /\ \A k \in Scopes : current'[k] = current[k] \/ (k = ScopeOf[c] /\ current'[k] = c)
  BY <1>1, RetentionAssumption DEF RetentionTypeOK
<1>4. RetentionTypeOK'
  BY <1>1, <1>3, TouchFacts, NoPruneFacts DEF RetentionTypeOK, PruneSet
<1>5. RetainedIsClosed'
  <2>1. ASSUME NEW g \in Indexed' \cap KeptGenerations
        PROVE  Pinned[g] \subseteq Indexed' /\ ScopeOf[g] \in ToSet(touched')
    BY <1>1, <1>2 DEF RetainedIsClosed
  <2>2. \A k \in Scopes : current'[k] \in Indexed' \cup {NoArtifact}
    BY <1>1, <1>2, <1>3 DEF RetainedIsClosed
  <2> QED
    BY <2>1, <2>2 DEF RetainedIsClosed
<1>6. CurrentInScope'
  BY <1>1, <1>3 DEF CurrentInScope
<1>7. PruneInv' /\ ChosenInv' /\ RoomIsMade'
  BY <1>1, NoPruneFacts DEF PruneInv, Unlocked, ChosenInv, RoomIsMade
<1> QED
  BY <1>2, <1>4, <1>5, <1>6, <1>7 DEF RetentionInv, RowsInv

\* What goes was a victim when the prune chose and is one when it removes.
Going == StillVictims
Bare == {i \in Identities : current'[i] = NoArtifact /\ \A g \in ToSet(generations') : ScopeOf[g] # i}

LEMMA RemoveFacts ==
    ASSUME RetentionInv, NEW deleted \in BOOLEAN, RemoveVictims(deleted)
    PROVE  /\ generations' = Without(generations, Going) /\ states' = Without(states, Going)
           /\ current' = [k \in Scopes |-> IF current[k] \in Going THEN NoArtifact ELSE current[k]]
           /\ touched' = Without(touched, Bare)
           /\ retiredBytes' \in Nat
           /\ \/ prune' = NoPrune
              \/ /\ prune.candidate # NoArtifact
                 /\ prune' = [prune EXCEPT !.pc = "admit", !.victims = {}]
           /\ prune.pc = "chosen" /\ UNCHANGED <<leased, preparing>>
           /\ Going \subseteq Indexed
<1>1. RowsInv /\ RetentionTypeOK /\ prune \in PruneSet
  BY DEF RetentionInv, RowsInv, PruneInv
<1>2. Going \subseteq Indexed
  <2>1. prune.candidate \in Artifacts \cup {NoArtifact}
        /\ prune.replaced \in Artifacts \cup {NoArtifact}
    BY <1>1 DEF PruneSet
  <2> QED
    BY <1>1, <2>1, VictimFacts DEF Going, StillVictims
<1>3. StateBytes(Going) \in Nat /\ GenerationBytes(Going) \in Nat /\ retiredBytes \in Nat
  BY <1>1, <1>2, Bytes DEF RetentionTypeOK
<1>4. retiredBytes' = IF deleted THEN retiredBytes
                      ELSE retiredBytes + StateBytes(Going) + GenerationBytes(Going)
  BY DEF RemoveVictims, Going
<1>5. retiredBytes' \in Nat
  BY <1>3, <1>4
<1> QED
  BY <1>2, <1>5 DEF RemoveVictims, Going, Bare

LEMMA RemoveRows ==
    ASSUME RetentionInv, NEW deleted \in BOOLEAN, RemoveVictims(deleted)
    PROVE  /\ RowsInv' /\ PruneInv' /\ Indexed' = Indexed \ Going
           /\ ToSet(touched') = ToSet(touched) \ Bare
           /\ ToSet(generations') = ToSet(generations) \ Going
<1> DEFINE c == prune.candidate
           r == prune.replaced
<1>1. /\ RowsInv /\ RetentionTypeOK /\ RetainedIsClosed /\ CurrentInScope /\ prune \in PruneSet
      /\ ChosenInv
  BY DEF RetentionInv, RowsInv, PruneInv
<1>2. c \in Artifacts \cup {NoArtifact} /\ r \in Artifacts \cup {NoArtifact}
  BY <1>1 DEF PruneSet
<1>3. /\ generations' \in Seq(KeptGenerations) /\ IsInjective(generations')
      /\ ToSet(generations') = ToSet(generations) \ Going
  BY <1>1, RemoveFacts, WithoutFacts DEF RetentionTypeOK
<1>4. /\ states' \in Seq(KeptStates) /\ IsInjective(states')
      /\ ToSet(states') = ToSet(states) \ Going
  BY <1>1, RemoveFacts, WithoutFacts DEF RetentionTypeOK
<1>5. /\ touched' \in Seq(Identities) /\ IsInjective(touched')
      /\ ToSet(touched') = ToSet(touched) \ Bare
  <2> DEFINE gone == Bare
  <2>1. touched' = Without(touched, gone)
    BY RemoveFacts
  <2> HIDE DEF gone
  <2>2. /\ touched' \in Seq(Identities) /\ IsInjective(touched')
        /\ ToSet(touched') = ToSet(touched) \ gone
    BY <1>1, <2>1, WithoutFacts DEF RetentionTypeOK
  <2> QED
    BY <2>2 DEF gone
<1>6. Indexed' = Indexed \ Going
  BY <1>3, <1>4 DEF Indexed
<1>7. prune' \in PruneSet
  BY <1>1, RemoveFacts, NoPruneFacts DEF PruneSet
<1>8. current' \in [Scopes -> Artifacts \cup {NoArtifact}]
      /\ \A k \in Scopes : current'[k] = NoArtifact
                             \/ (current'[k] = current[k] /\ current[k] \notin Going)
  BY <1>1, RemoveFacts DEF RetentionTypeOK
<1>9. RetentionTypeOK'
  BY <1>1, <1>3, <1>4, <1>5, <1>7, <1>8, RemoveFacts DEF RetentionTypeOK, PruneSet
<1>10. RetainedIsClosed'
  <2>1. ASSUME NEW g \in Indexed' \cap KeptGenerations
        PROVE  Pinned[g] \subseteq Indexed' /\ ScopeOf[g] \in ToSet(touched')
    <3>1. g \in Indexed /\ g \notin Going /\ Pinned[g] \subseteq Indexed
          /\ ScopeOf[g] \in ToSet(touched)
      BY <1>1, <1>6, <2>1 DEF RetainedIsClosed
    <3>2. Pinned[g] \cap Going = {}
      <4>1. CASE g \notin prune.victims
        <5>1. Pinned[g] \cap prune.victims = {}
          BY <1>1, <2>1, <3>1, <4>1, RemoveFacts DEF ChosenInv, VictimsAreClosed
        <5> QED
          BY <5>1 DEF Going, StillVictims
      <4>2. CASE g \notin Victims(c, r)
        <5>1. IsClosed(Indexed \ Victims(c, r))
          BY <1>1, <1>2, VictimFacts
        <5>2. Pinned[g] \cap Victims(c, r) = {}
          BY <2>1, <3>1, <4>2, <5>1 DEF IsClosed
        <5> QED
          BY <5>2 DEF Going, StillVictims
      <4> QED
        BY <3>1, <4>1, <4>2 DEF Going, StillVictims
    <3>3. ScopeOf[g] \notin Bare
      <4>1. g \in ToSet(generations')
        BY <1>1, <1>3, <2>1, <3>1, Rows
      <4> QED
        BY <4>1 DEF Bare
    <3> QED
      BY <1>5, <1>6, <3>1, <3>2, <3>3
  <2>2. \A k \in Scopes : current'[k] \in Indexed' \cup {NoArtifact}
    BY <1>1, <1>6, <1>8 DEF RetainedIsClosed
  <2> QED
    BY <2>1, <2>2 DEF RetainedIsClosed
<1>11. CurrentInScope'
  BY <1>1, <1>8 DEF CurrentInScope
<1>12. PruneInv'
  <2>1. CASE prune' = NoPrune
    BY <2>1, NoPruneFacts DEF PruneInv, Unlocked
  <2>2. CASE c # NoArtifact /\ prune' = [prune EXCEPT !.pc = "admit", !.victims = {}]
    <3>1. prune'.pc = "admit" /\ prune'.candidate \in Artifacts
      BY <1>1, <1>2, <2>2 DEF PruneSet
    <3> QED
      BY <1>7, <3>1, NoPruneFacts DEF PruneInv, Unlocked
  <2> QED
    BY <2>1, <2>2, RemoveFacts
<1> QED
  BY <1>3, <1>5, <1>6, <1>9, <1>10, <1>11, <1>12 DEF RowsInv

\* Nothing that is protected goes, and what is protected stays protected.
LEMMA RemoveSpares ==
    ASSUME RetentionInv, NEW deleted \in BOOLEAN, RemoveVictims(deleted)
    PROVE  /\ Seen(prune.candidate, prune.replaced) \subseteq Indexed'
           /\ ProtectedRows \subseteq Indexed'
           /\ Protected' = Protected
<1> DEFINE c == prune.candidate
           r == prune.replaced
<1>1. /\ RowsInv /\ RetentionTypeOK /\ RetainedIsClosed
      /\ c \in Artifacts \cup {NoArtifact} /\ r \in Artifacts \cup {NoArtifact}
  BY DEF RetentionInv, RowsInv, PruneInv, PruneSet
<1>2. Going \cap Closure(Seen(c, r)) = {}
  BY <1>1, VictimFacts DEF Going, StillVictims
<1>3. Seen(c, r) \subseteq Indexed /\ Seen(c, r) \subseteq Closure(Seen(c, r))
      /\ Protected \subseteq Seen(c, r)
  BY <1>1, ProtectedRowsAreThere DEF Seen, Closure
<1>4. Indexed' = Indexed \ Going /\ ToSet(touched') = ToSet(touched) \ Bare
  BY RemoveRows
<1>5. Seen(c, r) \subseteq Indexed'
  BY <1>2, <1>3, <1>4
<1>6. ProtectedRows \subseteq Indexed'
  BY <1>1, <1>2, <1>4, NeededFacts
<1>7. Protected \subseteq Indexed' /\ leased \cap Indexed \subseteq Protected
  BY <1>3, <1>5 DEF Protected
<1>8. leased' = leased /\ preparing' = preparing
  BY RemoveFacts
<1>9. leased' \cap Indexed' = leased \cap Indexed
  BY <1>4, <1>7, <1>8
<1>10. ProtectedIdentities' \subseteq ProtectedIdentities
  BY <1>4, <1>8 DEF ProtectedIdentities
<1>11. \A i \in Scopes : current'[i] = IF current[i] \in Going THEN NoArtifact ELSE current[i]
  BY RemoveFacts
<1>12. ProtectedIdentities \subseteq Scopes
  BY <1>1, ProtectedRowsAreThere
<1>13. Protected' \subseteq Protected
  <2>1. ASSUME NEW i \in ProtectedIdentities' \cap ToSet(touched'), current'[i] # NoArtifact
        PROVE  current'[i] \in Protected
    <3>1. i \in ProtectedIdentities \cap ToSet(touched) /\ i \in Scopes
      BY <1>4, <1>10, <1>12, <2>1
    <3>2. current'[i] = current[i]
      BY <1>11, <2>1, <3>1
    <3> QED
      BY <2>1, <3>1, <3>2 DEF Protected
  <2> QED
    BY <1>7, <1>9, <2>1 DEF Protected
<1>14. Protected \subseteq Protected'
  <2>1. ASSUME NEW i \in ProtectedIdentities \cap ToSet(touched), current[i] # NoArtifact
        PROVE  current[i] \in Protected'
    <3>1. current[i] \in Protected
      BY <2>1 DEF Protected
    <3>2. current[i] \notin Going
      BY <1>4, <1>7, <3>1
    <3>3. i \in Scopes /\ current'[i] = current[i]
      BY <1>11, <1>12, <2>1, <3>2
    <3>4. i \in ToSet(touched')
      BY <1>4, <2>1, <3>3 DEF Bare
    <3>5. i \in ProtectedIdentities'
      BY <1>8, <2>1, <3>4 DEF ProtectedIdentities
    <3> QED
      BY <2>1, <3>3, <3>4, <3>5 DEF Protected
  <2> QED
    BY <1>9, <2>1 DEF Protected
<1> QED
  BY <1>5, <1>6, <1>13, <1>14

\* What a prune leaves fits with its candidate when what must be kept does.
LEMMA RemoveMakesRoom ==
    ASSUME RetentionInv, NEW deleted \in BOOLEAN, RemoveVictims(deleted)
    PROVE  RoomIsMade'
<1> SUFFICES ASSUME prune'.pc = "admit", ~prune'.disturbed, RoomBesideNeeded',
                    prune'.candidate \notin Indexed'
             PROVE  (WithinKind /\ WithinMetadata)'
  BY DEF RoomIsMade
<1> DEFINE c == prune.candidate
           r == prune.replaced
           ch == ChargesFor(c, r)
           k == Retained(c, r)
           k0 == Forced(c, r)
<1>1. /\ RowsInv /\ RetentionTypeOK /\ prune \in PruneSet /\ ChosenInv
      /\ c \in Artifacts \cup {NoArtifact} /\ r \in Artifacts \cup {NoArtifact}
  BY DEF RetentionInv, RowsInv, PruneInv, PruneSet
<1>2. /\ c # NoArtifact /\ prune'.candidate = c /\ prune'.replaced = r /\ ~prune.disturbed
      /\ prune.pc = "chosen"
  BY <1>1, RemoveFacts, NoPruneFacts DEF PruneSet
<1>3. Seen(c, r) \subseteq Indexed' /\ Protected' = Protected /\ Indexed' = Indexed \ Going
  BY RemoveSpares, RemoveRows
<1>4. c \notin Indexed /\ (r \in Indexed' <=> r \in Indexed)
  BY <1>2, <1>3 DEF Seen
<1>5. Going = Victims(c, r)
  BY <1>1, <1>2 DEF Going, StillVictims, ChosenInv
<1>6. /\ k.artifacts = Indexed' /\ Accounted(k, ch) /\ k0.artifacts = Closure(Seen(c, r))
      /\ Accounted(k0, ch) /\ (Solvent(k0) => Solvent(k))
  BY <1>1, <1>3, <1>5, VictimFacts
<1>7. NeededRows' = Closure(Seen(c, r))
  <2>1. Protected' \cup ({prune'.candidate, prune'.replaced} \cap Indexed') = Seen(c, r)
    BY <1>2, <1>3, <1>4 DEF Seen
  <2> QED
    BY <2>1 DEF NeededRows, Closure
<1>8. \A size : Charge(size)' = ChargeOf(size, c, r)
  BY <1>2, <1>3, <1>4 DEF Charge, Credit, ChargeOf
<1> DEFINE meta == ChargeOf(MetaBytes, c, r)
           content == ChargeOf(ContentBytes, c, r)
           N == Closure(Seen(c, r))
<1>9. Charge(MetaBytes)' = meta /\ Charge(ContentBytes)' = content
  BY <1>8
<1>10. /\ ch.metadata = meta /\ ch.states = (IF c \in KeptStates THEN content ELSE 0)
       /\ ch.generations = (IF c \in KeptGenerations THEN content ELSE 0)
  BY <1>2, <1>4 DEF ChargesFor
<1>11. ch \in Charges
  BY <1>1, ChargesType
<1>12. /\ SumOf(MetaBytes, N) \in Nat /\ StateBytes(N) \in Nat /\ GenerationBytes(N) \in Nat
       /\ SumOf(MetaBytes, Indexed \ Going) \in Nat /\ StateBytes(Indexed \ Going) \in Nat
       /\ GenerationBytes(Indexed \ Going) \in Nat
  <2>1. N \in SUBSET Indexed /\ Indexed \ Going \in SUBSET Indexed
    BY <1>1, NeededFacts
  <2> HIDE DEF N
  <2> QED
    BY <1>1, <2>1, Bytes
<1>13. /\ Limits.metadata_bytes \in Int /\ Limits.prepared_state_bytes \in Int
       /\ Limits.generation_bytes \in Int
  BY RetentionAssumption
<1>14. /\ SumOf(MetaBytes, N) + meta <= Limits.metadata_bytes
       /\ StateBytes(N) + ch.states <= Limits.prepared_state_bytes
       /\ GenerationBytes(N) + ch.generations <= Limits.generation_bytes
  BY <1>2, <1>7, <1>9, <1>10 DEF RoomBesideNeeded
<1> HIDE DEF ch, k, k0, N, meta, content
<1>15. Solvent(k0)
  BY <1>6, <1>10, <1>11, <1>12, <1>13, <1>14 DEF Solvent, Accounted, Charges, N
<1>16. /\ SumOf(MetaBytes, Indexed') + meta <= Limits.metadata_bytes
       /\ StateBytes(Indexed') + ch.states <= Limits.prepared_state_bytes
       /\ GenerationBytes(Indexed') + ch.generations <= Limits.generation_bytes
  BY <1>3, <1>6, <1>10, <1>11, <1>12, <1>13, <1>15 DEF Solvent, Accounted, Charges
<1>17. c \in KeptStates \/ c \in KeptGenerations
  BY <1>1, <1>2 DEF Artifacts
<1>18. WithinMetadata'
  BY <1>9, <1>16 DEF WithinMetadata
<1>19. WithinKind'
  BY <1>2, <1>9, <1>10, <1>16, <1>17 DEF WithinKind
<1> QED
  BY <1>18, <1>19

LEMMA RemoveVictimsKeeps ==
    ASSUME RetentionInv, NEW deleted \in BOOLEAN, RemoveVictims(deleted)
    PROVE  RetentionInv'
<1>1. ChosenInv'
  BY RemoveFacts, NoPruneFacts DEF ChosenInv, RetentionInv, PruneInv, PruneSet
<1> QED
  BY <1>1, RemoveRows, RemoveMakesRoom DEF RetentionInv

-----------------------------------------------------------------------------
(* Theorems                                                                *)

LEMMA StepKeeps ==
    RetentionInv /\ [RetentionNext]_retentionVars => RetentionInv' /\ ProtectedRows \subseteq Indexed'
<1> SUFFICES ASSUME RetentionInv, [RetentionNext]_retentionVars
             PROVE  RetentionInv' /\ ProtectedRows \subseteq Indexed'
  OBVIOUS
<1>1. ProtectedRows \subseteq Indexed
  BY NeededFacts DEF RetentionInv
<1>2. CASE ChangeLeases
  BY <1>1, <1>2, ChangeLeasesKeeps
<1>3. CASE \E a \in Artifacts : OpenArtifact(a)
  BY <1>1, <1>3, OpenArtifactKeeps
<1>4. CASE \E c \in Artifacts \cup {NoArtifact} : ChooseVictims(c)
  BY <1>1, <1>4, ChooseVictimsKeeps
<1>5. CASE \E deleted \in BOOLEAN : RemoveVictims(deleted)
  BY <1>5, RemoveVictimsKeeps, RemoveSpares
<1>6. CASE CleanupRetired
  BY <1>1, <1>6, CleanupRetiredKeeps
<1>7. CASE Admit
  BY <1>1, <1>7, AdmitKeeps
<1>8. CASE Refuse
  BY <1>1, <1>8, RefuseKeeps
<1>9. CASE UNCHANGED retentionVars
  <2>1. UNCHANGED <<generations, states, touched, current, leased, preparing, retiredBytes, prune>>
    BY <1>9 DEF retentionVars
  <2>2. RowsInv' /\ Indexed' = Indexed
    BY <2>1, RowsStay DEF RetentionInv, RowsInv, RetentionTypeOK, PruneInv
  <2>3. PruneInv'
    BY <2>1 DEF RetentionInv, PruneInv, Unlocked
  <2>4. ChosenInv'
    <3>1. Victims(prune.candidate, prune.replaced)' = Victims(prune.candidate, prune.replaced)
      BY <2>1, VictimsSame
    <3>2. VictimsAreClosed' <=> VictimsAreClosed
      BY <2>1, <2>2 DEF VictimsAreClosed
    <3> QED
      BY <2>1, <3>1, <3>2 DEF RetentionInv, ChosenInv
  <2>5. RoomIsMade'
    <3>1. Protected' = Protected
      BY <2>1, <2>2 DEF Protected, ProtectedIdentities
    <3>2. NeededRows' = NeededRows
      BY <2>1, <2>2, <3>1 DEF NeededRows
    <3>3. \A size : Charge(size)' = Charge(size)
      BY <2>1, <2>2 DEF Charge, Credit
    <3>4. Charge(MetaBytes)' = Charge(MetaBytes) /\ Charge(ContentBytes)' = Charge(ContentBytes)
      BY <3>3
    <3>5. RoomBesideNeeded' <=> RoomBesideNeeded
      BY <2>1, <3>2, <3>4 DEF RoomBesideNeeded
    <3>6. (WithinKind /\ WithinMetadata)' <=> (WithinKind /\ WithinMetadata)
      BY <2>1, <2>2, <3>4 DEF WithinKind, WithinMetadata
    <3> QED
      BY <2>1, <2>2, <3>5, <3>6 DEF RetentionInv, RoomIsMade
  <2> QED
    BY <1>1, <2>2, <2>3, <2>4, <2>5 DEF RetentionInv
<1> QED
  BY <1>2, <1>3, <1>4, <1>5, <1>6, <1>7, <1>8, <1>9 DEF RetentionNext

\* The rows of the index are unique and of their kind, whatever prunes and commits do.
THEOREM RetentionTypeCorrect == RetentionSpec => []RetentionTypeOK
<1>1. RetentionInv => RetentionTypeOK
  BY DEF RetentionInv, RowsInv
<1> QED
  BY <1>1, InitHolds, StepKeeps, PTL DEF RetentionSpec

\* A prune removes no row that one it leaves refers to, and makes the room its commit is
\* going to ask for whenever what it must keep leaves any.
THEOREM PruneMakesRoom == RetentionSpec => []AdmissionMakesRoom
<1>1. RetentionInv => AdmissionMakesRoom
  BY DEF RetentionInv, RowsInv, AdmissionMakesRoom
<1> QED
  BY <1>1, InitHolds, StepKeeps, PTL DEF RetentionSpec

\* No step removes a row that is leased, that a leased generation contains, or that is current
\* in a reserved identity.
THEOREM ProtectedRowsStay == RetentionSpec => ProtectedIsKept
<1>1. ASSUME RetentionInv, [RetentionNext]_retentionVars
      PROVE  [ProtectedRows \subseteq ToSet(generations') \cup ToSet(states')]_retentionVars
  BY <1>1, StepKeeps DEF Indexed
<1> QED
  BY <1>1, InitHolds, StepKeeps, PTL DEF RetentionSpec, ProtectedIsKept
================================================================================
