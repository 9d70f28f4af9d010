----------------------------- MODULE CatalogReset -----------------------------
(***************************************************************************)
(* Opening a repository whose catalog cannot be used any more.             *)
(*                                                                         *)
(* A process that finds the schema incompatible, or the file corrupt,      *)
(* renames the catalog, makes an empty one, and then retires what the old  *)
(* catalog indexed: the renamed file, and the trees of the artifacts, for  *)
(* which it takes the maintenance lock.  Other processes open, commit to   *)
(* and close the same repository meanwhile.  A catalog is a node of the    *)
(* file system that is found by its name again for every transaction.      *)
(***************************************************************************)
EXTENDS Naturals, FiniteSets

CONSTANTS
    Openers,         \* processes that open the repository
    CommittedTrees,  \* artifacts they commit
    MaxCatalogs,     \* bound: catalogs that were ever made
    MaxBroken        \* bound: catalogs that become unusable

Catalogs == 1..MaxCatalogs
NoCatalog == 0

ASSUME ResetAssumption == MaxCatalogs \in Nat /\ MaxBroken \in Nat

VARIABLES
    catalogAt,   \* the node at catalog.sqlite3
    usable,      \* catalogs whose schema and content are right
    catalogRows, \* of each catalog: the artifacts it indexes
    treesOnDisk, \* artifacts whose tree is in its place
    openerPc,    \* of each process: its place in ExportRepository.__init__
    sawBroken,   \* of each process: the catalog it found unusable
    snapshots,   \* renamed catalogs that are still there
    replacedCatalogs, \* of each process: the catalog it has renamed
    made,        \* history: catalogs made so far
    broken,      \* history: catalogs that became unusable
    mistaken,    \* history: a rename or a removal met what it was not meant for
    unfinished   \* history: a reset was left before its end

resetVars == <<catalogAt, usable, catalogRows, treesOnDisk, openerPc, sawBroken, snapshots,
               replacedCatalogs, made, broken, mistaken, unfinished>>

ResetTypeOK ==
    /\ catalogAt \in Catalogs \cup {NoCatalog}
    /\ usable \subseteq Catalogs
    /\ catalogRows \in [Catalogs -> SUBSET CommittedTrees]
    /\ treesOnDisk \subseteq CommittedTrees
    /\ openerPc \in [Openers -> {"closed", "open", "confirm", "rename", "create", "snapshots",
                                 "unindexed", "ready"}]
    /\ sawBroken \in [Openers -> Catalogs \cup {NoCatalog}]
    /\ snapshots \subseteq Catalogs
    /\ replacedCatalogs \in [Openers -> SUBSET Catalogs]
    /\ made \in 0..MaxCatalogs
    /\ broken \in 0..MaxBroken
    /\ mistaken \in BOOLEAN
    /\ unfinished \in BOOLEAN

ResetInit ==
    /\ catalogAt = NoCatalog
    /\ usable = {}
    /\ catalogRows = [c \in Catalogs |-> {}]
    /\ treesOnDisk = {}
    /\ openerPc = [p \in Openers |-> "closed"]
    /\ sawBroken = [p \in Openers |-> NoCatalog]
    /\ snapshots = {}
    /\ replacedCatalogs = [p \in Openers |-> {}]
    /\ made = 0
    /\ broken = 0
    /\ mistaken = FALSE
    /\ unfinished = FALSE

-----------------------------------------------------------------------------
InOpening(p, pc) == openerPc[p] = pc
Advance(p, pc) == openerPc' = [openerPc EXCEPT ![p] = pc]

\* SqliteCatalog(path) at its end: the file exists and has the schema.
MakeCatalog ==
    IF catalogAt = NoCatalog
    THEN /\ made < MaxCatalogs
         /\ made' = made + 1
         /\ catalogAt' = made + 1
         /\ usable' = usable \cup {made + 1}
    ELSE UNCHANGED <<made, catalogAt, usable>>

\* open_catalog: the schema is looked at in one transaction.  An incompatible
\* catalog is renamed; of a corrupt one a second look makes sure.
OpenCatalog(p) ==
    /\ InOpening(p, "closed") \/ InOpening(p, "open")
    /\ IF catalogAt # NoCatalog /\ catalogAt \notin usable
       THEN /\ sawBroken' = [sawBroken EXCEPT ![p] = catalogAt]
            /\ \E pc \in {"confirm", "rename"} : Advance(p, pc)
            /\ UNCHANGED <<made, catalogAt, usable>>
       ELSE MakeCatalog /\ Advance(p, "ready") /\ UNCHANGED sawBroken
    /\ UNCHANGED <<catalogRows, treesOnDisk, snapshots, replacedCatalogs, broken, mistaken, unfinished>>

\* _confirmed_corruption: the first error is raised if the file is all right.
ConfirmCorruption(p) ==
    /\ InOpening(p, "confirm")
    /\ Advance(p, IF catalogAt # NoCatalog /\ catalogAt \notin usable THEN "rename" ELSE "closed")
    /\ UNCHANGED <<catalogAt, usable, catalogRows, treesOnDisk, sawBroken, snapshots,
                   replacedCatalogs, made, broken, mistaken, unfinished>>

\* _quarantine_database: what is at the path by now is renamed, and the files of
\* SQLite beside it with it (that they may be there alone is left out).
RenameCatalog(p) ==
    /\ InOpening(p, "rename")
    /\ catalogAt' = NoCatalog
    /\ snapshots' = snapshots \cup ({catalogAt} \ {NoCatalog})
    /\ replacedCatalogs' = [replacedCatalogs EXCEPT ![p] = {catalogAt} \ {NoCatalog}]
    /\ mistaken' = (mistaken \/ catalogAt \in usable)
    /\ Advance(p, "create")
    /\ UNCHANGED <<usable, catalogRows, treesOnDisk, sawBroken, made, broken, unfinished>>

\* Mutation of CreateCatalog: the repository is ready before the old trees go.
CreateOnly(p) ==
    /\ InOpening(p, "create")
    /\ MakeCatalog /\ Advance(p, "ready")
    /\ UNCHANGED <<catalogRows, treesOnDisk, sawBroken, snapshots, replacedCatalogs, broken, mistaken, unfinished>>

\* The second SqliteCatalog(path) raises if the file is unusable again.  With
\* nothing renamed, nothing is left to retire.
CreateCatalog(p) ==
    /\ InOpening(p, "create")
    /\ IF catalogAt # NoCatalog /\ catalogAt \notin usable
       THEN Advance(p, "closed") /\ unfinished' = TRUE /\ UNCHANGED <<made, catalogAt, usable>>
       ELSE /\ MakeCatalog
            /\ Advance(p, IF replacedCatalogs[p] = {} THEN "ready" ELSE "snapshots")
            /\ UNCHANGED unfinished
    /\ UNCHANGED <<catalogRows, treesOnDisk, sawBroken, snapshots, replacedCatalogs, broken, mistaken>>

\* retire_catalog_snapshots
RetireSnapshots(p) ==
    /\ InOpening(p, "snapshots")
    /\ snapshots' = snapshots \ replacedCatalogs[p]
    /\ replacedCatalogs' = [replacedCatalogs EXCEPT ![p] = {}]
    /\ Advance(p, "unindexed")
    /\ UNCHANGED <<catalogAt, usable, catalogRows, treesOnDisk, sawBroken, made, broken, mistaken, unfinished>>

CurrentRows == IF catalogAt = NoCatalog THEN {} ELSE catalogRows[catalogAt]

\* retire_unindexed_artifacts: the roots of all trees are moved away.
RetireUnindexed(p) ==
    /\ InOpening(p, "unindexed")
    /\ treesOnDisk' = {}
    /\ mistaken' = (mistaken \/ treesOnDisk \cap CurrentRows # {})
    /\ Advance(p, "ready")
    /\ UNCHANGED <<catalogAt, usable, catalogRows, sawBroken, snapshots, replacedCatalogs, made, broken, unfinished>>

\* A commit by a repository that is open (module ArtifactStore); the catalog is
\* connected to by its name.
CommitTree(p, a) ==
    /\ InOpening(p, "ready")
    /\ catalogAt \in usable
    /\ a \notin CurrentRows
    /\ treesOnDisk' = treesOnDisk \cup {a}
    /\ catalogRows' = [catalogRows EXCEPT ![catalogAt] = @ \cup {a}]
    /\ UNCHANGED <<catalogAt, usable, openerPc, sawBroken, snapshots, replacedCatalogs, made, broken,
                   mistaken, unfinished>>

\* close, or the death of the process, wherever it was.
CloseOpener(p) ==
    /\ ~InOpening(p, "closed")
    /\ Advance(p, "closed")
    /\ replacedCatalogs' = [replacedCatalogs EXCEPT ![p] = {}]
    /\ unfinished' = (unfinished \/ openerPc[p] \in {"create", "snapshots", "unindexed"})
    /\ UNCHANGED <<catalogAt, usable, catalogRows, treesOnDisk, sawBroken, snapshots, made, broken,
                   mistaken>>

\* Another version of the program, or a fault, leaves a catalog that is unusable.
BreakCatalog ==
    /\ broken < MaxBroken
    /\ catalogAt \in usable
    /\ usable' = usable \ {catalogAt}
    /\ broken' = broken + 1
    /\ UNCHANGED <<catalogAt, catalogRows, treesOnDisk, openerPc, sawBroken, snapshots,
                   replacedCatalogs, made, mistaken, unfinished>>

ResetNext ==
    \/ BreakCatalog
    \/ \E p \in Openers :
           \/ OpenCatalog(p) \/ ConfirmCorruption(p) \/ RenameCatalog(p) \/ CreateCatalog(p)
           \/ RetireSnapshots(p) \/ RetireUnindexed(p) \/ CloseOpener(p)
           \/ \E a \in CommittedTrees : CommitTree(p, a)

ResetSpec == ResetInit /\ [][ResetNext]_resetVars

-----------------------------------------------------------------------------
(* Properties *)

\* "every prepared-state, export-generation, and staging tree that no longer has
\* a catalog row" is retired (repository.md:343): a tree that has one stays.
TreesWithRowsStay == CurrentRows \subseteq treesOnDisk

\* What the old catalog indexed does not outlive the reset: when no process is in
\* one, and none was left halfway, every tree has a row in the catalog of today.
OnlyIndexedRemain ==
    (~unfinished /\ \A p \in Openers : openerPc[p] \in {"closed", "ready"})
        => /\ treesOnDisk \subseteq CurrentRows
           /\ snapshots = {}
=============================================================================
