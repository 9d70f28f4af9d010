--------------------------- MODULE MaintenanceFile ---------------------------
(***************************************************************************)
(* The lock file of a repository, maintenance.sqlite3.                     *)
(*                                                                         *)
(* The lock is SQLite's write lock on a file that is found by its name.  A *)
(* process that finds the file unreadable moves it away and makes a new    *)
(* one, and several processes may do so at once.  A file is a node of the  *)
(* file system here: the lock belongs to the node a process has opened,    *)
(* whatever the name stands for by now.  The -wal and -shm files follow    *)
(* the fate of their file and are left out.                                *)
(***************************************************************************)
EXTENDS Naturals, FiniteSets

CONSTANTS
    LockProcs,       \* processes that maintain the repository
    MaxNodes,        \* bound: files that were ever at the path
    MaxCorruptions   \* bound: times the file is damaged from outside

Nodes == 1..MaxNodes
NoNode == 0
SchemaAttempts == 2

VARIABLES
    atPath,      \* the node at maintenance.sqlite3
    readable,    \* nodes that SQLite can open as a lock file
    writer,      \* of each node: the process with its write lock
    lockPc,      \* of each process: where it is in maintenance_lock
    before,      \* _connect: the node seen before the connection
    opened,      \* _connect: the node of the connection
    attempt,     \* _connect: schema_attempt
    corruptions, \* history: damages so far
    compared,    \* history: the node at the path when it was last compared
    swapped      \* history: a node was moved that was not the one compared

lockVars == <<atPath, readable, writer, lockPc, before, opened, attempt, corruptions,
              compared, swapped>>
lockHistory == <<compared, swapped>>
NoWriter == "none"

ASSUME LockAssumption ==
    /\ NoWriter \notin LockProcs
    /\ MaxNodes \in Nat
    /\ MaxCorruptions \in Nat

LockTypeOK ==
    /\ atPath \in Nodes \cup {NoNode}
    /\ readable \subseteq Nodes
    /\ writer \in [Nodes -> LockProcs \cup {NoWriter}]
    /\ lockPc \in [LockProcs -> {"idle", "connect", "open", "compare", "candidates", "current",
                                 "replace", "begin", "held"}]
    /\ before \in [LockProcs -> Nodes \cup {NoNode}]
    /\ opened \in [LockProcs -> Nodes \cup {NoNode}]
    /\ attempt \in [LockProcs -> 0..SchemaAttempts]
    /\ corruptions \in 0..MaxCorruptions
    /\ compared \in [LockProcs -> Nodes \cup {NoNode}]
    /\ swapped \in BOOLEAN

LockInit ==
    /\ atPath = NoNode
    /\ readable = {}
    /\ writer = [n \in Nodes |-> NoWriter]
    /\ lockPc = [p \in LockProcs |-> "idle"]
    /\ before = [p \in LockProcs |-> NoNode]
    /\ opened = [p \in LockProcs |-> NoNode]
    /\ attempt = [p \in LockProcs |-> 0]
    /\ corruptions = 0
    /\ compared = [p \in LockProcs |-> NoNode]
    /\ swapped = FALSE

-----------------------------------------------------------------------------
At(p, pc) == lockPc[p] = pc
Goto(p, pc) == lockPc' = [lockPc EXCEPT ![p] = pc]
Unused == {n \in Nodes : n # atPath /\ n \notin readable /\ \A p \in LockProcs : n \notin {before[p], opened[p]}}

\* maintenance_lock, or one more poll of it
StartLocking(p) ==
    /\ At(p, "idle")
    /\ Goto(p, "connect")
    /\ attempt' = [attempt EXCEPT ![p] = 0]
    /\ UNCHANGED <<atPath, readable, writer, before, opened, corruptions, lockHistory>>

\* before = _lock_stat(path); after two files that cannot be read it gives up.
StatBefore(p) ==
    /\ At(p, "connect")
    /\ IF attempt[p] < SchemaAttempts
       THEN Goto(p, "open") /\ before' = [before EXCEPT ![p] = atPath]
       ELSE Goto(p, "idle") /\ UNCHANGED before
    /\ UNCHANGED <<atPath, readable, writer, opened, attempt, corruptions, lockHistory>>

\* sqlite3.connect and the statements that prepare the file; a file that is
\* missing is made.  Its write lock is needed for a moment.
OpenLockFile(p) ==
    /\ At(p, "open")
    /\ \/ /\ atPath # NoNode
          /\ opened' = [opened EXCEPT ![p] = atPath]
          /\ Goto(p, IF atPath \notin readable THEN "compare"
                     ELSE IF writer[atPath] = NoWriter THEN "begin" ELSE "idle")
          /\ UNCHANGED <<atPath, readable>>
       \/ /\ atPath = NoNode
          /\ \E n \in Unused :
                 /\ \A m \in Unused : n <= m
                 /\ atPath' = n
                 /\ readable' = readable \cup {n}
                 /\ opened' = [opened EXCEPT ![p] = n]
          /\ Goto(p, "begin")
    /\ UNCHANGED <<writer, before, attempt, corruptions, lockHistory>>

\* after = _lock_stat(path): a file that was replaced is tried again (the attempt
\* counts only if it could be read and was another database).
CompareNodes(p) ==
    /\ At(p, "compare")
    /\ IF before[p] # NoNode /\ atPath = before[p]
       THEN Goto(p, "candidates") /\ UNCHANGED attempt
       ELSE Goto(p, "connect") /\ attempt' \in {attempt, [attempt EXCEPT ![p] = @ + 1]}
    /\ UNCHANGED <<atPath, readable, writer, before, opened, corruptions, lockHistory>>

\* Mutation of StillExpected: the file of the name is moved, whatever it is.
AnyFile(p) == TRUE

StillExpected(p) == atPath = before[p]

\* _discard_corrupt_lock: once when the candidates are collected and once more
\* right before the move the file has to be the one that could not be read.
CheckCandidate(p) ==
    /\ lockPc[p] \in {"candidates", "current"}
    /\ IF StillExpected(p)
       THEN Goto(p, IF At(p, "candidates") THEN "current" ELSE "replace") /\ UNCHANGED attempt
       ELSE Goto(p, "connect") /\ attempt' = [attempt EXCEPT ![p] = @ + 1]
    /\ compared' = [compared EXCEPT ![p] = atPath]
    /\ UNCHANGED <<atPath, readable, writer, before, opened, corruptions, swapped>>

\* os.replace and the unlink of what was moved.
ReplaceFile(p) ==
    /\ At(p, "replace")
    /\ atPath' = NoNode
    /\ swapped' = (swapped \/ (atPath # NoNode /\ atPath # compared[p]))
    /\ Goto(p, "connect")
    /\ attempt' = [attempt EXCEPT ![p] = @ + 1]
    /\ UNCHANGED <<readable, writer, before, opened, corruptions, compared>>

\* BEGIN IMMEDIATE on the file that was opened, busy if another one has it.
BeginImmediate(p) ==
    /\ At(p, "begin")
    /\ IF writer[opened[p]] = NoWriter
       THEN writer' = [writer EXCEPT ![opened[p]] = p] /\ Goto(p, "held")
       ELSE UNCHANGED writer /\ Goto(p, "idle")
    /\ UNCHANGED <<atPath, readable, before, opened, attempt, corruptions, lockHistory>>

\* The end of the block, or of the process, whatever it was doing.
EndLocking(p) ==
    /\ ~At(p, "idle")
    /\ Goto(p, "idle")
    /\ writer' = [n \in Nodes |-> IF writer[n] = p THEN NoWriter ELSE writer[n]]
    /\ UNCHANGED <<atPath, readable, before, opened, attempt, corruptions, lockHistory>>

\* Something outside makes the file unreadable, while nobody has the lock.
CorruptFile ==
    /\ atPath \in readable /\ writer[atPath] = NoWriter
    /\ \A p \in LockProcs : opened[p] = atPath => lockPc[p] # "begin"
    /\ corruptions < MaxCorruptions
    /\ corruptions' = corruptions + 1
    /\ readable' = readable \ {atPath}
    /\ UNCHANGED <<atPath, writer, lockPc, before, opened, attempt, lockHistory>>

LockNext ==
    \/ CorruptFile
    \/ \E p \in LockProcs :
           \/ StartLocking(p) \/ StatBefore(p) \/ OpenLockFile(p) \/ CompareNodes(p)
           \/ CheckCandidate(p) \/ ReplaceFile(p) \/ BeginImmediate(p) \/ EndLocking(p)

LockSpec == LockInit /\ [][LockNext]_lockVars

-----------------------------------------------------------------------------
(* Properties *)

Holders == {p \in LockProcs : At(p, "held")}

\* Two processes never maintain a repository at once, as long as no file was
\* replaced between its last comparison and its move.
LockIsExclusive == swapped \/ Cardinality(Holders) <= 1

\* "Serialize artifact filesystem mutations" (maintenance.py:29): two processes
\* never maintain a repository at once.
MaintenanceSerialized == Cardinality(Holders) <= 1
=============================================================================
