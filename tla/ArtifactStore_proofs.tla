------------------------ MODULE ArtifactStore_proofs ------------------------
(***************************************************************************)
(* Proofs about ArtifactStore: that the trees, the rows and the account of *)
(* retired bytes agree after whatever was interrupted, for any states and  *)
(* generations, any number of crashes and errors, and any damage.          *)
(***************************************************************************)
EXTENDS ArtifactStore, FiniteSetTheorems, TLAPS

-----------------------------------------------------------------------------
(* An inductive invariant *)

Members(s) == {s[i] : i \in 1..Len(s)}
Moved == Members(task.moved)
First == task.moved[1]
Doing(pcs) == task.pc \in pcs

\* What is indexed and what has a tree can be put in a sequence.
Occupied == {a \in Stored : placed[a] # "none"}
TreesAreFinite == IsFiniteSet(rows) /\ IsFiniteSet(Occupied)

\* A commit is of one artifact, and how many trees a task has set aside.
TaskShape ==
    /\ task.kind = "commit" => \E a \in Stored : task.art = {a}
    /\ Doing({"idle", "stage", "install", "publish", "orphan", "cleanup", "staging", "backups"})
           => task.moved = <<>>
    /\ Doing({"swap", "backup", "record", "discard", "account", "cleaned"}) =>
           Len(task.moved) = 1
    /\ Doing({"release"}) => task.moved # <<>>
    /\ Doing({"swap", "backup"}) =>
           task.kind = "commit" /\ First.of \in task.art
    /\ Doing({"cleanup", "cleaned", "staging"}) => task.tried = {}

\* A commit that put a tree where none was is about to publish it or to retire it.
FreshIsPublished ==
    task.fresh =>
        task.kind = "commit" /\ Doing({"publish", "orphan", "record", "discard", "account"})

\* Recovery has seen the leases of those who use a staging directory, and a
\* directory that is being reserved is nobody's yet.
StagingIsLeased ==
    /\ Doing({"stage"}) => task.art \subseteq stageDirs \ preparers
    /\ Doing({"staging"}) => preparers \cap stageLeases \subseteq task.matched

\* Nothing is beside an artifact but what could not be deleted, and a whole tree
\* there that is not given up.
Clear(a) == \A n \in SideNames : n.of = a => side[n] = "none" \/ n \in task.tried
Backup(n, a) == n \in SideNames /\ n.of = a /\ side[n] = "good" /\ n \notin retired

\* A tree set aside is accounted or in the hands of a task, and what is taken
\* off the account has been deleted.
AsideIsKnown ==
    /\ mishaps = 0 => \A n \in SideNames : side[n] # "none" => n \in retired \/ n \in Moved
    /\ Doing({"release", "account", "cleaned"}) => side[First] = "none"

\* A tree is damaged only where something outside did it; so is one that a
\* task has set aside and may put back, unless its place is taken.
DamageIsKnown ==
    /\ \A a \in Stored : placed[a] = "bad" => a \in hurt
    /\ Doing({"quarantine", "record"}) => \A n \in Moved : side[n] = "bad" => n.of \in hurt
    /\ Doing({"restore", "settle", "release"}) =>
           \A n \in Moved : side[n] = "bad" => n.of \in hurt \/ placed[n.of] # "none"
    /\ Doing({"swap", "backup"}) => First.of \in hurt

\* An indexed artifact has a whole tree, in its place or beside it.
RowsAreKept == \A a \in rows \ hurt : Whole(a) \/ \E n \in SideNames : Backup(n, a)

\* What a task deletes is not the only tree of an indexed artifact.
Spared(a) == a \in rows \ hurt => \E n \in SideNames : Backup(n, a) /\ n \notin Moved
DeletedIsSpared ==
    /\ Doing({"settle", "release"}) => task.matched \cap rows = {}
    /\ Doing({"publish"}) => \A a \in task.art \ hurt : Whole(a) /\ (task.fresh => Spared(a))
    /\ Doing({"orphan", "record", "discard", "account"}) =>
           /\ \A a \in Members(task.todo) : Spared(a)
           /\ \A n \in Moved : Spared(n.of)
    /\ Doing({"discard"}) => First \in retired
    /\ Doing({"backups"}) => \A n \in task.tried : n.of \in rows \ hurt => Whole(n.of)

\* What recovery has put right, by where it is.
Settled(a) == Clear(a) /\ (Whole(a) \/ a \in hurt)
RecoveryIsOnTheWay ==
    task.kind = "recover" =>
        /\ Doing({"staging", "backups", "orphan", "record", "quarantine"}) => retired = {}
        /\ Doing({"discard", "account", "settle", "release"}) => retired \subseteq Moved
        /\ Doing({"backups"}) => \A a \in rows : Clear(a) \/ a \in Members(task.todo)
        /\ Doing({"orphan", "record", "discard", "account"}) =>
               /\ \A a \in rows : Clear(a) /\ a \notin Members(task.todo)
               /\ \A n \in Moved : n.of \notin rows
        /\ Doing({"quarantine", "settle", "release"}) => \A n \in Moved : n.of \in task.matched
        /\ Doing({"quarantine"}) =>
               /\ Members(task.todo) \subseteq task.matched
               /\ \A a \in rows \ task.matched : Settled(a)
        /\ Doing({"settle", "release"}) => \A a \in rows : Settled(a)

TreesInv ==
    AsideIsKnown /\ DamageIsKnown /\ RowsAreKept /\ DeletedIsSpared /\ RecoveryIsOnTheWay

StoreInv ==
    /\ StoreTypeOK /\ TreesAreFinite /\ TaskShape /\ FreshIsPublished
    /\ GenerationsAreClosed
    /\ StagingInUseStays /\ StagingIsLeased
    /\ TreesInv

-----------------------------------------------------------------------------
(* Sequences and what they list *)

LEMMA SeqFacts ==
    ASSUME NEW S, NEW s \in Seq(S)
    PROVE  /\ Len(s) \in Nat /\ \A i \in 1..Len(s) : s[i] \in S
           /\ s = <<>> <=> Len(s) = 0
           /\ Members(s) \subseteq S
           /\ Range(s) = Members(s)
<1>1. Len(s) \in Nat /\ \A i \in 1..Len(s) : s[i] \in S
  OBVIOUS
<1>2. DOMAIN s = 1..Len(s)
  OBVIOUS
<1>3. s = <<>> <=> Len(s) = 0
  OBVIOUS
<1> QED
  BY <1>1, <1>2, <1>3 DEF Members, Range

LEMMA ShortSeqs ==
    /\ Members(<<>>) = {} /\ Len(<<>>) = 0
    /\ \A S : <<>> \in Seq(S)
    /\ \A x : Members(<<x>>) = {x} /\ Len(<<x>>) = 1 /\ <<x>>[1] = x /\ <<x>> # <<>>
    /\ \A S : \A x \in S : <<x>> \in Seq(S)
<1>1. Members(<<>>) = {} /\ Len(<<>>) = 0 /\ \A S : <<>> \in Seq(S)
  BY DEF Members
<1>2. ASSUME NEW x
      PROVE  Members(<<x>>) = {x} /\ Len(<<x>>) = 1 /\ <<x>>[1] = x /\ <<x>> # <<>>
  <2>1. Len(<<x>>) = 1 /\ <<x>>[1] = x
    OBVIOUS
  <2> QED
    BY <2>1 DEF Members
<1>3. ASSUME NEW S, NEW x \in S PROVE <<x>> \in Seq(S)
  OBVIOUS
<1> QED
  BY <1>1, <1>2, <1>3

LEMMA HeadFacts ==
    ASSUME NEW S, NEW s \in Seq(S), s # <<>>
    PROVE  /\ Head(s) = s[1] /\ s[1] \in S /\ s[1] \in Members(s)
           /\ Tail(s) \in Seq(S) /\ Len(Tail(s)) = Len(s) - 1
           /\ Members(s) = {s[1]} \cup Members(Tail(s))
<1>1. Len(s) \in Nat /\ Len(s) >= 1
  BY SeqFacts
<1>2. /\ Head(s) = s[1] /\ Tail(s) \in Seq(S) /\ Len(Tail(s)) = Len(s) - 1
      /\ \A i \in 1..Len(s) - 1 : Tail(s)[i] = s[i + 1]
  BY <1>1
<1>3. s[1] \in S /\ s[1] \in Members(s)
  BY <1>1 DEF Members
<1>4. ASSUME NEW i \in 1..Len(s), i # 1 PROVE s[i] \in Members(Tail(s))
  <2>1. i - 1 \in 1..Len(s) - 1 /\ (i - 1) + 1 = i
    BY <1>1, <1>4
  <2> QED
    BY <1>2, <2>1 DEF Members
<1>5. ASSUME NEW i \in 1..Len(s) - 1 PROVE Tail(s)[i] \in Members(s)
  <2>1. i + 1 \in 1..Len(s)
    BY <1>1
  <2> QED
    BY <1>2, <2>1 DEF Members
<1> QED
  BY <1>2, <1>3, <1>4, <1>5 DEF Members

LEMMA LastFacts ==
    ASSUME NEW S, NEW s \in Seq(S), s # <<>>
    PROVE  /\ s[Len(s)] \in S /\ s[Len(s)] \in Members(s)
           /\ SubSeq(s, 1, Len(s) - 1) \in Seq(S)
           /\ Members(s) = {s[Len(s)]} \cup Members(SubSeq(s, 1, Len(s) - 1))
<1> DEFINE t == SubSeq(s, 1, Len(s) - 1)
<1>1. Len(s) \in Nat /\ Len(s) >= 1
  BY SeqFacts
<1>2. t \in Seq(S) /\ Len(t) = Len(s) - 1 /\ \A i \in 1..Len(s) - 1 : t[i] = s[i]
  <2> DEFINE k == Len(s) - 1
  <2>1. k \in 0..Len(s)
    BY <1>1
  <2> HIDE DEF k
  <2>2. /\ SubSeq(s, 1, k) \in Seq(S) /\ Len(SubSeq(s, 1, k)) = k
        /\ \A i \in 1..k : SubSeq(s, 1, k)[i] = s[i]
    BY <2>1
  <2> QED
    BY <2>2 DEF k
<1> HIDE DEF t
<1>3. \A i \in 1..Len(s) : i = Len(s) \/ i \in 1..Len(s) - 1
  BY <1>1
<1>4. \A i \in 1..Len(s) - 1 : i \in 1..Len(s)
  BY <1>1
<1>5. Len(s) \in 1..Len(s)
  BY <1>1
<1>6. Members(s) = {s[Len(s)]} \cup Members(t)
  BY <1>2, <1>3, <1>4, <1>5, Zenon DEF Members
<1> QED
  BY <1>1, <1>2, <1>5, <1>6, SeqFacts DEF t, Members

LEMMA AppendFacts ==
    ASSUME NEW S, NEW s \in Seq(S), NEW x \in S
    PROVE  /\ Append(s, x) \in Seq(S) /\ Append(s, x) # <<>>
           /\ Members(Append(s, x)) = Members(s) \cup {x}
<1> DEFINE t == Append(s, x)
<1>1. /\ Len(s) \in Nat /\ t \in Seq(S) /\ Len(t) = Len(s) + 1 /\ t[Len(s) + 1] = x
      /\ \A i \in 1..Len(s) : t[i] = s[i]
  OBVIOUS
<1> HIDE DEF t
<1>2. \A i \in 1..Len(t) : i = Len(s) + 1 \/ i \in 1..Len(s)
  BY <1>1
<1>3. Len(s) + 1 \in 1..Len(t) /\ \A i \in 1..Len(s) : i \in 1..Len(t)
  BY <1>1
<1>4. Members(t) = Members(s) \cup {x}
  BY <1>1, <1>2, <1>3, Zenon DEF Members
<1>5. t # <<>>
  BY <1>1, SeqFacts
<1> QED
  BY <1>1, <1>4, <1>5 DEF t

LEMMA JoinFacts ==
    ASSUME NEW S, NEW s \in Seq(S), NEW t \in Seq(S)
    PROVE  s \o t \in Seq(S) /\ Members(s \o t) = Members(s) \cup Members(t)
<1> DEFINE u == s \o t
<1>1. /\ Len(s) \in Nat /\ Len(t) \in Nat /\ u \in Seq(S) /\ Len(u) = Len(s) + Len(t)
      /\ \A i \in 1..Len(u) : u[i] = IF i <= Len(s) THEN s[i] ELSE t[i - Len(s)]
  OBVIOUS
<1> HIDE DEF u
<1>2. ASSUME NEW i \in 1..Len(u) PROVE u[i] \in Members(s) \cup Members(t)
  <2>1. i <= Len(s) => i \in 1..Len(s)
    BY <1>1
  <2>2. ~(i <= Len(s)) => i - Len(s) \in 1..Len(t)
    BY <1>1
  <2> QED
    BY <1>1, <2>1, <2>2 DEF Members
<1>3. ASSUME NEW i \in 1..Len(s) PROVE s[i] \in Members(u)
  <2>1. i \in 1..Len(u) /\ i <= Len(s)
    BY <1>1
  <2> QED
    BY <1>1, <2>1 DEF Members
<1>4. ASSUME NEW i \in 1..Len(t) PROVE t[i] \in Members(u)
  <2>1. i + Len(s) \in 1..Len(u) /\ ~(i + Len(s) <= Len(s)) /\ (i + Len(s)) - Len(s) = i
    BY <1>1
  <2>2. u[i + Len(s)] = t[i]
    BY <1>1, <2>1
  <2> QED
    BY <2>1, <2>2 DEF Members
<1>5. Members(u) = Members(s) \cup Members(t)
  BY <1>2, <1>3, <1>4, Zenon DEF Members
<1> QED
  BY <1>1, <1>5 DEF u

\* A finite set is listed whole.
LEMMA ListedWhole ==
    ASSUME NEW T, NEW S \in SUBSET T, IsFiniteSet(S)
    PROVE  SetToSeq(S) \in Seq(T) /\ Members(SetToSeq(S)) = S
<1> DEFINE m == Cardinality(S)
           f == SetToSeq(S)
<1>1. m \in Nat /\ \E g \in [1..m -> S] : IsInjective(g)
  BY FS_CardinalityType DEF ExistsBijection, Bijection, Injection, IsInjective
<1>2. f \in [1..m -> S] /\ IsInjective(f)
  BY <1>1 DEF SetToSeq
<1>3. f \in Seq(T) /\ Len(f) = m
  BY <1>1, <1>2
<1>4. f \in Surjection(1..m, S)
  <2>1. f \in Injection(1..m, S)
    BY <1>2 DEF Injection
  <2>2. Cardinality(1..m) = m
    BY <1>1, FS_Interval
  <2> QED
    BY <2>1, <2>2, FS_Injection
<1> HIDE DEF f, m
<1>5. \A x \in S : \E i \in 1..m : f[i] = x
  BY <1>4 DEF Surjection
<1> QED
  BY <1>2, <1>3, <1>5 DEF Members, f

LEMMA InOrderFacts ==
    ASSUME NEW arts \in SUBSET Stored, IsFiniteSet(arts)
    PROVE  InOrder(arts) \in Seq(Stored) /\ Members(InOrder(arts)) = arts
<1> DEFINE g == arts \cap StoredGenerations
           s == arts \cap StoredStates
<1>1. IsFiniteSet(g) /\ IsFiniteSet(s)
  BY FS_Subset
<1>2. g \in SUBSET Stored /\ s \in SUBSET Stored /\ g \cup s = arts
  BY DEF Stored
<1> HIDE DEF g, s
<1>3. SetToSeq(g) \in Seq(Stored) /\ Members(SetToSeq(g)) = g
  BY <1>1, <1>2, ListedWhole
<1>4. SetToSeq(s) \in Seq(Stored) /\ Members(SetToSeq(s)) = s
  BY <1>1, <1>2, ListedWhole
<1>5. InOrder(arts) = SetToSeq(g) \o SetToSeq(s)
  BY DEF InOrder, g, s
<1> DEFINE x == SetToSeq(g)
           y == SetToSeq(s)
<1> HIDE DEF x, y
<1>6. x \o y \in Seq(Stored) /\ Members(x \o y) = Members(x) \cup Members(y)
  BY <1>3, <1>4, JoinFacts DEF x, y
<1> QED
  BY <1>2, <1>3, <1>4, <1>5, <1>6, Zenon DEF x, y

-----------------------------------------------------------------------------
(* Types *)

LEMMA NoTaskFacts ==
    /\ NoTask \in Tasks
    /\ NoTask.kind = "none" /\ NoTask.pc = "idle" /\ NoTask.art = {} /\ NoTask.todo = <<>>
    /\ NoTask.moved = <<>> /\ NoTask.matched = {} /\ NoTask.fresh = FALSE
    /\ NoTask.tried = {}
BY ShortSeqs DEF NoTask, Tasks, TaskPcs

LEMMA TaskFacts ==
    ASSUME StoreTypeOK
    PROVE  /\ task \in Tasks
           /\ task.kind \in {"none", "stage", "commit", "prune", "recover"} /\ task.pc \in TaskPcs
           /\ task.art \in SUBSET Stored /\ task.matched \in SUBSET Stored
           /\ task.todo \in Seq(Stored) /\ task.moved \in Seq(SideNames)
           /\ task.fresh \in BOOLEAN /\ task.tried \in SUBSET SideNames
BY DEF StoreTypeOK, Tasks

LEMMA SideFacts ==
    ASSUME StoreTypeOK, NEW n \in SideNames
    PROVE  /\ n.of \in Stored /\ side[n] \in Trees /\ placed[n.of] \in Trees
           /\ \A a \in Stored : placed[a] \in Trees
BY DEF StoreTypeOK, SideNames

LEMMA ArtifactFacts ==
    ASSUME StoreTypeOK, TaskShape, task.kind = "commit"
    PROVE  Artifact \in Stored /\ task.art = {Artifact}
<1>1. PICK a \in Stored : task.art = {a}
  BY DEF TaskShape
<1>2. \E b \in Stored : b \in task.art
  BY <1>1
<1>3. Artifact \in Stored /\ Artifact \in task.art
  BY <1>2, Zenon DEF Artifact
<1> QED
  BY <1>1, <1>3

\* The first tree a task has set aside.
LEMMA FirstFacts ==
    ASSUME StoreTypeOK, task.moved # <<>>
    PROVE  /\ Head(task.moved) = First /\ First \in SideNames /\ First \in Moved
           /\ Tail(task.moved) \in Seq(SideNames)
           /\ Len(Tail(task.moved)) = Len(task.moved) - 1
           /\ Moved = {First} \cup Members(Tail(task.moved))
BY TaskFacts, HeadFacts DEF Moved, First

LEMMA OnlyOne ==
    ASSUME StoreTypeOK, Len(task.moved) = 1
    PROVE  task.moved # <<>> /\ Moved = {First}
<1>1. task.moved # <<>>
  BY ShortSeqs
<1>2. 1..Len(task.moved) = {1}
  OBVIOUS
<1> QED
  BY <1>1, <1>2 DEF Moved, Members, First

LEMMA TodoFacts ==
    ASSUME StoreTypeOK, task.todo # <<>>
    PROVE  /\ Head(task.todo) \in Stored /\ Head(task.todo) \in Members(task.todo)
           /\ Tail(task.todo) \in Seq(Stored)
           /\ Members(task.todo) = {Head(task.todo)} \cup Members(Tail(task.todo))
BY TaskFacts, HeadFacts

LEMMA FinitePart ==
    ASSUME TreesAreFinite, NEW S, S \subseteq rows \/ S \subseteq Occupied
    PROVE  IsFiniteSet(S)
BY FS_Subset DEF TreesAreFinite

\* What a task lists to do.
LEMMA TodoLists ==
    ASSUME StoreTypeOK, TreesAreFinite
    PROVE  /\ \A arts \in SUBSET rows :
                  InOrder(arts) \in Seq(Stored) /\ Members(InOrder(arts)) = arts
           /\ SetToSeq(rows) \in Seq(Stored) /\ Members(SetToSeq(rows)) = rows
           /\ SetToSeq(Unindexed) \in Seq(Stored) /\ Members(SetToSeq(Unindexed)) = Unindexed
<1>1. rows \in SUBSET Stored
  BY DEF StoreTypeOK
<1>2. ASSUME NEW arts \in SUBSET rows
      PROVE  InOrder(arts) \in Seq(Stored) /\ Members(InOrder(arts)) = arts
  BY <1>1, FinitePart, InOrderFacts
<1>3. Unindexed \in SUBSET Stored /\ Unindexed \subseteq Occupied
  BY DEF Unindexed, Occupied
<1>4. IsFiniteSet(rows) /\ IsFiniteSet(Unindexed)
  BY <1>3, FinitePart
<1> QED
  BY <1>1, <1>2, <1>3, <1>4, ListedWhole

LEMMA TaskTyped ==
    ASSUME StoreTypeOK, TreesAreFinite, TaskShape, StoreNext
    PROVE  task' \in Tasks
<1>t. /\ task \in Tasks /\ task.todo \in Seq(Stored) /\ task.moved \in Seq(SideNames)
      /\ task.matched \in SUBSET Stored
      /\ NoTask \in Tasks /\ rows \in SUBSET Stored /\ stageLeases \in SUBSET Stored
  BY TaskFacts, NoTaskFacts DEF StoreTypeOK
<1>e. /\ <<>> \in Seq(SideNames) /\ \A n \in SideNames : <<n>> \in Seq(SideNames)
      /\ \A a \in Stored : <<a>> \in Seq(Stored)
  BY ShortSeqs
<1>0. CASE task' \in {task, NoTask}
  BY <1>0, <1>t
<1>1. CASE Staging
  <2>1. CASE \E a \in Stored : BeginStaging(a)
    <3>1. PICK a \in Stored : task' = [NoTask EXCEPT !.kind = "stage", !.pc = "stage", !.art = {a}]
      BY <2>1 DEF BeginStaging
    <3>2. {a} \in SUBSET Stored
      OBVIOUS
    <3> QED
      BY <1>t, <3>1, <3>2 DEF Tasks, TaskPcs
  <2> QED
    BY <1>1, <1>t, <2>1 DEF Staging, ReserveStaging, ReserveStagingFails, DiscardStaging,
           ExpireStaging, EndTask
<1>2. CASE BeginPruning \/ \E a \in Stored : BeginCommitting(a)
  <2>1. ASSUME NEW victims \in SUBSET rows
        PROVE  InOrder(victims) \in Seq(Stored) /\ victims \in SUBSET Stored
    BY <1>t, TodoLists
  <2>2. CASE BeginPruning
    <3>1. PICK victims \in SUBSET rows :
              task' = [NoTask EXCEPT !.kind = "prune", !.pc = "quarantine", !.matched = victims,
                                     !.todo = InOrder(victims)]
      BY <2>2 DEF BeginPruning, Removable
    <3> QED
      BY <1>t, <2>1, <3>1 DEF Tasks, TaskPcs
  <2>3. CASE \E a \in Stored : BeginCommitting(a)
    <3>1. PICK a \in Stored : BeginCommitting(a)
      BY <2>3
    <3>2. PICK victims \in SUBSET rows :
              task' = [NoTask EXCEPT !.kind = "commit", !.pc = "quarantine", !.art = {a},
                                     !.matched = victims, !.todo = InOrder(victims)]
      BY <3>1 DEF BeginCommitting, Removable
    <3>3. {a} \in SUBSET Stored
      OBVIOUS
    <3> QED
      BY <1>t, <2>1, <3>2, <3>3 DEF Tasks, TaskPcs
  <2> QED
    BY <1>2, <2>2, <2>3
<1>3. CASE QuarantineOne
  <2>1. Tail(task.todo) \in Seq(Stored)
    BY <1>3, TodoFacts DEF QuarantineOne
  <2>2. \A n \in SideNames : Append(task.moved, n) \in Seq(SideNames)
    BY <1>t, AppendFacts
  <2>3. CASE task' = [task EXCEPT !.todo = Tail(@)]
    BY <1>t, <2>1, <2>3 DEF Tasks
  <2>4. ASSUME NEW n \in SideNames, task' = [task EXCEPT !.todo = Tail(@), !.moved = Append(@, n)]
        PROVE  task' \in Tasks
    <3>1. Append(task.moved, n) \in Seq(SideNames)
      BY <2>2
    <3> QED
      BY <1>t, <2>1, <2>4, <3>1 DEF Tasks
  <2> QED
    BY <1>3, <2>3, <2>4 DEF QuarantineOne
<1>4. CASE CommitPruning \/ CommitRecovery
  <2>1. PICK matched \in SUBSET Stored :
            task' = [task EXCEPT !.pc = "settle", !.matched = matched]
    <3>1. CASE CommitPruning
      BY <1>t, <3>1 DEF CommitPruning
    <3>2. CASE CommitRecovery
      <4>1. task.matched \cup Containing(task.matched \cap StoredStates) \in SUBSET Stored
        BY <1>t DEF Containing, Stored
      <4> QED
        BY <3>2, <4>1 DEF CommitRecovery
    <3> QED
      BY <1>4, <3>1, <3>2
  <2> QED
    BY <1>t, <2>1 DEF Tasks, TaskPcs
<1>5. CASE MovingFails \/ RestoreEnds \/ SettleEnds
  BY <1>5, <1>t DEF MovingFails, RestoreEnds, SettleEnds, Step, EndTask, Tasks, TaskPcs
<1>6. CASE RestoreLast
  <2>1. SubSeq(task.moved, 1, Len(task.moved) - 1) \in Seq(SideNames)
    BY <1>6, <1>t, LastFacts DEF RestoreLast
  <2>2. task' = [task EXCEPT !.moved = SubSeq(task.moved, 1, Len(task.moved) - 1)]
    BY <1>6 DEF RestoreLast
  <2> QED
    BY <1>t, <2>1, <2>2 DEF Tasks, TaskPcs
<1>7. CASE SettleOne \/ ReleaseRetired
  <2>1. Tail(task.moved) \in Seq(SideNames)
    BY <1>7, <1>t, FirstFacts DEF SettleOne, ReleaseRetired, TaskShape, Doing, Pc
  <2>2. CASE task' = [task EXCEPT !.pc = "release"]
    BY <1>t, <2>2 DEF Tasks, TaskPcs
  <2>3. CASE task' = [task EXCEPT !.moved = Tail(task.moved)]
    BY <1>t, <2>1, <2>3 DEF Tasks
  <2>4. CASE task' = [task EXCEPT !.pc = "settle", !.moved = Tail(task.moved)]
    BY <1>t, <2>1, <2>4 DEF Tasks, TaskPcs
  <2> QED
    BY <1>7, <2>2, <2>3, <2>4 DEF SettleOne, ReleaseRetired, Step
<1>8. CASE InstallTree \/ SwapTree \/ DropBackup \/ InstallFails \/ PublishRow
  <2>1. \/ task' = NoTask
        \/ task' = [task EXCEPT !.pc = "publish", !.fresh = TRUE]
        \/ task' = [task EXCEPT !.pc = "publish"]
        \/ task' = [task EXCEPT !.pc = "backup"]
        \/ task' = [task EXCEPT !.pc = "publish", !.moved = <<>>]
        \/ \E n \in SideNames : task' = [task EXCEPT !.pc = "swap", !.moved = <<n>>]
    <3>1. CASE InstallTree
      <4>1. Artifact \in Stored
        BY <3>1, ArtifactFacts DEF InstallTree, Committing
      <4>2. placed[Artifact] \in {"none", "good", "bad"}
        BY <4>1 DEF StoreTypeOK, Trees
      <4> QED
        BY <3>1, <4>2 DEF InstallTree, Step
    <3>2. CASE SwapTree \/ DropBackup \/ InstallFails \/ PublishRow
      BY <3>2 DEF SwapTree, DropBackup, InstallFails, PublishRow, Step, EndTask
    <3> QED
      BY <1>8, <3>1, <3>2
  <2>2. CASE \E n \in SideNames : task' = [task EXCEPT !.pc = "swap", !.moved = <<n>>]
    <3>1. PICK n \in SideNames : task' = [task EXCEPT !.pc = "swap", !.moved = <<n>>]
      BY <2>2
    <3>2. <<n>> \in Seq(SideNames)
      BY <1>e
    <3> QED
      BY <1>t, <3>1, <3>2 DEF Tasks, TaskPcs
  <2>3. CASE task' = [task EXCEPT !.pc = "publish", !.fresh = TRUE]
    BY <1>t, <2>3 DEF Tasks, TaskPcs
  <2>4. CASE task' = [task EXCEPT !.pc = "publish"]
    BY <1>t, <2>4 DEF Tasks, TaskPcs
  <2>5. CASE task' = [task EXCEPT !.pc = "backup"]
    BY <1>t, <2>5 DEF Tasks, TaskPcs
  <2>6. CASE task' = [task EXCEPT !.pc = "publish", !.moved = <<>>]
    BY <1>t, <1>e, <2>6 DEF Tasks, TaskPcs
  <2> QED
    BY <1>0, <2>1, <2>2, <2>3, <2>4, <2>5, <2>6
<1>9. CASE PublishRefused
  <2>1. <<Artifact>> \in Seq(Stored)
    BY <1>9, <1>e, ArtifactFacts DEF PublishRefused, Committing
  <2>2. task' = NoTask \/ task' = [task EXCEPT !.pc = "orphan", !.todo = <<Artifact>>]
    BY <1>9 DEF PublishRefused, EndTask
  <2>3. CASE task' = [task EXCEPT !.pc = "orphan", !.todo = <<Artifact>>]
    BY <1>t, <2>1, <2>3 DEF Tasks, TaskPcs
  <2> QED
    BY <1>0, <2>2, <2>3
<1>10. CASE OrphanMoved
  <2>1. Tail(task.todo) \in Seq(Stored)
    BY <1>10, TodoFacts DEF OrphanMoved
  <2>2. PICK n \in SideNames :
            task' = [task EXCEPT !.pc = "record", !.moved = <<n>>, !.todo = Tail(task.todo)]
    BY <1>10 DEF OrphanMoved
  <2>3. <<n>> \in Seq(SideNames)
    BY <1>e
  <2> QED
    BY <1>t, <2>1, <2>2, <2>3 DEF Tasks, TaskPcs
<1>11. CASE OrphanRecorded \/ RecordFails \/ OrphanDiscarded \/ OrphanReleased
  <2>1. \/ task' = NoTask
        \/ task' = [task EXCEPT !.pc = "discard"]
        \/ task' = [task EXCEPT !.pc = "account"]
        \/ task' = [task EXCEPT !.pc = "orphan", !.moved = <<>>]
    BY <1>11 DEF OrphanRecorded, RecordFails, OrphanDiscarded, OrphanReleased, Step, EndTask
  <2>2. CASE task' = [task EXCEPT !.pc = "discard"]
    BY <1>t, <2>2 DEF Tasks, TaskPcs
  <2>3. CASE task' = [task EXCEPT !.pc = "account"]
    BY <1>t, <2>3 DEF Tasks, TaskPcs
  <2>4. CASE task' = [task EXCEPT !.pc = "orphan", !.moved = <<>>]
    BY <1>t, <1>e, <2>4 DEF Tasks, TaskPcs
  <2> QED
    BY <1>0, <2>1, <2>2, <2>3, <2>4
<1>12. CASE OrphansEnd
  <2> DEFINE lost == {a \in rows : ~Whole(a)}
  <2>1. lost \in SUBSET Stored /\ InOrder(lost) \in Seq(Stored)
    BY <1>t, TodoLists
  <2> HIDE DEF lost
  <2>2. \/ task' = NoTask
        \/ task' = [task EXCEPT !.pc = "quarantine", !.matched = lost, !.todo = InOrder(lost)]
    BY <1>12 DEF OrphansEnd, EndTask, lost
  <2>3. CASE task' = [task EXCEPT !.pc = "quarantine", !.matched = lost, !.todo = InOrder(lost)]
    BY <1>t, <2>1, <2>3 DEF Tasks, TaskPcs
  <2> QED
    BY <1>0, <2>2, <2>3
<1>13. CASE BeginRecovery
  BY <1>13, <1>t, NoTaskFacts DEF BeginRecovery, Tasks, TaskPcs
<1>14. CASE CleanupOne \/ CleanupReleased \/ RecoverySnapshot
  <2>1. \/ \E n \in SideNames : task' = [task EXCEPT !.pc = "cleaned", !.moved = <<n>>]
        \/ task' = [task EXCEPT !.pc = "cleanup", !.moved = <<>>]
        \/ task' = [task EXCEPT !.pc = "staging", !.matched = stageLeases]
    BY <1>14 DEF CleanupOne, CleanupReleased, RecoverySnapshot, StoreTypeOK
  <2>2. CASE \E n \in SideNames : task' = [task EXCEPT !.pc = "cleaned", !.moved = <<n>>]
    <3>1. PICK n \in SideNames : task' = [task EXCEPT !.pc = "cleaned", !.moved = <<n>>]
      BY <2>2
    <3>2. <<n>> \in Seq(SideNames)
      BY <1>e
    <3> QED
      BY <1>t, <3>1, <3>2 DEF Tasks, TaskPcs
  <2>3. CASE task' = [task EXCEPT !.pc = "cleanup", !.moved = <<>>]
    BY <1>t, <1>e, <2>3 DEF Tasks, TaskPcs
  <2>4. CASE task' = [task EXCEPT !.pc = "staging", !.matched = stageLeases]
    BY <1>t, <2>4 DEF Tasks, TaskPcs
  <2> QED
    BY <2>1, <2>2, <2>3, <2>4
<1>15. CASE RemoveAbandonedStaging \/ BackupsEnd \/ RecoverNext
  <2>1. \/ task' = [task EXCEPT !.pc = "backups", !.matched = {}, !.todo = SetToSeq(rows)]
        \/ task' = [task EXCEPT !.pc = "orphan", !.todo = SetToSeq(Unindexed)]
        \/ task.todo # <<>> /\ task' = [task EXCEPT !.todo = Tail(task.todo)]
    BY <1>15 DEF RemoveAbandonedStaging, BackupsEnd, RecoverNext
  <2>2. SetToSeq(rows) \in Seq(Stored) /\ SetToSeq(Unindexed) \in Seq(Stored)
    BY TodoLists
  <2>3. task.todo # <<>> => Tail(task.todo) \in Seq(Stored)
    BY TodoFacts
  <2>4. {} \in SUBSET Stored
    OBVIOUS
  <2>5. CASE task' = [task EXCEPT !.pc = "backups", !.matched = {}, !.todo = SetToSeq(rows)]
    BY <1>t, <2>2, <2>4, <2>5 DEF Tasks, TaskPcs
  <2>6. CASE task' = [task EXCEPT !.pc = "orphan", !.todo = SetToSeq(Unindexed)]
    BY <1>t, <2>2, <2>6 DEF Tasks, TaskPcs
  <2>7. CASE task.todo # <<>> /\ task' = [task EXCEPT !.todo = Tail(task.todo)]
    BY <1>t, <2>3, <2>7 DEF Tasks
  <2> QED
    BY <2>1, <2>5, <2>6, <2>7
<1>16. CASE RecoverTarget \/ Mishap
  BY <1>0, <1>16 DEF RecoverTarget, Mishap, TaskCrashes, TaskRaises, PreparerCrashes, DamageTree,
         DamageRow, EndTask
<1>17. CASE RecoverReplace \/ RecoverDrop
  <2>1. PICK n \in SideNames : task' = [task EXCEPT !.tried = task.tried \cup {n}]
    BY <1>17 DEF RecoverReplace, RecoverDrop, Replacement, Aside
  <2>2. task.tried \cup {n} \in SUBSET SideNames
    BY TaskFacts
  <2> QED
    BY <1>t, <2>1, <2>2 DEF Tasks
<1> QED
  BY <1>1, <1>2, <1>3, <1>4, <1>5, <1>6, <1>7, <1>8, <1>9, <1>10, <1>11, <1>12, <1>13, <1>14,
     <1>15, <1>16, <1>17
     DEF StoreNext, Pruning, Installing, Retiring, Recovering

-----------------------------------------------------------------------------
(* What the steps do *)

LEMMA MovesAside ==
    ASSUME StoreTypeOK, NEW n \in SideNames, MoveAside(n)
    PROVE  /\ \A m \in SideNames : side'[m] = IF m = n THEN placed[n.of] ELSE side[m]
           /\ \A a \in Stored : placed'[a] = IF a = n.of THEN "none" ELSE placed[a]
           /\ placed' \in [Stored -> Trees] /\ side' \in [SideNames -> Trees]
<1>1. n.of \in Stored /\ placed[n.of] \in Trees /\ "none" \in Trees
  BY SideFacts DEF Trees
<1> QED
  BY <1>1 DEF MoveAside, StoreTypeOK

LEMMA MovesBack ==
    ASSUME StoreTypeOK, NEW n \in SideNames, MoveBack(n)
    PROVE  /\ \A m \in SideNames : side'[m] = IF m = n THEN "none" ELSE side[m]
           /\ \A a \in Stored : placed'[a] = IF a = n.of THEN side[n] ELSE placed[a]
           /\ placed' \in [Stored -> Trees] /\ side' \in [SideNames -> Trees]
<1>1. n.of \in Stored /\ side[n] \in Trees /\ "none" \in Trees
  BY SideFacts DEF Trees
<1> QED
  BY <1>1 DEF MoveBack, StoreTypeOK

LEMMA Removes ==
    ASSUME StoreTypeOK, NEW n \in SideNames, RemoveSide(n)
    PROVE  /\ \A m \in SideNames : side'[m] = IF m = n THEN "none" ELSE side[m]
           /\ side' \in [SideNames -> Trees]
BY DEF RemoveSide, StoreTypeOK, Trees

\* What could not be deleted is there, and counts as a mishap.
LEMMA TriesRemoving ==
    ASSUME StoreTypeOK, NEW n \in SideNames, TryRemoving(n)
    PROVE  /\ \A m \in SideNames : m # n => side'[m] = side[m]
           /\ side' \in [SideNames -> Trees] /\ mishaps' \in 0..MaxMishaps
           /\ mishaps' = 0 => mishaps = 0 /\ side'[n] = "none"
<1>1. PICK left \in Partly(side[n]) :
          /\ side' = [side EXCEPT ![n] = left]
          /\ IF left = "none" THEN mishaps' = mishaps ELSE Raised
  BY DEF TryRemoving
<1>2. side[n] \in Trees /\ left \in Trees
  BY <1>1, SideFacts DEF Partly, Trees
<1>3. side'[n] = left
  BY <1>1 DEF StoreTypeOK
<1>4. mishaps \in 0..MaxMishaps /\ MaxMishaps \in Nat
  BY StoreAssumption DEF StoreTypeOK
<1>5. mishaps' \in 0..MaxMishaps /\ (left # "none" => mishaps' # 0)
  BY <1>1, <1>4 DEF Raised
<1> QED
  BY <1>1, <1>2, <1>3, <1>5 DEF StoreTypeOK

LEMMA Restores ==
    ASSUME StoreTypeOK, NEW n \in SideNames, RestoreTree(n)
    PROVE  /\ \A m \in SideNames : m # n => side'[m] = side[m]
           /\ \A a \in Stored :
                  placed'[a] = IF a = n.of /\ placed[a] = "none" THEN side[n] ELSE placed[a]
           /\ placed[n.of] = "none" => side'[n] = "none"
           /\ placed' \in [Stored -> Trees] /\ side' \in [SideNames -> Trees]
           /\ mishaps' \in 0..MaxMishaps
           /\ mishaps' = 0 => mishaps = 0 /\ side'[n] = "none"
<1>1. CASE placed[n.of] = "none"
  <2>1. MoveBack(n) /\ mishaps' = mishaps
    BY <1>1 DEF RestoreTree
  <2> QED
    BY <1>1, <2>1, MovesBack DEF StoreTypeOK
<1>2. CASE placed[n.of] # "none"
  <2>1. TryRemoving(n) /\ placed' = placed
    BY <1>2 DEF RestoreTree
  <2> QED
    BY <1>2, <2>1, TriesRemoving DEF StoreTypeOK
<1> QED
  BY <1>1, <1>2

LEMMA Installs ==
    ASSUME StoreTypeOK, NEW a \in Stored, NEW tree \in Trees,
           placed' = [placed EXCEPT ![a] = tree]
    PROVE  /\ \A b \in Stored : placed'[b] = IF b = a THEN tree ELSE placed[b]
           /\ placed' \in [Stored -> Trees]
BY DEF StoreTypeOK

\* The task that goes on, and the task that ends.
Becomes(pc, todo, moved, matched) ==
    /\ task'.kind = task.kind /\ task'.art = task.art /\ task'.fresh = task.fresh
    /\ task'.pc = pc /\ task'.todo = todo /\ task'.moved = moved /\ task'.matched = matched
    /\ task'.tried = task.tried
Tries(n) ==
    /\ task'.kind = task.kind /\ task'.art = task.art /\ task'.fresh = task.fresh
    /\ task'.pc = task.pc /\ task'.todo = task.todo /\ task'.moved = task.moved
    /\ task'.matched = task.matched /\ task'.tried = task.tried \cup {n}
Ends ==
    /\ task'.kind = "none" /\ task'.art = {} /\ task'.fresh = FALSE /\ task'.tried = {}
    /\ task'.pc = "idle" /\ task'.todo = <<>> /\ task'.moved = <<>> /\ task'.matched = {}

LEMMA StepBecomes ==
    ASSUME StoreTypeOK, NEW pc, Step(pc)
    PROVE  Becomes(pc, task.todo, task.moved, task.matched)
BY TaskFacts DEF Step, Becomes, Tasks

LEMMA FreshTask ==
    ASSUME StoreTypeOK, task' = [task EXCEPT !.pc = "publish", !.fresh = TRUE]
    PROVE  /\ task'.kind = task.kind /\ task'.art = task.art /\ task'.fresh = TRUE
           /\ task'.pc = "publish" /\ task'.todo = task.todo /\ task'.moved = task.moved
           /\ task'.matched = task.matched /\ task'.tried = task.tried
BY TaskFacts DEF Tasks

LEMMA TaskTries ==
    ASSUME StoreTypeOK, NEW n, task' = [task EXCEPT !.tried = task.tried \cup {n}]
    PROVE  Tries(n)
BY TaskFacts DEF Tasks, Tries

LEMMA TaskBecomes ==
    ASSUME StoreTypeOK, NEW pc, NEW todo, NEW moved, NEW matched
    PROVE  /\ task' = [task EXCEPT !.pc = pc, !.moved = moved]
                  => Becomes(pc, task.todo, moved, task.matched)
           /\ task' = [task EXCEPT !.pc = pc, !.matched = matched]
                  => Becomes(pc, task.todo, task.moved, matched)
           /\ task' = [task EXCEPT !.pc = pc, !.todo = todo]
                  => Becomes(pc, todo, task.moved, task.matched)
           /\ task' = [task EXCEPT !.pc = pc, !.moved = moved, !.todo = todo]
                  => Becomes(pc, todo, moved, task.matched)
           /\ task' = [task EXCEPT !.pc = pc, !.matched = matched, !.todo = todo]
                  => Becomes(pc, todo, task.moved, matched)
           /\ task' = [task EXCEPT !.todo = todo, !.moved = moved]
                  => Becomes(task.pc, todo, moved, task.matched)
           /\ task' = [task EXCEPT !.todo = todo]
                  => Becomes(task.pc, todo, task.moved, task.matched)
           /\ task' = [task EXCEPT !.moved = moved]
                  => Becomes(task.pc, task.todo, moved, task.matched)
BY TaskFacts DEF Becomes, Tasks

LEMMA TaskEnds == EndTask => Ends
BY NoTaskFacts DEF EndTask, Ends

LEMMA FreeTask ==
    ASSUME LockFree
    PROVE  /\ task.kind = "none" /\ task.pc = "idle" /\ task.art = {} /\ task.todo = <<>>
           /\ task.moved = <<>> /\ task.matched = {} /\ task.tried = {} /\ Moved = {}
BY NoTaskFacts, ShortSeqs DEF LockFree, Moved

\* Few steps touch the rows, and what was damaged.
LEMMA RowSteps ==
    ASSUME StoreNext
    PROVE  \/ UNCHANGED <<rows, malformed, hurt>>
           \/ CommitPruning \/ CommitRecovery \/ RecoverySnapshot \/ PublishRow
           \/ \E a \in Stored : DamageTree(a) \/ DamageRow(a)
<1>1. CASE Staging
  BY <1>1 DEF Staging, ReserveStaging, ReserveStagingFails, BeginStaging, DiscardStaging,
         ExpireStaging, fromOutside
<1>2. CASE Pruning
  BY <1>2 DEF Pruning, BeginPruning, QuarantineOne, MovingFails, RestoreLast, RestoreEnds,
         SettleOne, ReleaseRetired, SettleEnds, fromOutside
<1>3. CASE Installing
  BY <1>3 DEF Installing, BeginCommitting, InstallTree, SwapTree, DropBackup, InstallFails,
         PublishRefused, fromOutside
<1>4. CASE Retiring
  BY <1>4 DEF Retiring, OrphanMoved, OrphanRecorded, RecordFails, OrphanDiscarded,
         OrphanReleased, OrphansEnd, fromOutside
<1>5. CASE Recovering
  BY <1>5 DEF Recovering, BeginRecovery, CleanupOne, CleanupReleased, RemoveAbandonedStaging,
         RecoverTarget, RecoverReplace, RecoverDrop, RecoverNext, BackupsEnd, fromOutside
<1>6. CASE Mishap
  BY <1>6 DEF Mishap, TaskCrashes, TaskRaises, PreparerCrashes, fromOutside
<1> QED
  BY <1>1, <1>2, <1>3, <1>4, <1>5, <1>6 DEF StoreNext

LEMMA RowsTyped ==
    ASSUME StoreTypeOK, TreesAreFinite, TaskShape, StoreNext
    PROVE  /\ rows' \subseteq Stored /\ malformed' \subseteq rows' /\ hurt' \subseteq Stored
           /\ IsFiniteSet(rows')
<1>1. rows \subseteq Stored /\ malformed \subseteq rows /\ hurt \subseteq Stored
  BY DEF StoreTypeOK
<1>2. IsFiniteSet(rows) /\ \A S : S \subseteq rows => IsFiniteSet(S)
  BY FinitePart DEF TreesAreFinite
<1>3. CASE UNCHANGED <<rows, malformed, hurt>>
  BY <1>1, <1>2, <1>3
<1>4. CASE CommitPruning \/ CommitRecovery \/ RecoverySnapshot
  <2>1. PICK gone : /\ rows' = rows \ gone /\ malformed' \in {malformed \ gone, {}}
                    /\ hurt' = hurt
    BY <1>4 DEF CommitPruning, CommitRecovery, RecoverySnapshot
  <2> QED
    BY <1>1, <1>2, <2>1
<1>5. CASE PublishRow
  <2>1. /\ rows' = rows \cup {Artifact} /\ malformed' = malformed /\ hurt' \subseteq hurt
        /\ task.kind = "commit"
    BY <1>5 DEF PublishRow, Committing
  <2>2. Artifact \in Stored
    BY <2>1, ArtifactFacts
  <2>3. IsFiniteSet(rows \cup {Artifact})
    BY <1>2, FS_AddElement
  <2> QED
    BY <1>1, <2>1, <2>2, <2>3
<1>6. CASE \E a \in Stored : DamageTree(a) \/ DamageRow(a)
  BY <1>1, <1>2, <1>6 DEF DamageTree, DamageRow
<1> QED
  BY <1>3, <1>4, <1>5, <1>6, RowSteps

\* What may be set aside, put back or removed by a step that takes one tree.
LEMMA FinitePlaces ==
    ASSUME TreesAreFinite, NEW a, Occupied' \subseteq Occupied \cup {a}
    PROVE  IsFiniteSet(Occupied')
<1>1. IsFiniteSet(Occupied \cup {a})
  BY FS_AddElement DEF TreesAreFinite
<1> QED
  BY <1>1, FS_Subset

LEMMA Interruptions ==
    ASSUME StoreTypeOK, Interrupted
    PROVE  side' \in [SideNames -> Trees]
<1>1. \A tree \in Trees : Partly(tree) \subseteq Trees
  BY DEF Partly, Trees
<1>2. CASE UNCHANGED side
  BY <1>2 DEF StoreTypeOK
<1>3. CASE \E n \in Deleting : \E left \in Partly(side[n]) : side' = [side EXCEPT ![n] = left]
  <2>1. PICK n, left : left \in Partly(side[n]) /\ side' = [side EXCEPT ![n] = left]
    BY <1>3
  <2>2. CASE n \in SideNames
    BY <1>1, <2>1, <2>2 DEF StoreTypeOK
  <2>3. CASE n \notin SideNames
    BY <2>1, <2>3 DEF StoreTypeOK
  <2> QED
    BY <2>2, <2>3
<1> QED
  BY <1>2, <1>3 DEF Interrupted

LEMMA TreesTyped ==
    ASSUME StoreTypeOK, TreesAreFinite, TaskShape, StoreNext
    PROVE  /\ placed' \in [Stored -> Trees] /\ side' \in [SideNames -> Trees]
           /\ retired' \subseteq SideNames
           /\ IsFiniteSet(Occupied')
<1>t. placed \in [Stored -> Trees] /\ side \in [SideNames -> Trees] /\ retired \subseteq SideNames
  BY DEF StoreTypeOK
<1>u. placed' = placed => IsFiniteSet(Occupied')
  BY DEF TreesAreFinite, Occupied
<1>a. ASSUME NEW n \in SideNames, MoveAside(n)
      PROVE  /\ placed' \in [Stored -> Trees] /\ side' \in [SideNames -> Trees]
             /\ IsFiniteSet(Occupied')
  BY <1>a, MovesAside, FinitePlaces DEF Occupied
<1>b. ASSUME NEW n \in SideNames, MoveBack(n)
      PROVE  /\ placed' \in [Stored -> Trees] /\ side' \in [SideNames -> Trees]
             /\ IsFiniteSet(Occupied')
  <2>1. /\ placed' \in [Stored -> Trees] /\ side' \in [SideNames -> Trees]
        /\ \A a \in Stored : a # n.of => placed'[a] = placed[a]
    BY <1>b, MovesBack
  <2>2. Occupied' \subseteq Occupied \cup {n.of}
    BY <2>1 DEF Occupied
  <2> QED
    BY <2>1, <2>2, FinitePlaces
<1>r. ASSUME NEW n \in SideNames, RemoveSide(n) PROVE side' \in [SideNames -> Trees]
  BY <1>r, Removes
<1>p. ASSUME NEW a \in Stored, NEW tree \in Trees, placed' = [placed EXCEPT ![a] = tree]
      PROVE  placed' \in [Stored -> Trees] /\ IsFiniteSet(Occupied')
  BY <1>p, Installs, FinitePlaces DEF Occupied
<1>f. task.moved # <<>> => Head(task.moved) \in SideNames
  BY FirstFacts
<1>o. Doing({"release", "swap", "backup", "record", "discard", "account", "cleaned"})
          => Head(task.moved) \in SideNames
  BY <1>f, OnlyOne DEF TaskShape, Doing
<1>1. CASE UNCHANGED <<placed, side, retired>>
  BY <1>1, <1>t, <1>u
<1>2. CASE QuarantineOne \/ OrphanMoved
  <2>1. retired' = retired /\ (UNCHANGED <<placed, side>> \/ \E n \in SideNames : MoveAside(n))
    BY <1>2 DEF QuarantineOne, OrphanMoved
  <2> QED
    BY <1>t, <1>u, <1>a, <2>1
<1>3. CASE RestoreLast \/ SettleOne \/ RecordFails \/ RecoverReplace
  <2>1. retired' = retired
    BY <1>3 DEF RestoreLast, SettleOne, RecordFails, RecoverReplace
  <2>2. PICK n \in SideNames :
            \/ MoveBack(n)
            \/ (RemoveSide(n) \/ TryRemoving(n)) /\ UNCHANGED placed
    <3>1. CASE RestoreLast
      <4>1. task.moved[Len(task.moved)] \in SideNames
        BY <3>1, TaskFacts, LastFacts DEF RestoreLast
      <4> QED
        BY <3>1, <4>1 DEF RestoreLast, RestoreTree
    <3>2. CASE SettleOne
      BY <1>f, <3>2 DEF SettleOne, RestoreTree
    <3>3. CASE RecordFails
      BY <1>o, <3>3 DEF RecordFails, Pc, Doing
    <3>4. CASE RecoverReplace
      BY <3>4 DEF RecoverReplace, Replacement, Aside
    <3> QED
      BY <1>3, <3>1, <3>2, <3>3, <3>4
  <2> QED
    BY <1>t, <1>u, <1>b, <1>r, <2>1, <2>2, TriesRemoving
<1>4. CASE DropBackup \/ OrphanDiscarded \/ CleanupOne \/ RecoverDrop
  <2>1. retired' = retired /\ placed' = placed
    BY <1>4 DEF DropBackup, OrphanDiscarded, CleanupOne, RecoverDrop
  <2>2. \E n \in SideNames : RemoveSide(n) \/ TryRemoving(n)
    BY <1>4, <1>o, <1>t DEF DropBackup, OrphanDiscarded, CleanupOne, RecoverDrop, Aside, Pc, Doing,
           Committing
  <2> QED
    BY <1>t, <1>u, <1>r, <2>1, <2>2, TriesRemoving
<1>5. CASE InstallTree \/ SwapTree
  <2>1. retired' = retired /\ task.kind = "commit"
    BY <1>5 DEF InstallTree, SwapTree, Committing
  <2>2. Artifact \in Stored /\ placed[Artifact] \in Trees
    BY <1>t, <2>1, ArtifactFacts
  <2>3. \/ UNCHANGED <<placed, side>>
        \/ \E n \in SideNames : MoveAside(n)
        \/ placed' = [placed EXCEPT ![Artifact] = "good"] /\ side' = side
    BY <1>5, <2>2 DEF InstallTree, SwapTree, Trees
  <2>4. "good" \in Trees
    BY DEF Trees
  <2> QED
    BY <1>t, <1>u, <1>a, <1>p, <2>1, <2>2, <2>3, <2>4
<1>6. CASE InstallFails
  <2>1. /\ retired' = retired /\ task.kind = "commit" /\ Head(task.moved) \in SideNames
        /\ Artifact \in Stored
    BY <1>6, <1>o, ArtifactFacts DEF InstallFails, Doing
  <2>2. PICK n, left :
            /\ n \in SideNames /\ left \in {side[n]} \cup Partly(side[n])
            /\ side' = [side EXCEPT ![n] = "none"] /\ placed' = [placed EXCEPT ![Artifact] = left]
    BY <1>6, <2>1 DEF InstallFails
  <2>3. left \in Trees /\ "none" \in Trees
    BY <1>t, <2>2 DEF Partly, Trees
  <2> QED
    BY <1>t, <1>p, <2>1, <2>2, <2>3
<1>7. CASE CommitPruning \/ CommitRecovery
  <2>1. Range(task.moved) \subseteq SideNames
    BY TaskFacts, SeqFacts
  <2> QED
    BY <1>7, <1>t, <1>u, <2>1 DEF CommitPruning, CommitRecovery
<1>8. CASE ReleaseRetired \/ OrphanRecorded \/ OrphanReleased \/ CleanupReleased
  <2>1. UNCHANGED <<placed, side>>
    BY <1>8 DEF ReleaseRetired, OrphanRecorded, OrphanReleased, CleanupReleased
  <2>2. retired' \subseteq retired \cup {Head(task.moved)} /\ Head(task.moved) \in SideNames
    BY <1>8, <1>o DEF ReleaseRetired, OrphanRecorded, OrphanReleased, CleanupReleased, Pc, Doing
  <2> QED
    BY <1>t, <1>u, <2>1, <2>2
<1>9. CASE RecoverTarget \/ \E a \in Stored : DamageTree(a)
  <2>1. UNCHANGED <<side, retired>>
    BY <1>9 DEF RecoverTarget, DamageTree
  <2>2. \E a \in Stored, tree \in Trees : placed' = [placed EXCEPT ![a] = tree]
    <3>1. CASE RecoverTarget
      BY <3>1, TodoFacts DEF RecoverTarget, Trees
    <3>2. CASE \E a \in Stored : DamageTree(a)
      BY <3>2 DEF DamageTree, Trees
    <3> QED
      BY <1>9, <3>1, <3>2
  <2> QED
    BY <1>t, <1>p, <2>1, <2>2
<1>10. CASE TaskCrashes \/ TaskRaises
  BY <1>10, <1>t, <1>u, Interruptions DEF TaskCrashes, TaskRaises
<1>11. CASE Staging
  BY <1>1, <1>11 DEF Staging, ReserveStaging, ReserveStagingFails, BeginStaging, DiscardStaging,
         ExpireStaging
<1>12. CASE BeginPruning \/ MovingFails \/ RestoreEnds \/ SettleEnds
            \/ (\E a \in Stored : BeginCommitting(a)) \/ PublishRow \/ PublishRefused \/ OrphansEnd
  BY <1>1, <1>12 DEF BeginPruning, MovingFails, RestoreEnds, SettleEnds, BeginCommitting,
         PublishRow, PublishRefused, OrphansEnd
<1>13. CASE BeginRecovery \/ RecoverySnapshot \/ RemoveAbandonedStaging \/ RecoverNext
            \/ BackupsEnd \/ \E a \in Stored : PreparerCrashes(a) \/ DamageRow(a)
  BY <1>1, <1>13 DEF BeginRecovery, RecoverySnapshot, RemoveAbandonedStaging, RecoverNext,
         BackupsEnd, PreparerCrashes, DamageRow
<1> QED
  BY <1>2, <1>3, <1>4, <1>5, <1>6, <1>7, <1>8, <1>9, <1>10, <1>11, <1>12, <1>13
     DEF StoreNext, Pruning, Installing, Retiring, Recovering, Mishap

LEMMA StagingTyped ==
    ASSUME StoreTypeOK, TreesAreFinite, TaskShape, StoreNext
    PROVE  /\ stageDirs' \subseteq Stored /\ stageLeases' \subseteq Stored
           /\ preparers' \subseteq Stored
           /\ mishaps' \in 0..MaxMishaps
<1>t. /\ stageDirs \subseteq Stored /\ stageLeases \subseteq Stored /\ preparers \subseteq Stored
      /\ mishaps \in 0..MaxMishaps /\ MaxMishaps \in Nat /\ task.art \subseteq Stored
  BY TaskFacts, StoreAssumption DEF StoreTypeOK
<1>r. Raised => mishaps' \in 0..MaxMishaps
  BY <1>t DEF Raised
<1>1. CASE Staging
  BY ZenonT(60), <1>1, <1>t, <1>r DEF Staging, ReserveStaging, ReserveStagingFails, BeginStaging,
         DiscardStaging, ExpireStaging
<1>2. CASE Pruning
  <2>1. CASE RestoreLast
    <3>1. task.moved[Len(task.moved)] \in SideNames
      BY <2>1, TaskFacts, LastFacts DEF RestoreLast
    <3> QED
      BY <1>t, <2>1, <3>1, Restores DEF RestoreLast, staging
  <2>2. CASE SettleOne
    <3>1. Head(task.moved) \in SideNames
      BY <2>2, FirstFacts DEF SettleOne
    <3> QED
      BY <1>t, <2>2, <3>1, Restores DEF SettleOne, staging
  <2> QED
    BY <1>2, <1>t, <1>r, <2>1, <2>2 DEF Pruning, BeginPruning, QuarantineOne, CommitPruning,
           MovingFails, RestoreEnds, ReleaseRetired, SettleEnds, staging
<1>3. CASE (\E a \in Stored : BeginCommitting(a)) \/ DropBackup \/ PublishRow \/ PublishRefused
  BY <1>3, <1>t, <1>r DEF BeginCommitting, DropBackup, PublishRow, PublishRefused, staging
<1>4. CASE InstallTree \/ SwapTree
  <2>1. /\ stageDirs' \in {stageDirs, stageDirs \ {Artifact}}
        /\ preparers' \in {preparers, preparers \ {Artifact}}
        /\ UNCHANGED <<stageLeases, mishaps>>
    <3>1. CASE InstallTree
      <4>1. Artifact \in Stored
        BY <3>1, ArtifactFacts DEF InstallTree, Committing
      <4>2. placed[Artifact] \in {"none", "good", "bad"}
        BY <4>1 DEF StoreTypeOK, Trees
      <4> QED
        BY <3>1, <4>2 DEF InstallTree
    <3>2. CASE SwapTree
      BY <3>2 DEF SwapTree
    <3> QED
      BY <1>4, <3>1, <3>2
  <2> QED
    BY <1>t, <2>1
<1>5. CASE InstallFails
  BY <1>5, <1>t, <1>r DEF InstallFails
<1>6. CASE Retiring
  BY <1>6, <1>t, <1>r DEF Retiring, OrphanMoved, OrphanRecorded, RecordFails, OrphanDiscarded,
         OrphanReleased, OrphansEnd, staging
<1>7. CASE Recovering
  <2>1. CASE RecoverDrop
    <3>1. PICK n \in SideNames : TryRemoving(n)
      BY <2>1 DEF RecoverDrop, Aside
    <3> QED
      BY <1>t, <2>1, <3>1, TriesRemoving DEF RecoverDrop, staging
  <2>2. CASE RemoveAbandonedStaging
    BY <1>t, <1>r, <2>2 DEF RemoveAbandonedStaging
  <2> QED
    BY <1>7, <1>t, <1>r, <2>1, <2>2 DEF Recovering, BeginRecovery, CleanupOne, CleanupReleased,
           RecoverySnapshot, RecoverTarget, RecoverReplace, RecoverNext, BackupsEnd,
           CommitRecovery, staging
<1>8. CASE Mishap
  BY <1>8, <1>t, <1>r DEF Mishap, TaskCrashes, TaskRaises, PreparerCrashes, DamageTree, DamageRow,
         staging
<1> QED
  BY <1>1, <1>2, <1>3, <1>4, <1>5, <1>6, <1>7, <1>8 DEF StoreNext, Installing

LEMMA StoreTyped ==
    ASSUME StoreTypeOK, TreesAreFinite, TaskShape, StoreNext
    PROVE  StoreTypeOK' /\ TreesAreFinite'
BY TaskTyped, RowsTyped, TreesTyped, StagingTyped DEF StoreTypeOK, TreesAreFinite


\* What each step makes of the task.
Starts(kind, pc, art, todo, matched) ==
    /\ task'.kind = kind /\ task'.art = art /\ task'.fresh = FALSE /\ task'.tried = {}
    /\ task'.pc = pc /\ task'.todo = todo /\ task'.moved = <<>> /\ task'.matched = matched

LEMMA StartingSteps ==
    /\ \A a : BeginStaging(a) => Starts("stage", "stage", {a}, <<>>, {})
    /\ BeginPruning => \E victims \in Removable({}) :
           Starts("prune", "quarantine", {}, InOrder(victims), victims)
    /\ \A a : BeginCommitting(a) => \E victims \in Removable({}) :
           Starts("commit", "quarantine", {a}, InOrder(victims), victims)
    /\ BeginRecovery => Starts("recover", "cleanup", {}, <<>>, {})
<1>1. \A x : Removable(x) \subseteq Removable({})
  BY DEF Removable
<1>2. ASSUME NEW a, BeginStaging(a) PROVE Starts("stage", "stage", {a}, <<>>, {})
  BY <1>2 DEF BeginStaging, Starts, NoTask
<1>3. ASSUME BeginPruning
      PROVE  \E victims \in Removable({}) :
                 Starts("prune", "quarantine", {}, InOrder(victims), victims)
  BY <1>3 DEF BeginPruning, Starts, NoTask
<1>4. ASSUME NEW a, BeginCommitting(a)
      PROVE  \E victims \in Removable({}) :
                 Starts("commit", "quarantine", {a}, InOrder(victims), victims)
  BY <1>1, <1>4 DEF BeginCommitting, Starts, NoTask
<1>5. BeginRecovery => Starts("recover", "cleanup", {}, <<>>, {})
  BY DEF BeginRecovery, Starts, NoTask
<1> QED
  BY <1>2, <1>3, <1>4, <1>5

LEMMA PruningSteps ==
    ASSUME StoreTypeOK
    PROVE  /\ QuarantineOne =>
                  /\ Doing({"quarantine"}) /\ task.todo # <<>>
                  /\ LET a == Head(task.todo) IN
                     \/ /\ placed[a] = "none" /\ UNCHANGED <<placed, side>>
                        /\ Becomes("quarantine", Tail(task.todo), task.moved, task.matched)
                     \/ /\ placed[a] # "none"
                        /\ \E n \in SideNames :
                              /\ NewName(n, a, "quarantine") /\ MoveAside(n)
                              /\ Becomes("quarantine", Tail(task.todo), Append(task.moved, n),
                                         task.matched)
           /\ CommitPruning => \E matched \in SUBSET task.matched :
                  /\ matched \in Removable({}) /\ rows' = rows \ matched
                  /\ retired' = retired \cup {n \in Moved : n.of \in matched}
                  /\ Becomes("settle", task.todo, task.moved, matched)
           /\ MovingFails => Becomes("restore", task.todo, task.moved, task.matched)
           /\ RestoreLast =>
                  Becomes("restore", task.todo, SubSeq(task.moved, 1, Len(task.moved) - 1),
                          task.matched)
           /\ SettleOne => IF Head(task.moved).of \in task.matched
                           THEN Becomes("release", task.todo, task.moved, task.matched)
                           ELSE Becomes("settle", task.todo, Tail(task.moved), task.matched)
           /\ ReleaseRetired => Becomes("settle", task.todo, Tail(task.moved), task.matched)
           /\ RestoreEnds => Ends
           /\ SettleEnds => IF task.kind = "commit"
                            THEN Becomes("install", task.todo, task.moved, task.matched)
                            ELSE Ends
<1>1. QuarantineOne =>
          /\ Doing({"quarantine"}) /\ task.todo # <<>>
          /\ LET a == Head(task.todo) IN
             \/ /\ placed[a] = "none" /\ UNCHANGED <<placed, side>>
                /\ Becomes("quarantine", Tail(task.todo), task.moved, task.matched)
             \/ /\ placed[a] # "none"
                /\ \E n \in SideNames :
                      /\ NewName(n, a, "quarantine") /\ MoveAside(n)
                      /\ Becomes("quarantine", Tail(task.todo), Append(task.moved, n), task.matched)
  BY ZenonT(60), TaskBecomes DEF QuarantineOne, Pc, Doing
<1>2. CommitPruning => \E matched \in SUBSET task.matched :
          /\ matched \in Removable({}) /\ rows' = rows \ matched
          /\ retired' = retired \cup {n \in Moved : n.of \in matched}
          /\ Becomes("settle", task.todo, task.moved, matched)
  <2>1. Range(task.moved) = Moved
    BY TaskFacts, SeqFacts DEF Moved
  <2> QED
    BY <2>1, TaskBecomes DEF CommitPruning
<1>3. MovingFails => Becomes("restore", task.todo, task.moved, task.matched)
  BY StepBecomes DEF MovingFails
<1>4. RestoreLast =>
          Becomes("restore", task.todo, SubSeq(task.moved, 1, Len(task.moved) - 1), task.matched)
  BY ZenonT(60), TaskBecomes DEF RestoreLast, Pc
<1>5. SettleOne => IF Head(task.moved).of \in task.matched
                   THEN Becomes("release", task.todo, task.moved, task.matched)
                   ELSE Becomes("settle", task.todo, Tail(task.moved), task.matched)
  BY TaskBecomes, StepBecomes DEF SettleOne, Pc
<1>6. ReleaseRetired => Becomes("settle", task.todo, Tail(task.moved), task.matched)
  BY TaskBecomes DEF ReleaseRetired
<1>7. /\ RestoreEnds => Ends
      /\ SettleEnds => IF task.kind = "commit"
                       THEN Becomes("install", task.todo, task.moved, task.matched)
                       ELSE Ends
  BY TaskEnds, StepBecomes DEF RestoreEnds, SettleEnds
<1> QED
  BY SMTT(60), <1>1, <1>2, <1>3, <1>4, <1>5, <1>6, <1>7

LEMMA InstallingSteps ==
    ASSUME StoreTypeOK, TaskShape
    PROVE  /\ InstallTree =>
                  /\ task.kind = "commit" /\ Doing({"install"})
                  /\ \/ /\ placed[Artifact] = "none"
                        /\ placed' = [placed EXCEPT ![Artifact] = "good"] /\ side' = side
                        /\ task' = [task EXCEPT !.pc = "publish", !.fresh = TRUE]
                     \/ /\ placed[Artifact] = "good" /\ UNCHANGED <<placed, side>>
                        /\ Becomes("publish", task.todo, task.moved, task.matched)
                     \/ /\ placed[Artifact] = "bad"
                        /\ \E n \in SideNames :
                              /\ NewName(n, Artifact, "incomplete") /\ MoveAside(n)
                              /\ Becomes("swap", task.todo, <<n>>, task.matched)
           /\ SwapTree => Becomes("backup", task.todo, task.moved, task.matched)
           /\ DropBackup => Becomes("publish", task.todo, <<>>, task.matched)
           /\ InstallFails => Ends
           /\ PublishRow => Ends
           /\ PublishRefused => IF task.fresh
                                THEN Becomes("orphan", <<Artifact>>, task.moved, task.matched)
                                ELSE Ends
<1>1. ASSUME InstallTree
      PROVE  /\ task.kind = "commit" /\ Doing({"install"})
             /\ \/ /\ placed[Artifact] = "none"
                   /\ placed' = [placed EXCEPT ![Artifact] = "good"] /\ side' = side
                   /\ task' = [task EXCEPT !.pc = "publish", !.fresh = TRUE]
                \/ /\ placed[Artifact] = "good" /\ UNCHANGED <<placed, side>>
                   /\ Becomes("publish", task.todo, task.moved, task.matched)
                \/ /\ placed[Artifact] = "bad"
                   /\ \E n \in SideNames :
                         /\ NewName(n, Artifact, "incomplete") /\ MoveAside(n)
                         /\ Becomes("swap", task.todo, <<n>>, task.matched)
  <2>1. task.kind = "commit" /\ Doing({"install"})
    BY <1>1 DEF InstallTree, Committing, Pc, Doing
  <2>2. placed[Artifact] \in {"none", "good", "bad"}
    BY <2>1, ArtifactFacts DEF StoreTypeOK, Trees
  <2>3. CASE placed[Artifact] = "none"
    <3>1. /\ placed' = [placed EXCEPT ![Artifact] = "good"] /\ side' = side
          /\ task' = [task EXCEPT !.pc = "publish", !.fresh = TRUE]
      BY <1>1, <2>3 DEF InstallTree
    <3> QED
      BY <2>1, <2>3, <3>1
  <2>4. CASE placed[Artifact] = "good"
    <3>1. UNCHANGED <<placed, side>> /\ Step("publish")
      BY <1>1, <2>4 DEF InstallTree
    <3> QED
      BY <2>1, <2>4, <3>1, StepBecomes
  <2>5. CASE placed[Artifact] = "bad"
    <3>1. PICK n \in SideNames :
              /\ NewName(n, Artifact, "incomplete") /\ MoveAside(n)
              /\ task' = [task EXCEPT !.pc = "swap", !.moved = <<n>>]
      BY <1>1, <2>5 DEF InstallTree
    <3>2. Becomes("swap", task.todo, <<n>>, task.matched)
      BY <3>1, TaskBecomes
    <3> QED
      BY <2>1, <2>5, <3>1, <3>2
  <2> QED
    BY <2>2, <2>3, <2>4, <2>5
<1>2. SwapTree => Becomes("backup", task.todo, task.moved, task.matched)
  BY StepBecomes DEF SwapTree
<1>3. DropBackup => Becomes("publish", task.todo, <<>>, task.matched)
  BY TaskBecomes DEF DropBackup
<1>4. (InstallFails => Ends) /\ (PublishRow => Ends)
  BY SMTT(60), TaskEnds DEF InstallFails, PublishRow
<1>5. PublishRefused => IF task.fresh
                        THEN Becomes("orphan", <<Artifact>>, task.moved, task.matched)
                        ELSE Ends
  BY TaskEnds, TaskBecomes DEF PublishRefused
<1> QED
  BY <1>1, <1>2, <1>3, <1>4, <1>5

LEMMA RetiringSteps ==
    ASSUME StoreTypeOK
    PROVE  /\ OrphanMoved => \E n \in SideNames :
                  /\ NewName(n, Head(task.todo), "quarantine") /\ MoveAside(n)
                  /\ Becomes("record", Tail(task.todo), <<n>>, task.matched)
           /\ OrphanRecorded => Becomes("discard", task.todo, task.moved, task.matched)
           /\ RecordFails => Ends
           /\ OrphanDiscarded => Becomes("account", task.todo, task.moved, task.matched)
           /\ OrphanReleased => Becomes("orphan", task.todo, <<>>, task.matched)
           /\ OrphansEnd =>
                  IF task.kind = "recover"
                  THEN LET damaged == {a \in rows : ~Whole(a)} IN
                       Becomes("quarantine", InOrder(damaged), task.moved, damaged)
                  ELSE Ends
<1>1. OrphanMoved => \E n \in SideNames :
          /\ NewName(n, Head(task.todo), "quarantine") /\ MoveAside(n)
          /\ Becomes("record", Tail(task.todo), <<n>>, task.matched)
  BY TaskBecomes DEF OrphanMoved
<1>2. /\ OrphanRecorded => Becomes("discard", task.todo, task.moved, task.matched)
      /\ OrphanDiscarded => Becomes("account", task.todo, task.moved, task.matched)
  BY StepBecomes DEF OrphanRecorded, OrphanDiscarded
<1>3. RecordFails => Ends
  BY TaskEnds DEF RecordFails
<1>4. OrphanReleased => Becomes("orphan", task.todo, <<>>, task.matched)
  BY ZenonT(60), TaskBecomes DEF OrphanReleased
<1>5. OrphansEnd =>
          IF task.kind = "recover"
          THEN LET damaged == {a \in rows : ~Whole(a)} IN
               Becomes("quarantine", InOrder(damaged), task.moved, damaged)
          ELSE Ends
  BY TaskEnds, TaskBecomes DEF OrphansEnd
<1> QED
  BY <1>1, <1>2, <1>3, <1>4, <1>5

LEMMA RecoveringSteps ==
    ASSUME StoreTypeOK
    PROVE  /\ CleanupOne => \E n \in retired :
                  RemoveSide(n) /\ Becomes("cleaned", task.todo, <<n>>, task.matched)
           /\ CleanupReleased => Becomes("cleanup", task.todo, <<>>, task.matched)
           /\ RecoverySnapshot => Becomes("staging", task.todo, task.moved, stageLeases)
           /\ RemoveAbandonedStaging => Becomes("backups", SetToSeq(rows), task.moved, {})
           /\ RecoverReplace => \E n \in Replacement(Head(task.todo)) : MoveBack(n) /\ Tries(n)
           /\ RecoverDrop => \E n \in Aside(Head(task.todo)) : TryRemoving(n) /\ Tries(n)
           /\ RecoverNext => Becomes("backups", Tail(task.todo), task.moved, task.matched)
           /\ BackupsEnd => Becomes("orphan", SetToSeq(Unindexed), task.moved, task.matched)
           /\ CommitRecovery =>
                  LET gone == task.matched \cup Containing(task.matched \cap StoredStates) IN
                  /\ rows' = rows \ gone /\ retired' = retired \cup Moved
                  /\ Becomes("settle", task.todo, task.moved, gone)
<1>1. CleanupOne => \E n \in retired :
          RemoveSide(n) /\ Becomes("cleaned", task.todo, <<n>>, task.matched)
  BY TaskBecomes DEF CleanupOne
<1>2. CleanupReleased => Becomes("cleanup", task.todo, <<>>, task.matched)
  BY TaskBecomes DEF CleanupReleased
<1>3. RecoverySnapshot => Becomes("staging", task.todo, task.moved, stageLeases)
  BY TaskBecomes DEF RecoverySnapshot
<1>4. RemoveAbandonedStaging => Becomes("backups", SetToSeq(rows), task.moved, {})
  BY TaskBecomes DEF RemoveAbandonedStaging
<1>5. RecoverNext => Becomes("backups", Tail(task.todo), task.moved, task.matched)
  BY TaskBecomes DEF RecoverNext, Pc
<1>6. BackupsEnd => Becomes("orphan", SetToSeq(Unindexed), task.moved, task.matched)
  BY TaskBecomes DEF BackupsEnd
<1>7. CommitRecovery =>
          LET gone == task.matched \cup Containing(task.matched \cap StoredStates) IN
          /\ rows' = rows \ gone /\ retired' = retired \cup Moved
          /\ Becomes("settle", task.todo, task.moved, gone)
  <2>1. Range(task.moved) = Moved
    BY TaskFacts, SeqFacts DEF Moved
  <2> QED
    BY <2>1, TaskBecomes DEF CommitRecovery
<1>8. /\ RecoverReplace => \E n \in Replacement(Head(task.todo)) : MoveBack(n) /\ Tries(n)
      /\ RecoverDrop => \E n \in Aside(Head(task.todo)) : TryRemoving(n) /\ Tries(n)
  BY TaskTries DEF RecoverReplace, RecoverDrop
<1> QED
  BY <1>1, <1>2, <1>3, <1>4, <1>5, <1>6, <1>7, <1>8

-----------------------------------------------------------------------------
(* The shape of a task, and the rows *)

LEMMA ShapeKept ==
    ASSUME StoreTypeOK, TreesAreFinite, TaskShape, StoreNext
    PROVE  TaskShape'
<1>e. Len(<<>>) = 0 /\ \A x : Len(<<x>>) = 1 /\ <<x>> # <<>>
  BY ShortSeqs
<1>i. Ends => TaskShape'
  BY DEF Ends, TaskShape, Doing
<1>0. UNCHANGED task => TaskShape'
  BY DEF TaskShape, Doing, First
<1>s. ASSUME NEW kind, NEW pc, NEW art, NEW todo, NEW matched, Starts(kind, pc, art, todo, matched),
             kind # "commit" \/ \E a \in Stored : art = {a},
             pc \in {"stage", "quarantine", "cleanup"}
      PROVE  TaskShape'
  BY <1>s DEF Starts, TaskShape, Doing
<1>n. ASSUME NEW pc, NEW todo, NEW moved, NEW matched, Becomes(pc, todo, moved, matched),
             pc \in {"idle", "stage", "install", "publish", "orphan", "cleanup", "staging", "backups"}
                 => moved = <<>>,
             pc \in {"record", "discard", "account", "cleaned"} => Len(moved) = 1,
             pc = "release" => moved # <<>>,
             pc \in {"cleanup", "cleaned", "staging"} => task.tried = {},
             pc \notin {"swap", "backup"}
      PROVE  TaskShape'
  BY <1>n DEF Becomes, TaskShape, Doing
<1>1. CASE Staging
  <2>1. CASE \E a \in Stored : BeginStaging(a)
    <3>1. PICK a \in Stored : Starts("stage", "stage", {a}, <<>>, {})
      BY <2>1, StartingSteps
    <3> QED
      BY <1>s, <3>1
  <2>2. CASE ~(\E a \in Stored : BeginStaging(a))
    BY <1>1, <2>2, <1>0, <1>i, TaskEnds DEF Staging, ReserveStaging, ReserveStagingFails,
           DiscardStaging, ExpireStaging
  <2> QED
    BY <2>1, <2>2
<1>2. CASE Pruning
  <2>1. CASE BeginPruning
    <3>1. PICK victims : Starts("prune", "quarantine", {}, InOrder(victims), victims)
      BY <2>1, StartingSteps
    <3> QED
      BY <1>s, <3>1
  <2>2. CASE QuarantineOne
    <3>1. \E todo, moved, matched : Becomes("quarantine", todo, moved, matched)
      BY <2>2, PruningSteps
    <3> QED
      BY <1>n, <3>1
  <2>3. CASE CommitPruning
    <3>1. \E todo, moved, matched : Becomes("settle", todo, moved, matched)
      BY <2>3, PruningSteps
    <3> QED
      BY <1>n, <3>1
  <2>4. CASE MovingFails \/ RestoreLast
    <3>1. \E todo, moved, matched : Becomes("restore", todo, moved, matched)
      BY <2>4, PruningSteps
    <3> QED
      BY <1>n, <3>1
  <2>5. CASE SettleOne \/ ReleaseRetired
    <3>1. \/ task.moved # <<>> /\ Becomes("release", task.todo, task.moved, task.matched)
          \/ \E moved : Becomes("settle", task.todo, moved, task.matched)
      BY <2>5, PruningSteps DEF SettleOne
    <3> QED
      BY <1>n, <3>1
  <2>6. CASE RestoreEnds \/ SettleEnds
    <3>1. Ends \/ (task.moved = <<>> /\ Becomes("install", task.todo, task.moved, task.matched))
      BY <2>6, PruningSteps DEF SettleEnds
    <3> QED
      BY <1>i, <1>n, <3>1
  <2> QED
    BY <1>2, <2>1, <2>2, <2>3, <2>4, <2>5, <2>6 DEF Pruning
<1>3. CASE Installing
  <2>1. CASE \E a \in Stored : BeginCommitting(a)
    <3>1. PICK a \in Stored, victims \in Removable({}) :
              Starts("commit", "quarantine", {a}, InOrder(victims), victims)
      BY <2>1, StartingSteps
    <3> QED
      BY <1>s, <3>1
  <2>2. CASE InstallTree
    <3>1. task.kind = "commit" /\ task.moved = <<>> /\ task.art = {Artifact}
      BY <2>2, InstallingSteps, ArtifactFacts DEF TaskShape, Doing
    <3>2. CASE Becomes("publish", task.todo, task.moved, task.matched)
      BY <1>n, <3>1, <3>2
    <3>4. CASE task' = [task EXCEPT !.pc = "publish", !.fresh = TRUE]
      BY <3>1, <3>4, FreshTask, ArtifactFacts DEF TaskShape, Doing
    <3>3. CASE \E n \in SideNames : NewName(n, Artifact, "incomplete")
                  /\ Becomes("swap", task.todo, <<n>>, task.matched)
      <4>1. PICK n \in SideNames : NewName(n, Artifact, "incomplete")
                  /\ Becomes("swap", task.todo, <<n>>, task.matched)
        BY <3>3
      <4>2. n.of = Artifact
        BY <4>1 DEF NewName
      <4>3. Len(<<n>>) = 1 /\ <<n>>[1] = n
        BY ShortSeqs
      <4>4. /\ task'.kind = "commit" /\ task'.art = {Artifact} /\ task'.pc = "swap"
            /\ Len(task'.moved) = 1 /\ task'.moved[1] = n
        BY <3>1, <4>1, <4>3 DEF Becomes
      <4>5. Artifact \in Stored
        BY <3>1, ArtifactFacts
      <4> QED
        BY <4>2, <4>4, <4>5 DEF TaskShape, Doing, First
    <3> QED
      BY <2>2, <3>2, <3>3, <3>4, InstallingSteps
  <2>3. CASE SwapTree
    <3>1. task.pc = "swap" /\ Becomes("backup", task.todo, task.moved, task.matched)
      BY <2>3, InstallingSteps DEF SwapTree, Committing, Pc
    <3> QED
      BY <3>1 DEF Becomes, TaskShape, Doing, First
  <2>4. CASE DropBackup
    <3>1. Becomes("publish", task.todo, <<>>, task.matched)
      BY <2>4, InstallingSteps
    <3> QED
      BY <1>n, <3>1
  <2>5. CASE InstallFails \/ PublishRow \/ PublishRefused
    <3>1. \/ Ends
          \/ Doing({"publish"}) /\ Becomes("orphan", <<Artifact>>, task.moved, task.matched)
      BY <2>5, InstallingSteps DEF PublishRefused, Committing, Pc, Doing
    <3>2. Doing({"publish"}) => task.moved = <<>>
      BY DEF TaskShape, Doing
    <3> QED
      BY <1>i, <1>n, <3>1, <3>2
  <2> QED
    BY <1>3, <2>1, <2>2, <2>3, <2>4, <2>5 DEF Installing
<1>4. CASE Retiring
  <2>1. CASE OrphanMoved
    <3>1. \E n, todo, matched : Becomes("record", todo, <<n>>, matched)
      BY <2>1, RetiringSteps
    <3> QED
      BY <1>e, <1>n, <3>1
  <2>2. CASE OrphanRecorded \/ OrphanDiscarded
    <3>1. \E pc \in {"discard", "account"} : Becomes(pc, task.todo, task.moved, task.matched)
      BY <2>2, RetiringSteps
    <3>2. Len(task.moved) = 1
      BY <2>2 DEF OrphanRecorded, OrphanDiscarded, TaskShape, Pc, Doing
    <3> QED
      BY <1>n, <3>1, <3>2
  <2>3. CASE RecordFails
    BY <1>i, <2>3, RetiringSteps
  <2>4. CASE OrphanReleased
    BY <1>n, <2>4, RetiringSteps
  <2>5. CASE OrphansEnd
    <3>1. Ends \/ \E todo, moved, matched : Becomes("quarantine", todo, moved, matched)
      BY <2>5, RetiringSteps
    <3> QED
      BY <1>i, <1>n, <3>1
  <2> QED
    BY <1>4, <2>1, <2>2, <2>3, <2>4, <2>5 DEF Retiring
<1>5. CASE Recovering
  <2>1. CASE BeginRecovery
    <3>1. Starts("recover", "cleanup", {}, <<>>, {})
      BY <2>1, StartingSteps
    <3> QED
      BY <1>s, <3>1
  <2>c. CleanupOne \/ CleanupReleased \/ RecoverySnapshot => task.tried = {}
    BY DEF CleanupOne, CleanupReleased, RecoverySnapshot, TaskShape, Pc, Doing
  <2>2. CASE CleanupOne
    <3>1. \E n, todo, matched : Becomes("cleaned", todo, <<n>>, matched)
      BY <2>2, RecoveringSteps
    <3> QED
      BY <1>e, <1>n, <2>2, <2>c, <3>1
  <2>3. CASE CleanupReleased
    BY <1>n, <2>3, <2>c, RecoveringSteps
  <2>4. CASE RecoverySnapshot \/ RemoveAbandonedStaging \/ RecoverNext \/ BackupsEnd
    <3>1. task.moved = <<>>
      BY <2>4 DEF RecoverySnapshot, RemoveAbandonedStaging, RecoverNext, BackupsEnd, TaskShape, Pc,
             Doing
    <3>2. \E pc \in {"staging", "backups", "orphan"} : \E todo, matched :
              /\ Becomes(pc, todo, task.moved, matched)
              /\ pc = "staging" => task.tried = {}
      BY <2>4, <2>c, RecoveringSteps
    <3> QED
      BY <1>n, <3>1, <3>2
  <2>5. CASE CommitRecovery
    <3>1. \E todo, moved, matched : Becomes("settle", todo, moved, matched)
      BY <2>5, RecoveringSteps
    <3> QED
      BY <1>n, <3>1
  <2>6. CASE RecoverTarget
    BY <1>0, <2>6 DEF RecoverTarget
  <2>7. CASE RecoverReplace \/ RecoverDrop
    <3>1. task.pc = "backups" /\ \E n : Tries(n)
      BY <2>7, RecoveringSteps DEF RecoverReplace, RecoverDrop, Pc
    <3> QED
      BY <3>1 DEF Tries, TaskShape, Doing, First
  <2> QED
    BY <1>5, <2>1, <2>2, <2>3, <2>4, <2>5, <2>6, <2>7 DEF Recovering
<1>6. CASE Mishap
  BY <1>6, <1>0, <1>i, TaskEnds DEF Mishap, TaskCrashes, TaskRaises, PreparerCrashes, DamageTree,
         DamageRow
<1> QED
  BY <1>1, <1>2, <1>3, <1>4, <1>5, <1>6 DEF StoreNext

\* The generations that contain what goes, go.
LEMMA ClosedKept ==
    ASSUME StoreTypeOK, TaskShape, GenerationsAreClosed, StoreNext
    PROVE  GenerationsAreClosed'
<1>t. /\ rows \subseteq Stored /\ malformed \subseteq rows
      /\ \A g \in StoredGenerations : MembersOf[g] \subseteq StoredStates
      /\ StoredStates \cap StoredGenerations = {}
  BY StoreAssumption DEF StoreTypeOK
<1>g. ASSUME NEW gone, Containing(gone \cap StoredStates) \cap rows \subseteq gone,
             rows' = rows \ gone
      PROVE  GenerationsAreClosed'
  <2> SUFFICES ASSUME NEW g \in rows' \cap StoredGenerations, NEW s \in MembersOf[g]
               PROVE  s \in rows'
    BY DEF GenerationsAreClosed
  <2>1. g \in rows /\ g \notin gone /\ s \in rows /\ s \in StoredStates
    BY <1>t, <1>g DEF GenerationsAreClosed
  <2>2. s \in gone => g \in Containing(gone \cap StoredStates)
    BY <2>1 DEF Containing
  <2> QED
    BY <1>g, <2>1, <2>2
<1>1. CASE UNCHANGED <<rows, malformed, hurt>> \/ \E a \in Stored : DamageTree(a) \/ DamageRow(a)
  <2>1. rows' = rows
    BY <1>1 DEF DamageTree, DamageRow
  <2> QED
    BY <2>1 DEF GenerationsAreClosed
<1>2. CASE CommitPruning
  <2>1. PICK gone \in Removable({}) : rows' = rows \ gone
    BY <1>2 DEF CommitPruning
  <2> QED
    BY <1>g, <2>1 DEF Removable
<1>3. CASE CommitRecovery \/ RecoverySnapshot
  <2>1. PICK arts : rows' = rows \ (arts \cup Containing(arts \cap StoredStates))
    BY <1>3 DEF CommitRecovery, RecoverySnapshot
  <2>2. Containing(arts \cap StoredStates) \subseteq StoredGenerations
    BY DEF Containing
  <2>3. (arts \cup Containing(arts \cap StoredStates)) \cap StoredStates = arts \cap StoredStates
    BY <1>t, <2>2
  <2> QED
    BY <1>g, <2>1, <2>3
<1>4. CASE PublishRow
  <2>1. /\ rows' = rows \cup {Artifact}
        /\ Artifact \in StoredGenerations => MembersOf[Artifact] \subseteq rows
    BY <1>4 DEF PublishRow
  <2> QED
    BY <2>1 DEF GenerationsAreClosed
<1> QED
  BY <1>1, <1>2, <1>3, <1>4, RowSteps

-----------------------------------------------------------------------------
(* Staging directories *)

LEMMA StagingKept ==
    ASSUME StoreTypeOK, TreesAreFinite, TaskShape, StagingInUseStays, StagingIsLeased, StoreNext
    PROVE  StagingInUseStays' /\ StagingIsLeased'
<1>t. /\ preparers \cap stageLeases \subseteq stageDirs
      /\ task.pc = "stage" => task.art \subseteq stageDirs \ preparers
      /\ task.pc = "staging" => preparers \cap stageLeases \subseteq task.matched
  BY DEF StagingInUseStays, StagingIsLeased, Doing
<1>k. ASSUME preparers' \subseteq preparers, stageLeases' = stageLeases,
             preparers' \cap stageLeases \subseteq stageDirs',
             task'.pc \notin {"stage", "staging"}
      PROVE  StagingInUseStays' /\ StagingIsLeased'
  BY <1>k, <1>t DEF StagingInUseStays, StagingIsLeased, Doing
\* A step that leaves the staging directories alone.
<1>n. ASSUME NEW pc, NEW todo, NEW moved, NEW matched, Becomes(pc, todo, moved, matched),
             UNCHANGED staging, pc \notin {"stage", "staging"}
      PROVE  StagingInUseStays' /\ StagingIsLeased'
  BY <1>n, <1>k, <1>t DEF Becomes, staging
<1>i. ASSUME Ends, UNCHANGED staging PROVE StagingInUseStays' /\ StagingIsLeased'
  BY <1>i, <1>k, <1>t DEF Ends, staging
<1>0. ASSUME UNCHANGED task, UNCHANGED <<stageDirs, stageLeases>>, preparers' \subseteq preparers
      PROVE  StagingInUseStays' /\ StagingIsLeased'
  BY <1>0, <1>t DEF StagingInUseStays, StagingIsLeased, Doing
<1>a. task.kind = "commit" => Artifact \in Stored /\ task.art = {Artifact}
  BY ArtifactFacts
<1>1. CASE Staging
  <2>1. ASSUME NEW a \in Stored, BeginStaging(a) PROVE StagingInUseStays' /\ StagingIsLeased'
    <3>1. /\ task'.kind = "stage" /\ task'.art = {a} /\ task'.pc = "stage"
          /\ a \notin preparers
          /\ stageDirs' = stageDirs \cup {a} /\ UNCHANGED <<stageLeases, preparers>>
      BY <2>1, StartingSteps DEF Starts, BeginStaging
    <3> QED
      BY <1>t, <3>1 DEF StagingInUseStays, StagingIsLeased, Doing
  <2>2. ASSUME ReserveStaging PROVE StagingInUseStays' /\ StagingIsLeased'
    <3>1. /\ task.pc = "stage" /\ Ends /\ stageDirs' = stageDirs
          /\ stageLeases' = stageLeases \cup task.art /\ preparers' = preparers \cup task.art
      BY <2>2, TaskEnds DEF ReserveStaging, Pc
    <3> QED
      BY <1>t, <3>1 DEF StagingInUseStays, StagingIsLeased, Doing, Ends
  <2>3. ASSUME ReserveStagingFails PROVE StagingInUseStays' /\ StagingIsLeased'
    <3>1. /\ task.pc = "stage" /\ Ends /\ stageDirs' \in {stageDirs, stageDirs \ task.art}
          /\ UNCHANGED <<stageLeases, preparers>>
      BY <2>3, TaskEnds DEF ReserveStagingFails, Pc
    <3> QED
      BY <1>t, <3>1 DEF StagingInUseStays, StagingIsLeased, Doing, Ends
  <2>4. ASSUME NEW a \in Stored, DiscardStaging(a) PROVE StagingInUseStays' /\ StagingIsLeased'
    <3>1. /\ a \notin task.art /\ task' = task
          /\ preparers' = preparers \ {a} /\ stageLeases' = stageLeases \ {a}
          /\ stageDirs' \in {stageDirs, stageDirs \ {a}}
      BY <2>4 DEF DiscardStaging
    <3> QED
      BY <1>t, <3>1 DEF StagingInUseStays, StagingIsLeased, Doing
  <2>5. ASSUME NEW a \in Stored, ExpireStaging(a) PROVE StagingInUseStays' /\ StagingIsLeased'
    <3>1. /\ task' = task
          /\ stageLeases' = stageLeases \ {a} /\ UNCHANGED <<stageDirs, preparers>>
      BY <2>5 DEF ExpireStaging
    <3> QED
      BY <1>t, <3>1 DEF StagingInUseStays, StagingIsLeased, Doing
  <2> QED
    BY <1>1, <2>1, <2>2, <2>3, <2>4, <2>5 DEF Staging
<1>2. CASE Pruning
  <2>1. UNCHANGED staging
    BY <1>2 DEF Pruning, BeginPruning, QuarantineOne, CommitPruning, MovingFails, RestoreLast,
           RestoreEnds, SettleOne, ReleaseRetired, SettleEnds, staging
  <2>2. CASE BeginPruning
    <3>1. task'.kind = "prune" /\ task'.pc = "quarantine"
      BY <2>2, StartingSteps DEF Starts
    <3> QED
      BY <1>k, <1>t, <2>1, <3>1 DEF staging
  <2>3. CASE ~BeginPruning
    <3>1. \/ Ends
          \/ \E pc \in {"quarantine", "settle", "restore", "release", "install"} :
                 \E todo, moved, matched : Becomes(pc, todo, moved, matched)
      BY <1>2, <2>3, PruningSteps DEF Pruning
    <3> QED
      BY <1>i, <1>n, <2>1, <3>1
  <2> QED
    BY SMTT(60), <2>2, <2>3
<1>3. CASE Installing
  <2>1. ASSUME NEW a \in Stored, BeginCommitting(a) PROVE StagingInUseStays' /\ StagingIsLeased'
    <3>1. task'.pc = "quarantine" /\ UNCHANGED staging
      BY <2>1, StartingSteps DEF Starts, BeginCommitting
    <3> QED
      BY <1>k, <1>t, <3>1 DEF staging
  <2>2. ASSUME InstallTree \/ SwapTree PROVE StagingInUseStays' /\ StagingIsLeased'
    <3>1. task'.pc \in {"publish", "swap", "backup"}
      BY <2>2, InstallingSteps, FreshTask DEF Becomes
    <3>2. task.kind = "commit"
      BY <2>2 DEF InstallTree, SwapTree, Committing
    <3>3. /\ stageLeases' = stageLeases
          /\ \/ UNCHANGED <<stageDirs, preparers>>
             \/ stageDirs' = stageDirs \ {Artifact} /\ preparers' = preparers \ {Artifact}
      <4>1. placed[Artifact] \in {"none", "good", "bad"}
        BY <1>a, <3>2 DEF StoreTypeOK, Trees
      <4> QED
        BY <2>2, <4>1 DEF InstallTree, SwapTree
    <3> QED
      BY <1>k, <1>t, <3>1, <3>2, <3>3
  <2>3. ASSUME DropBackup PROVE StagingInUseStays' /\ StagingIsLeased'
    BY <1>n, <2>3, InstallingSteps DEF DropBackup
  <2>4. ASSUME InstallFails PROVE StagingInUseStays' /\ StagingIsLeased'
    <3>1. /\ Ends /\ task.kind = "commit" /\ stageLeases' = stageLeases
          /\ stageDirs' = stageDirs \cup task.art /\ preparers' = preparers \cup task.art
      BY <2>4, InstallingSteps DEF InstallFails
    <3> QED
      BY <1>t, <3>1 DEF StagingInUseStays, StagingIsLeased, Doing, Ends
  <2>5. ASSUME PublishRow \/ PublishRefused PROVE StagingInUseStays' /\ StagingIsLeased'
    <3>1. UNCHANGED staging
      BY <2>5 DEF PublishRow, PublishRefused
    <3>2. Ends \/ \E todo, moved, matched : Becomes("orphan", todo, moved, matched)
      BY <2>5, InstallingSteps
    <3> QED
      BY <1>i, <1>n, <3>1, <3>2
  <2> QED
    BY <1>3, <2>1, <2>2, <2>3, <2>4, <2>5 DEF Installing
<1>4. CASE Retiring
  <2>1. UNCHANGED staging
    BY <1>4 DEF Retiring, OrphanMoved, OrphanRecorded, RecordFails, OrphanDiscarded,
           OrphanReleased, OrphansEnd, staging
  <2>2. \/ Ends
        \/ \E pc \in {"record", "discard", "account", "orphan", "quarantine"} :
               \E todo, moved, matched : Becomes(pc, todo, moved, matched)
    BY <1>4, RetiringSteps DEF Retiring
  <2> QED
    BY <1>i, <1>n, <2>1, <2>2
<1>5. CASE Recovering
  <2>1. CASE BeginRecovery
    <3>1. task'.kind = "recover" /\ task'.pc = "cleanup" /\ UNCHANGED staging
      BY <2>1, StartingSteps DEF Starts, BeginRecovery
    <3> QED
      BY <1>k, <1>t, <3>1 DEF staging
  <2>2. CASE RecoverySnapshot
    <3>1. /\ task'.kind = task.kind /\ task'.art = task.art /\ task'.pc = "staging"
          /\ task'.matched = stageLeases /\ UNCHANGED staging
      BY <2>2, RecoveringSteps DEF RecoverySnapshot, Becomes
    <3> QED
      BY <1>t, <3>1 DEF StagingInUseStays, StagingIsLeased, Doing, staging
  <2>3. CASE RemoveAbandonedStaging
    <3>1. /\ task'.kind = task.kind /\ task'.art = task.art /\ task'.pc = "backups"
          /\ task.pc = "staging"
          /\ stageDirs \cap task.matched \subseteq stageDirs' /\ UNCHANGED <<stageLeases, preparers>>
      BY <2>3, RecoveringSteps DEF RemoveAbandonedStaging, Becomes, Pc
    <3> QED
      BY <1>k, <1>t, <3>1
  <2>4. CASE CleanupOne \/ CleanupReleased \/ RecoverNext \/ BackupsEnd \/ CommitRecovery
    <3>1. UNCHANGED staging
      BY <2>4 DEF CleanupOne, CleanupReleased, RecoverNext, BackupsEnd, CommitRecovery
    <3>2. \E pc \in {"cleaned", "cleanup", "backups", "orphan", "settle"} :
              \E todo, moved, matched : Becomes(pc, todo, moved, matched)
      BY <2>4, RecoveringSteps
    <3> QED
      BY <1>n, <3>1, <3>2
  <2>5. CASE RecoverTarget \/ RecoverReplace \/ RecoverDrop
    <3>1. UNCHANGED staging /\ task.pc = "backups"
      BY <2>5 DEF RecoverTarget, RecoverReplace, RecoverDrop, Pc
    <3>2. UNCHANGED task \/ \E n : Tries(n)
      BY <2>5, RecoveringSteps DEF RecoverTarget
    <3> QED
      BY <1>k, <1>t, <3>1, <3>2 DEF Tries, staging
  <2> QED
    BY <1>5, <2>1, <2>2, <2>3, <2>4, <2>5 DEF Recovering
<1>6. CASE Mishap
  <2>1. CASE TaskCrashes \/ TaskRaises
    <3>1. /\ Ends /\ UNCHANGED <<stageDirs, stageLeases>>
          /\ preparers' \subseteq preparers
      BY <2>1, TaskEnds DEF TaskCrashes, TaskRaises, staging
    <3> QED
      BY <1>k, <1>t, <3>1 DEF Ends
  <2>2. CASE \E a \in Stored : PreparerCrashes(a) \/ DamageTree(a) \/ DamageRow(a)
    BY <1>0, <2>2 DEF PreparerCrashes, DamageTree, DamageRow, staging
  <2> QED
    BY <1>6, <2>1, <2>2 DEF Mishap
<1> QED
  BY <1>1, <1>2, <1>3, <1>4, <1>5, <1>6 DEF StoreNext

LEMMA FreshKept ==
    ASSUME StoreTypeOK, TaskShape, FreshIsPublished, StoreNext
    PROVE  FreshIsPublished'
<1>t. /\ task.fresh \in BOOLEAN
      /\ task.fresh => /\ task.kind = "commit"
                       /\ task.pc \in {"publish", "orphan", "record", "discard", "account"}
  BY TaskFacts DEF FreshIsPublished, Doing
<1>0. UNCHANGED task => FreshIsPublished'
  BY DEF FreshIsPublished, Doing
<1>e. Ends => FreshIsPublished'
  BY DEF FreshIsPublished, Ends
<1>s. ASSUME NEW kind, NEW pc, NEW art, NEW todo, NEW matched, Starts(kind, pc, art, todo, matched)
      PROVE  FreshIsPublished'
  BY <1>s DEF FreshIsPublished, Starts
<1>n. ASSUME NEW pc, NEW todo, NEW moved, NEW matched, Becomes(pc, todo, moved, matched),
             \/ pc \in {"publish", "orphan", "record", "discard", "account"}
             \/ task.pc \notin {"publish", "orphan", "record", "discard", "account"}
             \/ task.kind # "commit"
      PROVE  FreshIsPublished'
  BY <1>n, <1>t DEF FreshIsPublished, Becomes, Doing
<1>1. CASE Staging
  BY <1>1, <1>0, <1>e, <1>s, StartingSteps, TaskEnds DEF Staging, ReserveStaging,
         ReserveStagingFails, DiscardStaging, ExpireStaging
<1>2. CASE Pruning
  <2>1. CASE BeginPruning
    BY <2>1, <1>s, StartingSteps
  <2>2. CASE ~BeginPruning
    <3>1. task.pc \in {"quarantine", "restore", "settle", "release"}
      BY <1>2, <2>2 DEF Pruning, QuarantineOne, CommitPruning, MovingFails, RestoreLast,
             RestoreEnds, SettleOne, ReleaseRetired, SettleEnds, Pc
    <3>2. Ends \/ \E pc, todo, moved, matched : Becomes(pc, todo, moved, matched)
      BY <1>2, <2>2, PruningSteps DEF Pruning
    <3> QED
      BY <1>e, <1>n, <3>1, <3>2
  <2> QED
    BY <2>1, <2>2
<1>3. CASE Installing
  <2>1. CASE \E a \in Stored : BeginCommitting(a)
    BY <2>1, <1>s, StartingSteps
  <2>2. CASE InstallTree \/ SwapTree
    <3>1. task.pc \in {"install", "swap"} /\ task.kind = "commit"
      BY <2>2 DEF InstallTree, SwapTree, Committing, Pc
    <3>2. \/ task' = [task EXCEPT !.pc = "publish", !.fresh = TRUE]
          \/ \E pc, todo, moved, matched : Becomes(pc, todo, moved, matched)
      BY <2>2, InstallingSteps
    <3>3. CASE task' = [task EXCEPT !.pc = "publish", !.fresh = TRUE]
      BY <3>1, <3>3, FreshTask DEF FreshIsPublished, Doing
    <3> QED
      BY <1>n, <3>1, <3>2, <3>3
  <2>3. CASE DropBackup \/ InstallFails \/ PublishRow \/ PublishRefused
    BY <2>3, <1>e, <1>n, InstallingSteps
  <2> QED
    BY <1>3, <2>1, <2>2, <2>3 DEF Installing
<1>4. CASE Retiring
  BY <1>4, <1>e, <1>n, RetiringSteps DEF Retiring, OrphansEnd
<1>5. CASE Recovering
  <2>1. CASE BeginRecovery
    BY <2>1, <1>s, StartingSteps
  <2>2. CASE RecoverTarget \/ RecoverReplace \/ RecoverDrop
    <3>1. UNCHANGED task \/ \E n : Tries(n)
      BY <2>2, RecoveringSteps DEF RecoverTarget
    <3> QED
      BY <1>0, <1>t, <3>1 DEF Tries, FreshIsPublished, Doing
  <2>3. CASE CleanupOne \/ CleanupReleased \/ RecoverySnapshot \/ RemoveAbandonedStaging
             \/ RecoverNext \/ BackupsEnd \/ CommitRecovery
    <3>1. task.pc \notin {"publish", "orphan", "record", "discard", "account"}
      BY <2>3 DEF CleanupOne, CleanupReleased, RecoverySnapshot, RemoveAbandonedStaging,
             RecoverNext, BackupsEnd, CommitRecovery, Pc
    <3>2. \E pc, todo, moved, matched : Becomes(pc, todo, moved, matched)
      BY <2>3, RecoveringSteps
    <3> QED
      BY <1>n, <3>1, <3>2
  <2> QED
    BY <1>5, <2>1, <2>2, <2>3 DEF Recovering
<1>6. CASE Mishap
  BY <1>6, <1>0, <1>e, TaskEnds DEF Mishap, TaskCrashes, TaskRaises, PreparerCrashes, DamageTree,
         DamageRow
<1> QED
  BY <1>1, <1>2, <1>3, <1>4, <1>5, <1>6 DEF StoreNext

-----------------------------------------------------------------------------
(* The trees, step by step *)

LEMMA RaisedCounts ==
    ASSUME StoreTypeOK, Raised
    PROVE  mishaps' # 0
BY DEF StoreTypeOK, Raised

\* Where the trees stay, so does what is indexed and what is known to be damaged.
LEMMA TreesStay ==
    ASSUME TreesInv, UNCHANGED <<placed, side>>, retired' \subseteq retired, rows' \subseteq rows,
           hurt \subseteq hurt'
    PROVE  /\ RowsAreKept'
           /\ \A a \in Stored : placed'[a] = "bad" => a \in hurt'
           /\ \A a : Spared(a) /\ Moved' \subseteq Moved => Spared(a)'
BY DEF TreesInv, DamageIsKnown, RowsAreKept, Whole, Backup, Spared

\* A task that is over, or starts, has no tree in its hands.
LEMMA TreesIdle ==
    ASSUME TreesInv, UNCHANGED <<rows, placed, side, retired, hurt>>,
           mishaps' = 0 => mishaps = 0 /\ Moved = {},
           task'.moved = <<>>,
           \/ task'.pc \in {"idle", "stage", "cleanup", "install"}
           \/ task'.pc = "quarantine" /\ task'.kind # "recover"
    PROVE  TreesInv'
<1>1. Moved' = {}
  BY ShortSeqs DEF Moved
<1>2. AsideIsKnown'
  BY <1>1 DEF TreesInv, AsideIsKnown, Doing
<1>3. DamageIsKnown'
  BY <1>1, TreesStay DEF DamageIsKnown, Doing
<1>4. RowsAreKept'
  BY TreesStay
<1>5. DeletedIsSpared'
  BY DEF DeletedIsSpared, Doing
<1>6. RecoveryIsOnTheWay'
  BY DEF RecoveryIsOnTheWay, Doing
<1> QED
  BY <1>2, <1>3, <1>4, <1>5, <1>6 DEF TreesInv

LEMMA TreesUntouched ==
    ASSUME TreesInv, UNCHANGED <<rows, placed, side, retired, hurt, task>>,
           mishaps' = 0 => mishaps = 0
    PROVE  TreesInv'
<1>1. Moved' = Moved
  BY DEF Moved
<1>2. AsideIsKnown'
  BY <1>1 DEF TreesInv, AsideIsKnown, Doing, First
<1>3. DamageIsKnown'
  BY <1>1 DEF TreesInv, DamageIsKnown, Doing, First
<1>4. RowsAreKept'
  BY TreesStay
<1>5. DeletedIsSpared'
  BY <1>1 DEF TreesInv, DeletedIsSpared, Doing, First, Spared, Backup, Whole
<1>6. RecoveryIsOnTheWay'
  BY <1>1 DEF TreesInv, RecoveryIsOnTheWay, Doing, Settled, Clear, Whole
<1> QED
  BY <1>2, <1>3, <1>4, <1>5, <1>6 DEF TreesInv

\* A task that ends where it has no tree in its hands.
LEMMA TreesEnd ==
    ASSUME TreesInv, UNCHANGED <<rows, placed, side, retired, hurt>>, Ends,
           mishaps' = 0 => mishaps = 0, task.moved = <<>>
    PROVE  TreesInv'
<1>1. Moved = {}
  BY ShortSeqs DEF Moved
<1> QED
  BY <1>1, TreesIdle DEF Ends

LEMMA TreesWhileStaging ==
    ASSUME StoreTypeOK, TaskShape, TreesInv, Staging
    PROVE  TreesInv'
<1>m. task.pc = "stage" => task.moved = <<>>
  BY DEF TaskShape, Doing
<1>1. ASSUME NEW a \in Stored, BeginStaging(a) PROVE TreesInv'
  <2>1. /\ UNCHANGED <<rows, placed, side, retired, hurt, mishaps>> /\ Moved = {}
    BY <1>1, FreeTask DEF BeginStaging, fromOutside
  <2>2. task'.moved = <<>> /\ task'.pc = "stage"
    BY <1>1, StartingSteps DEF Starts
  <2> QED
    BY <2>1, <2>2, TreesIdle
<1>2. ASSUME ReserveStaging \/ ReserveStagingFails PROVE TreesInv'
  <2>1. /\ UNCHANGED <<rows, placed, side, retired, hurt>> /\ Ends /\ task.moved = <<>>
        /\ mishaps' = mishaps \/ mishaps' # 0
    BY <1>m, <1>2, TaskEnds, RaisedCounts DEF ReserveStaging, ReserveStagingFails, Pc, fromOutside
  <2> QED
    BY <2>1, TreesEnd
<1>3. ASSUME NEW a \in Stored, DiscardStaging(a) \/ ExpireStaging(a) PROVE TreesInv'
  <2>1. UNCHANGED <<rows, placed, side, retired, hurt, task>> /\ (mishaps' = 0 => mishaps = 0)
    BY <1>3, RaisedCounts DEF DiscardStaging, ExpireStaging, fromOutside
  <2> QED
    BY <2>1, TreesUntouched
<1> QED
  BY <1>1, <1>2, <1>3 DEF Staging

\* A tree goes back to its place, or is deleted where the place is taken.
LEMMA PuttingBack ==
    ASSUME StoreTypeOK, TreesInv, NEW n \in SideNames, RestoreTree(n),
           side[n] = "bad" => n.of \in hurt \/ placed[n.of] # "none",
           UNCHANGED <<rows, retired, hurt>>
    PROVE  /\ \A m \in SideNames : m # n => side'[m] = side[m]
           /\ placed[n.of] = "none" => side'[n] = "none"
           /\ \A a \in Stored : placed[a] # "none" => placed'[a] # "none"
           /\ mishaps' = 0 => mishaps = 0 /\ side'[n] = "none"
           /\ \A a \in Stored : placed'[a] = "bad" => a \in hurt'
           /\ RowsAreKept'
<1>1. /\ \A m \in SideNames : m # n => side'[m] = side[m]
      /\ placed[n.of] = "none" => side'[n] = "none"
      /\ mishaps' = 0 => mishaps = 0 /\ side'[n] = "none"
  BY Restores
<1>2. \A a \in Stored : placed'[a] = IF a = n.of /\ placed[a] = "none" THEN side[n] ELSE placed[a]
  BY Restores
<1>3. \A a \in Stored : placed[a] = "bad" => a \in hurt
  BY DEF TreesInv, DamageIsKnown
<1>4. \A a \in Stored : placed'[a] = "bad" => a \in hurt'
  BY <1>2, <1>3
<1>5. ASSUME NEW a \in rows' \ hurt' PROVE Whole(a)' \/ \E m \in SideNames : Backup(m, a)'
  <2>1. a \in Stored /\ a \in rows \ hurt /\ placed[a] \in {"none", "good"}
    BY <1>3, <1>5 DEF StoreTypeOK, Trees
  <2>2. CASE Whole(a)
    BY <1>2, <2>1, <2>2 DEF Whole
  <2>3. CASE ~Whole(a)
    <3>1. PICK m \in SideNames : Backup(m, a)
      BY <2>1, <2>3 DEF TreesInv, RowsAreKept
    <3>2. CASE m = n
      BY <1>2, <2>1, <2>3, <3>1, <3>2 DEF Backup, Whole
    <3>3. CASE m # n
      BY <1>1, <3>1, <3>3 DEF Backup
    <3> QED
      BY <3>2, <3>3
  <2> QED
    BY <2>2, <2>3
<1> QED
  BY <1>1, <1>2, <1>4, <1>5 DEF RowsAreKept

LEMMA TreesWhenQuarantining ==
    ASSUME StoreTypeOK, TreesInv, QuarantineOne
    PROVE  TreesInv'
<1>t. /\ UNCHANGED <<rows, retired, hurt, mishaps>> /\ Doing({"quarantine"})
      /\ Head(task.todo) \in Stored
      /\ Members(task.todo) = {Head(task.todo)} \cup Members(Tail(task.todo))
  BY TodoFacts, PruningSteps DEF QuarantineOne, fromOutside
<1>d. /\ \A a \in Stored : placed[a] = "bad" => a \in hurt
      /\ \A n \in Moved : side[n] = "bad" => n.of \in hurt
      /\ mishaps = 0 => \A n \in SideNames : side[n] # "none" => n \in retired \/ n \in Moved
      /\ RowsAreKept
  BY <1>t DEF TreesInv, DamageIsKnown, AsideIsKnown, Doing
<1>v. task.kind = "recover" =>
          /\ retired = {} /\ Members(task.todo) \subseteq task.matched
          /\ \A n \in Moved : n.of \in task.matched
          /\ \A a \in rows \ task.matched : Settled(a)
  BY <1>t DEF TreesInv, RecoveryIsOnTheWay, Doing
<1>1. CASE /\ UNCHANGED <<placed, side>>
           /\ Becomes("quarantine", Tail(task.todo), task.moved, task.matched)
  <2>1. /\ Moved' = Moved /\ task'.pc = "quarantine" /\ task'.kind = task.kind
        /\ task'.matched = task.matched /\ task'.todo = Tail(task.todo)
        /\ task'.tried = task.tried
    BY <1>1 DEF Becomes, Moved
  <2>2. AsideIsKnown'
    BY <1>1, <1>t, <1>d, <2>1 DEF AsideIsKnown, Doing
  <2>3. DamageIsKnown'
    BY <1>1, <1>t, <1>d, <2>1 DEF DamageIsKnown, Doing
  <2>4. RowsAreKept'
    BY <1>1, <1>t, TreesStay
  <2>5. DeletedIsSpared'
    BY <2>1 DEF DeletedIsSpared, Doing
  <2>6. RecoveryIsOnTheWay'
    BY <1>1, <1>t, <1>v, <2>1 DEF RecoveryIsOnTheWay, Doing, Settled, Clear, Whole
  <2> QED
    BY <2>2, <2>3, <2>4, <2>5, <2>6 DEF TreesInv
<1>2. ASSUME NEW n \in SideNames, NewName(n, Head(task.todo), "quarantine"), MoveAside(n),
             Becomes("quarantine", Tail(task.todo), Append(task.moved, n), task.matched)
      PROVE  TreesInv'
  <2>0. n.of = Head(task.todo) /\ side[n] = "none" /\ n \notin retired
    BY <1>2 DEF NewName
  <2>1. /\ Moved' = Moved \cup {n} /\ task'.pc = "quarantine" /\ task'.kind = task.kind
        /\ task'.matched = task.matched /\ task'.todo = Tail(task.todo)
        /\ task'.tried = task.tried
    BY <1>2, TaskFacts, AppendFacts DEF Becomes, Moved
  <2>p. /\ \A m \in SideNames : side'[m] = IF m = n THEN placed[n.of] ELSE side[m]
        /\ \A a \in Stored : placed'[a] = IF a = n.of THEN "none" ELSE placed[a]
    BY <1>2, MovesAside
  <2>s. Moved \subseteq SideNames
    BY TaskFacts, SeqFacts DEF Moved
  <2>2. AsideIsKnown'
    BY <1>t, <1>d, <2>1, <2>p DEF AsideIsKnown, Doing
  <2>3. DamageIsKnown'
    BY <1>t, <1>d, <2>0, <2>1, <2>p, <2>s DEF DamageIsKnown, Doing
  <2>4. RowsAreKept'
    <3> SUFFICES ASSUME NEW a \in rows \ hurt
                 PROVE  Whole(a)' \/ \E m \in SideNames : Backup(m, a)'
      BY <1>t DEF RowsAreKept
    <3>1. a \in Stored
      BY DEF StoreTypeOK
    <3>2. CASE Whole(a)
      BY <1>t, <2>0, <2>p, <3>1, <3>2 DEF Whole, Backup
    <3>3. CASE ~Whole(a)
      <4>1. PICK m \in SideNames : Backup(m, a)
        BY <1>d, <3>3 DEF RowsAreKept
      <4> QED
        BY <1>t, <2>0, <2>p, <4>1 DEF Backup
    <3> QED
      BY <3>2, <3>3
  <2>5. DeletedIsSpared'
    BY <2>1 DEF DeletedIsSpared, Doing
  <2>6. RecoveryIsOnTheWay'
    <3> SUFFICES ASSUME task.kind = "recover"
                 PROVE  /\ \A m \in Moved' : m.of \in task.matched
                        /\ Members(Tail(task.todo)) \subseteq task.matched
                        /\ \A a \in rows \ task.matched : Settled(a)'
      BY <1>t, <1>v, <2>1 DEF RecoveryIsOnTheWay, Doing
    <3>1. n.of \in task.matched /\ \A m \in Moved' : m.of \in task.matched
      BY <1>t, <1>v, <2>0, <2>1
    <3>2. ASSUME NEW a \in rows \ task.matched PROVE Settled(a)'
      <4>1. a \in Stored /\ a # n.of /\ Settled(a)
        BY <1>v, <3>1, <3>2 DEF StoreTypeOK
      <4> QED
        BY <1>t, <2>1, <2>p, <4>1 DEF Settled, Clear, Whole
    <3> QED
      BY <1>t, <1>v, <3>1, <3>2
  <2> QED
    BY <2>2, <2>3, <2>4, <2>5, <2>6 DEF TreesInv
<1> QED
  BY <1>1, <1>2, PruningSteps

LEMMA TreesWhenPruned ==
    ASSUME StoreTypeOK, TreesInv, CommitPruning
    PROVE  TreesInv'
<1>1. /\ UNCHANGED <<placed, side, hurt, mishaps>> /\ task.kind # "recover"
      /\ Doing({"quarantine"})
  BY DEF CommitPruning, Pc, Doing
<1>2. PICK matched \in SUBSET task.matched :
          /\ rows' = rows \ matched
          /\ retired' = retired \cup {n \in Moved : n.of \in matched}
          /\ Becomes("settle", task.todo, task.moved, matched)
  BY PruningSteps
<1>3. /\ Moved' = Moved /\ task'.pc = "settle" /\ task'.kind # "recover"
      /\ task'.matched = matched
  BY <1>1, <1>2 DEF Becomes, Moved
<1>4. AsideIsKnown'
  BY <1>1, <1>2, <1>3 DEF TreesInv, AsideIsKnown, Doing
<1>5. DamageIsKnown'
  BY <1>1, <1>2, <1>3 DEF TreesInv, DamageIsKnown, Doing
<1>6. RowsAreKept'
  BY <1>1, <1>2 DEF TreesInv, RowsAreKept, Whole, Backup
<1>7. DeletedIsSpared'
  BY <1>2, <1>3 DEF DeletedIsSpared, Doing
<1>8. RecoveryIsOnTheWay'
  BY <1>3 DEF RecoveryIsOnTheWay
<1> QED
  BY <1>4, <1>5, <1>6, <1>7, <1>8 DEF TreesInv

LEMMA TreesWhenRestoring ==
    ASSUME StoreTypeOK, TaskShape, TreesInv, MovingFails \/ RestoreLast \/ RestoreEnds
    PROVE  TreesInv'
<1>t. UNCHANGED <<rows, retired, hurt>> /\ (RestoreEnds => mishaps' = mishaps)
  BY DEF MovingFails, RestoreLast, RestoreEnds, fromOutside
<1>1. CASE MovingFails
  <2>1. /\ Moved' = Moved /\ task'.pc = "restore" /\ task.pc = "quarantine"
        /\ UNCHANGED <<placed, side>> /\ mishaps' # 0
    BY <1>1, PruningSteps, RaisedCounts DEF Becomes, Moved, MovingFails, Pc
  <2>2. AsideIsKnown' /\ DeletedIsSpared' /\ RecoveryIsOnTheWay'
    BY <2>1 DEF AsideIsKnown, DeletedIsSpared, RecoveryIsOnTheWay, Doing
  <2>3. DamageIsKnown'
    BY <1>t, <2>1 DEF TreesInv, DamageIsKnown, Doing
  <2>4. RowsAreKept'
    BY <1>t, <2>1, TreesStay
  <2> QED
    BY <2>2, <2>3, <2>4 DEF TreesInv
<1>2. CASE RestoreLast
  <2> DEFINE n == task.moved[Len(task.moved)]
             left == SubSeq(task.moved, 1, Len(task.moved) - 1)
  <2>1. n \in SideNames /\ n \in Moved /\ Moved = {n} \cup Members(left)
    BY <1>2, TaskFacts, LastFacts DEF RestoreLast, Moved
  <2>2. /\ RestoreTree(n) /\ Becomes("restore", task.todo, left, task.matched)
        /\ task.pc = "restore"
    BY <1>2, PruningSteps DEF RestoreLast, Pc
  <2> HIDE DEF n, left
  <2>3. Moved' = Members(left) /\ task'.pc = "restore"
    BY <2>2 DEF Becomes, Moved
  <2>4. \A m \in Moved : side[m] = "bad" => m.of \in hurt \/ placed[m.of] # "none"
    BY <2>2 DEF TreesInv, DamageIsKnown, Doing
  <2>5. /\ \A m \in SideNames : m # n => side'[m] = side[m]
        /\ placed[n.of] = "none" => side'[n] = "none"
        /\ \A a \in Stored : placed[a] # "none" => placed'[a] # "none"
        /\ mishaps' = 0 => mishaps = 0 /\ side'[n] = "none"
        /\ \A a \in Stored : placed'[a] = "bad" => a \in hurt'
        /\ RowsAreKept'
    BY <1>t, <2>1, <2>2, <2>4, PuttingBack
  <2>6. AsideIsKnown'
    BY <1>t, <2>1, <2>2, <2>3, <2>5 DEF TreesInv, AsideIsKnown, Doing
  <2>7. DamageIsKnown'
    <3>1. Moved \subseteq SideNames
      BY TaskFacts, SeqFacts DEF Moved
    <3>2. ASSUME NEW m \in Members(left), side'[m] = "bad"
          PROVE  m.of \in hurt \/ placed'[m.of] # "none"
      <4>1. m \in Moved /\ m \in SideNames /\ m.of \in Stored
        BY <2>1, <3>1, <3>2, SideFacts
      <4> QED
        BY <2>4, <2>5, <3>2, <4>1
    <3> QED
      BY <1>t, <2>3, <2>5, <3>2 DEF DamageIsKnown, Doing
  <2>8. DeletedIsSpared' /\ RecoveryIsOnTheWay'
    BY <2>3 DEF DeletedIsSpared, RecoveryIsOnTheWay, Doing
  <2> QED
    BY <2>5, <2>6, <2>7, <2>8 DEF TreesInv
<1>3. CASE RestoreEnds
  <2>1. Ends /\ UNCHANGED <<placed, side>> /\ task.moved = <<>>
    BY <1>3, PruningSteps DEF RestoreEnds
  <2> QED
    BY <1>t, <1>3, <2>1, TreesEnd
<1> QED
  BY <1>1, <1>2, <1>3

LEMMA TreesWhenSettling ==
    ASSUME StoreTypeOK, TaskShape, TreesInv, SettleOne
    PROVE  TreesInv'
<1> DEFINE n == First
           left == Tail(task.moved)
<1>1. /\ Head(task.moved) = n /\ n \in SideNames /\ n \in Moved /\ Moved = {n} \cup Members(left)
      /\ UNCHANGED <<rows, retired, hurt>> /\ task.pc = "settle"
      /\ Moved \subseteq SideNames
  BY FirstFacts, TaskFacts, SeqFacts DEF SettleOne, Pc, fromOutside, Moved
<1> HIDE DEF n, left
<1>d. /\ \A m \in Moved : side[m] = "bad" => m.of \in hurt \/ placed[m.of] # "none"
      /\ \A a \in Stored : placed[a] = "bad" => a \in hurt
      /\ mishaps = 0 => \A m \in SideNames : side[m] # "none" => m \in retired \/ m \in Moved
      /\ task.matched \cap rows = {}
      /\ RowsAreKept
  BY <1>1 DEF TreesInv, DamageIsKnown, AsideIsKnown, DeletedIsSpared, Doing
<1>v. task.kind = "recover" =>
          /\ retired \subseteq Moved /\ \A m \in Moved : m.of \in task.matched
          /\ \A a \in rows : Settled(a)
  BY <1>1 DEF TreesInv, RecoveryIsOnTheWay, Doing
<1>2. CASE n.of \in task.matched
  <2>1. /\ RemoveSide(n) /\ UNCHANGED <<placed, mishaps>>
        /\ Becomes("release", task.todo, task.moved, task.matched)
    BY <1>1, <1>2, PruningSteps DEF SettleOne
  <2>2. /\ Moved' = Moved /\ First' = n /\ task'.pc = "release" /\ task'.kind = task.kind
        /\ task'.matched = task.matched /\ task'.tried = task.tried
    BY <2>1 DEF Becomes, Moved, First, n
  <2>3. \A m \in SideNames : side'[m] = IF m = n THEN "none" ELSE side[m]
    BY <1>1, <2>1, Removes
  <2>4. AsideIsKnown'
    BY <1>1, <1>d, <2>1, <2>2, <2>3 DEF AsideIsKnown, Doing
  <2>5. DamageIsKnown'
    BY <1>1, <1>d, <2>1, <2>2, <2>3 DEF DamageIsKnown, Doing
  <2>6. RowsAreKept'
    <3> SUFFICES ASSUME NEW a \in rows \ hurt, ~Whole(a)
                 PROVE  \E m \in SideNames : Backup(m, a)'
      BY <1>1, <2>1 DEF RowsAreKept, Whole
    <3>1. PICK m \in SideNames : Backup(m, a)
      BY <1>d DEF RowsAreKept
    <3>2. m # n
      BY <1>2, <1>d, <3>1 DEF Backup
    <3> QED
      BY <1>1, <2>3, <3>1, <3>2 DEF Backup
  <2>7. DeletedIsSpared'
    BY <1>1, <1>d, <2>2 DEF DeletedIsSpared, Doing
  <2>8. RecoveryIsOnTheWay'
    BY <1>1, <1>v, <2>1, <2>2, <2>3 DEF RecoveryIsOnTheWay, Doing, Settled, Clear, Whole
  <2> QED
    BY <2>4, <2>5, <2>6, <2>7, <2>8 DEF TreesInv
<1>3. CASE n.of \notin task.matched
  <2>1. /\ RestoreTree(n) /\ Becomes("settle", task.todo, left, task.matched)
    BY <1>1, <1>3, PruningSteps DEF SettleOne, left
  <2>2. /\ Moved' = Members(left) /\ task'.pc = "settle" /\ task'.kind = task.kind
        /\ task'.matched = task.matched /\ task.kind # "recover"
    BY <1>1, <1>3, <1>v, <2>1 DEF Becomes, Moved
  <2>3. /\ \A m \in SideNames : m # n => side'[m] = side[m]
        /\ placed[n.of] = "none" => side'[n] = "none"
        /\ \A a \in Stored : placed[a] # "none" => placed'[a] # "none"
        /\ mishaps' = 0 => mishaps = 0 /\ side'[n] = "none"
        /\ \A a \in Stored : placed'[a] = "bad" => a \in hurt'
        /\ RowsAreKept'
    BY <1>1, <1>d, <2>1, PuttingBack
  <2>4. AsideIsKnown'
    BY <1>1, <1>d, <2>2, <2>3 DEF AsideIsKnown, Doing
  <2>5. DamageIsKnown'
    <3>1. ASSUME NEW m \in Members(left), side'[m] = "bad"
          PROVE  m.of \in hurt \/ placed'[m.of] # "none"
      <4>1. m \in Moved /\ m \in SideNames /\ m.of \in Stored
        BY <1>1, <3>1, SideFacts
      <4> QED
        BY <1>d, <2>3, <3>1, <4>1
    <3> QED
      BY <1>1, <2>2, <2>3, <3>1 DEF DamageIsKnown, Doing
  <2>6. DeletedIsSpared' /\ RecoveryIsOnTheWay'
    BY <1>1, <1>d, <2>2 DEF DeletedIsSpared, RecoveryIsOnTheWay, Doing
  <2> QED
    BY <2>3, <2>4, <2>5, <2>6 DEF TreesInv
<1> QED
  BY <1>2, <1>3

LEMMA TreesWhenReleased ==
    ASSUME StoreTypeOK, TaskShape, TreesInv, ReleaseRetired
    PROVE  TreesInv'
<1>1. /\ task.moved # <<>> /\ task.pc = "release"
      /\ UNCHANGED <<rows, placed, side, hurt, mishaps>>
  BY DEF ReleaseRetired, TaskShape, Pc, Doing, fromOutside
<1>2. /\ retired' = retired \ {First} /\ Becomes("settle", task.todo, Tail(task.moved), task.matched)
      /\ Moved = {First} \cup Members(Tail(task.moved))
  BY <1>1, FirstFacts, PruningSteps DEF ReleaseRetired
<1>3. /\ Moved' = Members(Tail(task.moved)) /\ task'.pc = "settle" /\ task'.kind = task.kind
      /\ task'.matched = task.matched /\ task'.tried = task.tried
  BY <1>2 DEF Becomes, Moved
<1>d. /\ side[First] = "none"
      /\ mishaps = 0 => \A m \in SideNames : side[m] # "none" => m \in retired \/ m \in Moved
  BY <1>1 DEF TreesInv, AsideIsKnown, Doing
<1>4. AsideIsKnown'
  BY <1>1, <1>2, <1>3, <1>d DEF AsideIsKnown, Doing
<1>5. DamageIsKnown'
  BY <1>1, <1>2, <1>3 DEF TreesInv, DamageIsKnown, Doing
<1>6. RowsAreKept'
  BY <1>1, <1>2, TreesStay
<1>7. DeletedIsSpared'
  BY <1>1, <1>3 DEF TreesInv, DeletedIsSpared, Doing
<1>8. RecoveryIsOnTheWay'
  <2>1. task.kind = "recover" =>
            /\ retired \subseteq Moved /\ \A m \in Moved : m.of \in task.matched
            /\ \A a \in rows : Settled(a)
    BY <1>1 DEF TreesInv, RecoveryIsOnTheWay, Doing
  <2> QED
    BY <1>1, <1>2, <1>3, <2>1 DEF RecoveryIsOnTheWay, Doing, Settled, Clear, Whole
<1> QED
  BY <1>4, <1>5, <1>6, <1>7, <1>8 DEF TreesInv

LEMMA TreesWhilePruning ==
    ASSUME StoreTypeOK, TaskShape, TreesInv, Pruning
    PROVE  TreesInv'
<1>1. CASE BeginPruning
  <2>1. UNCHANGED <<rows, placed, side, retired, hurt, mishaps>> /\ Moved = {}
    BY <1>1, FreeTask DEF BeginPruning, fromOutside
  <2>2. task'.moved = <<>> /\ task'.pc = "quarantine" /\ task'.kind = "prune"
    BY <1>1, StartingSteps DEF Starts
  <2> QED
    BY <2>1, <2>2, TreesIdle
<1>2. CASE SettleEnds
  <2>1. /\ UNCHANGED <<rows, placed, side, retired, hurt, mishaps>> /\ task.moved = <<>>
        /\ task'.moved = <<>> /\ task'.pc \in {"idle", "install"}
    BY <1>2, PruningSteps DEF SettleEnds, Ends, Becomes, fromOutside
  <2>2. Moved = {}
    BY <2>1, ShortSeqs DEF Moved
  <2> QED
    BY <2>1, <2>2, TreesIdle
<1> QED
  BY <1>1, <1>2, TreesWhenQuarantining, TreesWhenPruned, TreesWhenRestoring, TreesWhenSettling,
     TreesWhenReleased DEF Pruning

LEMMA TreesWhenInstalling ==
    ASSUME StoreTypeOK, TaskShape, FreshIsPublished, TreesInv, InstallTree
    PROVE  TreesInv'
<1>a. PICK art \in Stored : art = Artifact /\ task.art = {art}
  BY ArtifactFacts DEF InstallTree, Committing
<1>t. /\ UNCHANGED <<rows, retired, hurt, mishaps>> /\ task.kind = "commit" /\ task.pc = "install"
      /\ task.moved = <<>> /\ Moved = {} /\ ~task.fresh
  BY ShortSeqs DEF InstallTree, Committing, Pc, TaskShape, FreshIsPublished, Doing,
     Moved, fromOutside
<1>d. /\ \A a \in Stored : placed[a] = "bad" => a \in hurt
      /\ mishaps = 0 => \A n \in SideNames : side[n] # "none" => n \in retired \/ n \in Moved
      /\ RowsAreKept
  BY DEF TreesInv, DamageIsKnown, AsideIsKnown
\* Whatever it does next is no recovery.
<1>k. task'.kind = "commit" => RecoveryIsOnTheWay'
  BY DEF RecoveryIsOnTheWay
<1>1. CASE /\ placed[art] = "none"
           /\ placed' = [placed EXCEPT ![art] = "good"] /\ side' = side
           /\ task' = [task EXCEPT !.pc = "publish", !.fresh = TRUE]
  <2>1. /\ task'.kind = "commit" /\ task'.art = {art} /\ task'.pc = "publish" /\ Moved' = {}
    BY <1>a, <1>1, <1>t, FreshTask DEF Moved
  <2>2. \A a \in Stored : placed'[a] = IF a = art THEN "good" ELSE placed[a]
    BY <1>1, <1>t, Installs DEF Trees
  <2>3. AsideIsKnown'
    BY <1>1, <1>t, <1>d, <2>1 DEF AsideIsKnown, Doing
  <2>4. DamageIsKnown'
    BY <1>1, <1>t, <1>d, <2>1, <2>2 DEF DamageIsKnown, Doing
  <2>5. RowsAreKept'
    BY <1>1, <1>t, <1>d, <2>2 DEF RowsAreKept, Whole, Backup, StoreTypeOK
  <2>6. Whole(art)' /\ Spared(art)'
    BY <1>1, <1>t, <1>d, <2>1, <2>2 DEF RowsAreKept, Whole, Backup, Spared
  <2>7. DeletedIsSpared'
    BY <2>1, <2>6 DEF DeletedIsSpared, Doing
  <2> QED
    BY <1>k, <2>1, <2>3, <2>4, <2>5, <2>7 DEF TreesInv
<1>2. CASE /\ placed[art] = "good" /\ UNCHANGED <<placed, side>>
           /\ Becomes("publish", task.todo, task.moved, task.matched)
  <2>1. /\ task'.kind = "commit" /\ task'.art = {art} /\ task'.pc = "publish" /\ Moved' = {}
        /\ ~task'.fresh
    BY <1>a, <1>2, <1>t DEF Becomes, Moved
  <2>2. AsideIsKnown'
    BY <1>2, <1>t, <1>d, <2>1 DEF AsideIsKnown, Doing
  <2>3. DamageIsKnown'
    BY <1>2, <1>t, <1>d, <2>1 DEF DamageIsKnown, Doing
  <2>4. RowsAreKept'
    BY <1>2, <1>t, TreesStay
  <2>5. DeletedIsSpared'
    BY <1>2, <2>1 DEF DeletedIsSpared, Doing, Whole
  <2> QED
    BY <1>k, <2>1, <2>2, <2>3, <2>4, <2>5 DEF TreesInv
<1>3. ASSUME NEW n \in SideNames, placed[art] = "bad", NewName(n, art, "incomplete"), MoveAside(n),
             Becomes("swap", task.todo, <<n>>, task.matched)
      PROVE  TreesInv'
  <2>1. /\ task'.kind = "commit" /\ task'.pc = "swap" /\ Moved' = {n} /\ First' = n
    BY <1>3, <1>t, ShortSeqs DEF Becomes, Moved, First
  <2>2. n.of = art /\ side[n] = "none" /\ art \in hurt
    BY <1>3, <1>t, <1>d DEF NewName
  <2>3. /\ \A m \in SideNames : side'[m] = IF m = n THEN placed[n.of] ELSE side[m]
        /\ \A a \in Stored : placed'[a] = IF a = n.of THEN "none" ELSE placed[a]
    BY <1>3, MovesAside
  <2>4. AsideIsKnown'
    BY <1>t, <1>d, <2>1, <2>3 DEF AsideIsKnown, Doing
  <2>5. DamageIsKnown'
    BY <1>t, <1>d, <2>1, <2>2, <2>3 DEF DamageIsKnown, Doing
  <2>6. RowsAreKept'
    BY <1>t, <1>d, <2>2, <2>3 DEF RowsAreKept, Whole, Backup, StoreTypeOK
  <2>7. DeletedIsSpared'
    BY <2>1 DEF DeletedIsSpared, Doing
  <2> QED
    BY <1>k, <2>1, <2>4, <2>5, <2>6, <2>7 DEF TreesInv
<1> QED
  BY <1>a, <1>1, <1>2, <1>3, InstallingSteps

LEMMA TreesWhenSwapping ==
    ASSUME StoreTypeOK, TaskShape, TreesInv, SwapTree
    PROVE  TreesInv'
<1>t. /\ UNCHANGED <<rows, side, retired, hurt, mishaps>> /\ task.kind = "commit"
      /\ task.pc = "swap" /\ Artifact \in Stored
  BY ArtifactFacts DEF SwapTree, Committing, Pc, fromOutside
<1>1. /\ task'.kind = "commit" /\ task'.pc = "backup" /\ Moved' = Moved /\ First' = First
  BY <1>t, InstallingSteps DEF Becomes, Moved, First
<1>2. \A a \in Stored : placed'[a] = IF a = Artifact THEN "good" ELSE placed[a]
  BY <1>t, Installs DEF SwapTree, Trees
<1>3. AsideIsKnown'
  BY <1>t, <1>1 DEF TreesInv, AsideIsKnown, Doing
<1>4. DamageIsKnown'
  BY <1>t, <1>1, <1>2 DEF TreesInv, DamageIsKnown, Doing
<1>5. RowsAreKept'
  BY <1>t, <1>2 DEF TreesInv, RowsAreKept, Whole, Backup, StoreTypeOK
<1>6. DeletedIsSpared' /\ RecoveryIsOnTheWay'
  BY <1>1 DEF DeletedIsSpared, RecoveryIsOnTheWay, Doing
<1> QED
  BY <1>3, <1>4, <1>5, <1>6 DEF TreesInv

\* The tree in a backup is of a damaged artifact.
LEMMA BackupFacts ==
    ASSUME StoreTypeOK, TaskShape, TreesInv, task.pc \in {"swap", "backup"}
    PROVE  /\ Head(task.moved) = First /\ First \in SideNames /\ Moved = {First}
           /\ task.kind = "commit" /\ task.art = {Artifact} /\ Artifact \in Stored
           /\ First.of = Artifact /\ Artifact \in hurt
<1>1. Len(task.moved) = 1 /\ task.kind = "commit" /\ First.of \in task.art /\ First.of \in hurt
  BY DEF TaskShape, TreesInv, DamageIsKnown, Doing
<1> QED
  BY <1>1, OnlyOne, FirstFacts, ArtifactFacts

LEMMA TreesWhenDropping ==
    ASSUME StoreTypeOK, TaskShape, TreesInv, DropBackup
    PROVE  TreesInv'
<1>t. /\ UNCHANGED <<rows, placed, retired, hurt, mishaps>> /\ task.pc = "backup"
  BY DEF DropBackup, Committing, Pc, fromOutside
<1>f. /\ Head(task.moved) = First /\ First \in SideNames /\ Moved = {First}
      /\ task.kind = "commit" /\ task.art = {Artifact}
      /\ First.of = Artifact /\ Artifact \in hurt
  BY <1>t, BackupFacts
<1>1. \A m \in SideNames : side'[m] = IF m = First THEN "none" ELSE side[m]
  BY <1>f, Removes DEF DropBackup
<1>2. task'.kind = "commit" /\ task'.pc = "publish" /\ Moved' = {} /\ task'.art = {Artifact}
  BY <1>f, InstallingSteps, ShortSeqs DEF Becomes, Moved
<1>3. AsideIsKnown'
  BY <1>t, <1>f, <1>1, <1>2 DEF TreesInv, AsideIsKnown, Doing
<1>4. DamageIsKnown'
  BY <1>t, <1>2 DEF TreesInv, DamageIsKnown, Doing
<1>5. RowsAreKept'
  BY <1>t, <1>f, <1>1 DEF TreesInv, RowsAreKept, Whole, Backup
<1>6. DeletedIsSpared'
  BY <1>t, <1>f, <1>2 DEF DeletedIsSpared, Doing
<1>7. RecoveryIsOnTheWay'
  BY <1>2 DEF RecoveryIsOnTheWay
<1> QED
  BY <1>3, <1>4, <1>5, <1>6, <1>7 DEF TreesInv

LEMMA TreesWhenInstallFails ==
    ASSUME StoreTypeOK, TaskShape, TreesInv, InstallFails
    PROVE  TreesInv'
<1>t. /\ UNCHANGED <<rows, retired, hurt>> /\ mishaps' # 0 /\ task.pc \in {"swap", "backup"}
  BY RaisedCounts DEF InstallFails, fromOutside
<1>f. /\ Head(task.moved) = First /\ First \in SideNames
      /\ First.of = Artifact /\ Artifact \in hurt /\ Artifact \in Stored
  BY <1>t, BackupFacts
<1>1. PICK left : /\ side' = [side EXCEPT ![First] = "none"]
                  /\ placed' = [placed EXCEPT ![Artifact] = left]
  BY <1>f DEF InstallFails
<1>2. /\ \A m \in SideNames : m # First => side'[m] = side[m]
      /\ \A a \in Stored : a # Artifact => placed'[a] = placed[a]
  BY <1>1 DEF StoreTypeOK
<1>3. task'.kind = "none" /\ task'.pc = "idle"
  BY InstallingSteps DEF Ends
<1>4. AsideIsKnown' /\ DeletedIsSpared' /\ RecoveryIsOnTheWay'
  BY <1>t, <1>3 DEF AsideIsKnown, DeletedIsSpared, RecoveryIsOnTheWay, Doing
<1>5. DamageIsKnown'
  BY <1>t, <1>f, <1>2, <1>3 DEF TreesInv, DamageIsKnown, Doing
<1>6. RowsAreKept'
  <2> SUFFICES ASSUME NEW a \in rows \ hurt
               PROVE  Whole(a)' \/ \E m \in SideNames : Backup(m, a)'
    BY <1>t DEF RowsAreKept
  <2>1. a \in Stored /\ a # Artifact
    BY <1>f DEF StoreTypeOK
  <2>2. Whole(a) \/ \E m \in SideNames : Backup(m, a)
    BY DEF TreesInv, RowsAreKept
  <2> QED
    BY <1>t, <1>f, <1>2, <2>1, <2>2 DEF Whole, Backup
<1> QED
  BY <1>4, <1>5, <1>6 DEF TreesInv

LEMMA TreesWhenPublished ==
    ASSUME StoreTypeOK, TaskShape, TreesInv, PublishRow
    PROVE  TreesInv'
<1>t. /\ UNCHANGED <<placed, side, retired, mishaps>> /\ rows' = rows \cup {Artifact}
      /\ hurt' = IF Whole(Artifact) THEN hurt \ {Artifact} ELSE hurt
      /\ task.kind = "commit" /\ task.pc = "publish" /\ task.moved = <<>>
  BY DEF PublishRow, Committing, Pc, TaskShape, Doing
<1>a. task.art = {Artifact} /\ Moved = {}
  BY <1>t, ArtifactFacts, ShortSeqs DEF Moved
<1>1. task'.kind = "none" /\ task'.pc = "idle"
  BY InstallingSteps DEF Ends
<1>2. AsideIsKnown'
  BY <1>t, <1>a, <1>1 DEF TreesInv, AsideIsKnown, Doing
<1>3. DamageIsKnown'
  BY <1>t, <1>1 DEF TreesInv, DamageIsKnown, Doing, Whole
<1>4. RowsAreKept'
  <2>1. Artifact \notin hurt => Whole(Artifact)
    BY <1>t, <1>a DEF TreesInv, DeletedIsSpared, Doing
  <2>2. \A a \in rows' \ hurt' : Whole(a) \/ \E m \in SideNames : Backup(m, a)
    BY <1>t, <2>1 DEF TreesInv, RowsAreKept
  <2> QED
    BY <1>t, <2>2 DEF RowsAreKept, Whole, Backup
<1>5. DeletedIsSpared' /\ RecoveryIsOnTheWay'
  BY <1>1 DEF DeletedIsSpared, RecoveryIsOnTheWay, Doing
<1> QED
  BY <1>2, <1>3, <1>4, <1>5 DEF TreesInv

LEMMA TreesWhenRefused ==
    ASSUME StoreTypeOK, TaskShape, TreesInv, PublishRefused
    PROVE  TreesInv'
<1>t. /\ UNCHANGED <<rows, placed, side, retired, hurt>> /\ mishaps' # 0
      /\ task.kind = "commit" /\ task.pc = "publish" /\ task.moved = <<>>
  BY RaisedCounts DEF PublishRefused, Committing, Pc, TaskShape, Doing, fromOutside
<1>1. CASE Ends
  BY <1>1, <1>t, TreesEnd
<1>2. CASE task.fresh /\ Becomes("orphan", <<Artifact>>, task.moved, task.matched)
  <2>a. PICK art : art = Artifact /\ task.art = {art}
    BY <1>t, ArtifactFacts
  <2>1. Moved = {} /\ Members(<<art>>) = {art}
    BY <1>t, ShortSeqs DEF Moved
  <2>2. /\ task'.kind = "commit" /\ task'.pc = "orphan" /\ Moved' = {}
        /\ Members(task'.todo) = {art}
    BY <1>2, <1>t, <2>a, <2>1 DEF Becomes, Moved
  <2>3. AsideIsKnown' /\ RecoveryIsOnTheWay'
    BY <1>t, <2>2 DEF AsideIsKnown, RecoveryIsOnTheWay, Doing
  <2>4. DamageIsKnown'
    BY <1>t, <2>2, TreesStay DEF DamageIsKnown, Doing
  <2>5. RowsAreKept'
    BY <1>t, TreesStay
  <2>6. Spared(art)
    BY <1>t, <1>2, <2>a DEF TreesInv, DeletedIsSpared, Doing, Spared
  <2>7. Spared(art)'
    BY <1>t, <2>1, <2>2, <2>6, TreesStay
  <2>8. DeletedIsSpared'
    BY <2>2, <2>7 DEF DeletedIsSpared, Doing
  <2> QED
    BY <2>3, <2>4, <2>5, <2>8 DEF TreesInv
<1> QED
  BY <1>1, <1>2, InstallingSteps

LEMMA TreesWhileInstalling ==
    ASSUME StoreTypeOK, TaskShape, FreshIsPublished, TreesInv, Installing
    PROVE  TreesInv'
<1>1. CASE \E a \in Stored : BeginCommitting(a)
  <2>1. UNCHANGED <<rows, placed, side, retired, hurt, mishaps>> /\ Moved = {}
    BY <1>1, FreeTask DEF BeginCommitting, fromOutside
  <2>2. task'.moved = <<>> /\ task'.pc = "quarantine" /\ task'.kind = "commit"
    BY <1>1, StartingSteps DEF Starts
  <2> QED
    BY <2>1, <2>2, TreesIdle
<1> QED
  BY <1>1, TreesWhenInstalling, TreesWhenSwapping, TreesWhenDropping, TreesWhenInstallFails,
     TreesWhenPublished, TreesWhenRefused DEF Installing

\* The tree of an orphan that a task has set aside.
LEMMA OrphanFacts ==
    ASSUME StoreTypeOK, TaskShape, TreesInv, task.pc \in {"record", "discard", "account"}
    PROVE  /\ Head(task.moved) = First /\ First \in SideNames /\ Moved = {First}
           /\ First.of \in Stored /\ Spared(First.of)
           /\ \A a \in Members(task.todo) : Spared(a)
           /\ task.kind = "recover" =>
                  /\ \A a \in rows : Clear(a) /\ a \notin Members(task.todo)
                  /\ First.of \notin rows
<1>1. Len(task.moved) = 1
  BY DEF TaskShape, Doing
<1>2. Head(task.moved) = First /\ First \in SideNames /\ Moved = {First}
  BY <1>1, OnlyOne, FirstFacts
<1>3. Spared(First.of) /\ \A a \in Members(task.todo) : Spared(a)
  BY <1>2 DEF TreesInv, DeletedIsSpared, Doing
<1>4. task.kind = "recover" =>
          /\ \A a \in rows : Clear(a) /\ a \notin Members(task.todo)
          /\ First.of \notin rows
  BY <1>2 DEF TreesInv, RecoveryIsOnTheWay, Doing
<1>5. First.of \in Stored
  BY <1>2, SideFacts
<1> QED
  BY <1>2, <1>3, <1>4, <1>5

LEMMA TreesWhenOrphanMoved ==
    ASSUME StoreTypeOK, TaskShape, TreesInv, OrphanMoved
    PROVE  TreesInv'
<1>t. /\ UNCHANGED <<rows, retired, hurt, mishaps>> /\ task.pc = "orphan" /\ Moved = {}
      /\ Head(task.todo) \in Stored
      /\ Members(task.todo) = {Head(task.todo)} \cup Members(Tail(task.todo))
  BY TodoFacts, ShortSeqs DEF OrphanMoved, Pc, TaskShape, Doing, Moved, fromOutside
<1>1. PICK n \in SideNames :
          /\ NewName(n, Head(task.todo), "quarantine") /\ MoveAside(n)
          /\ Becomes("record", Tail(task.todo), <<n>>, task.matched)
  BY RetiringSteps
<1>2. n.of = Head(task.todo) /\ side[n] = "none" /\ n \notin retired
  BY <1>1 DEF NewName
<1>3. /\ task'.pc = "record" /\ task'.kind = task.kind /\ Moved' = {n}
      /\ task'.todo = Tail(task.todo) /\ task'.tried = task.tried
  BY <1>1, ShortSeqs DEF Becomes, Moved
<1>p. /\ \A m \in SideNames : side'[m] = IF m = n THEN placed[n.of] ELSE side[m]
      /\ \A a \in Stored : placed'[a] = IF a = n.of THEN "none" ELSE placed[a]
  BY <1>1, MovesAside
<1>d. /\ \A a \in Stored : placed[a] = "bad" => a \in hurt
      /\ mishaps = 0 => \A m \in SideNames : side[m] # "none" => m \in retired \/ m \in Moved
      /\ RowsAreKept
      /\ \A a \in Members(task.todo) : Spared(a)
  BY <1>t DEF TreesInv, DamageIsKnown, AsideIsKnown, DeletedIsSpared, Doing
<1>4. AsideIsKnown'
  BY <1>t, <1>3, <1>p, <1>d DEF AsideIsKnown, Doing
<1>5. DamageIsKnown'
  BY <1>t, <1>2, <1>3, <1>p, <1>d DEF DamageIsKnown, Doing
<1>6. RowsAreKept'
  <2> SUFFICES ASSUME NEW a \in rows \ hurt
               PROVE  Whole(a)' \/ \E m \in SideNames : Backup(m, a)'
    BY <1>t DEF RowsAreKept
  <2>1. a \in Stored
    BY DEF StoreTypeOK
  <2>2. CASE Whole(a)
    BY <1>t, <1>2, <1>p, <2>1, <2>2 DEF Whole, Backup
  <2>3. CASE ~Whole(a)
    <3>1. PICK m \in SideNames : Backup(m, a)
      BY <1>d, <2>3 DEF RowsAreKept
    <3> QED
      BY <1>t, <1>2, <1>p, <3>1 DEF Backup
  <2> QED
    BY <2>2, <2>3
<1>7. ASSUME NEW a, Spared(a) PROVE Spared(a)'
  <2> SUFFICES ASSUME a \in rows \ hurt
               PROVE  \E m \in SideNames : Backup(m, a)' /\ m \notin Moved'
    BY <1>t DEF Spared
  <2>1. PICK m \in SideNames : Backup(m, a)
    BY <1>7 DEF Spared
  <2> QED
    BY <1>t, <1>2, <1>3, <1>p, <2>1 DEF Backup
<1>8. DeletedIsSpared'
  BY <1>t, <1>2, <1>3, <1>7, <1>d DEF DeletedIsSpared, Doing
<1>9. RecoveryIsOnTheWay'
  <2> SUFFICES ASSUME task.kind = "recover"
               PROVE  /\ retired = {}
                      /\ \A a \in rows : Clear(a)' /\ a \notin Members(Tail(task.todo))
                      /\ n.of \notin rows
    BY <1>t, <1>3 DEF RecoveryIsOnTheWay, Doing
  <2>1. retired = {} /\ \A a \in rows : Clear(a) /\ a \notin Members(task.todo)
    BY <1>t DEF TreesInv, RecoveryIsOnTheWay, Doing
  <2>2. n.of \notin rows
    BY <1>t, <1>2, <2>1
  <2> QED
    BY <1>t, <1>3, <1>p, <2>1, <2>2 DEF Clear
<1> QED
  BY <1>4, <1>5, <1>6, <1>8, <1>9 DEF TreesInv

LEMMA TreesWhenRecorded ==
    ASSUME StoreTypeOK, TaskShape, TreesInv, OrphanRecorded
    PROVE  TreesInv'
<1>t. UNCHANGED <<rows, placed, side, hurt, mishaps>> /\ task.pc = "record"
  BY DEF OrphanRecorded, Pc, fromOutside
<1>f. /\ Head(task.moved) = First /\ First \in SideNames /\ Moved = {First}
      /\ Spared(First.of) /\ \A a \in Members(task.todo) : Spared(a)
      /\ task.kind = "recover" =>
             /\ \A a \in rows : Clear(a) /\ a \notin Members(task.todo)
             /\ First.of \notin rows
  BY <1>t, OrphanFacts
<1>1. /\ retired' = retired \cup {First} /\ task'.pc = "discard" /\ task'.kind = task.kind
      /\ Moved' = {First} /\ First' = First /\ task'.todo = task.todo
      /\ task'.tried = task.tried
  BY <1>f, RetiringSteps DEF OrphanRecorded, Becomes, Moved, First
<1>4. AsideIsKnown'
  BY <1>t, <1>f, <1>1 DEF TreesInv, AsideIsKnown, Doing
<1>5. DamageIsKnown'
  BY <1>t, <1>1 DEF TreesInv, DamageIsKnown, Doing
<1>6. ASSUME NEW a, Spared(a) PROVE Spared(a)'
  BY <1>t, <1>f, <1>1, <1>6 DEF Spared, Backup
<1>7. RowsAreKept'
  <2> SUFFICES ASSUME NEW a \in rows \ hurt, ~Whole(a)
               PROVE  \E m \in SideNames : Backup(m, a)'
    BY <1>t DEF RowsAreKept, Whole
  <2>1. PICK m \in SideNames : Backup(m, a)
    BY DEF TreesInv, RowsAreKept
  <2>2. CASE m = First
    <3>1. a = First.of
      BY <2>1, <2>2 DEF Backup
    <3> QED
      BY <1>t, <1>f, <1>6, <3>1 DEF Spared
  <2>3. CASE m # First
    BY <1>t, <1>1, <2>1, <2>3 DEF Backup
  <2> QED
    BY <2>2, <2>3
<1>8. DeletedIsSpared'
  BY <1>f, <1>1, <1>6 DEF DeletedIsSpared, Doing
<1>9. RecoveryIsOnTheWay'
  <2>1. task.kind = "recover" => retired = {}
    BY <1>t DEF TreesInv, RecoveryIsOnTheWay, Doing
  <2> QED
    BY <1>t, <1>f, <1>1, <2>1 DEF RecoveryIsOnTheWay, Doing, Clear
<1> QED
  BY <1>4, <1>5, <1>7, <1>8, <1>9 DEF TreesInv

LEMMA TreesWhenRecordFails ==
    ASSUME StoreTypeOK, TaskShape, TreesInv, RecordFails
    PROVE  TreesInv'
<1>t. UNCHANGED <<rows, retired, hurt>> /\ mishaps' # 0 /\ task.pc = "record"
  BY RaisedCounts DEF RecordFails, Pc, fromOutside
<1>f. /\ Head(task.moved) = First /\ First \in SideNames /\ Moved = {First}
      /\ First.of \in Stored /\ Spared(First.of)
  BY <1>t, OrphanFacts
<1>1. task'.kind = "none" /\ task'.pc = "idle"
  BY RetiringSteps DEF Ends
<1>p. /\ \A m \in SideNames : side'[m] = IF m = First THEN "none" ELSE side[m]
      /\ \A a \in Stored : placed'[a] = IF a = First.of THEN side[First] ELSE placed[a]
  BY <1>f, MovesBack DEF RecordFails
<1>2. AsideIsKnown' /\ DeletedIsSpared' /\ RecoveryIsOnTheWay'
  BY <1>t, <1>1 DEF AsideIsKnown, DeletedIsSpared, RecoveryIsOnTheWay, Doing
<1>3. DamageIsKnown'
  <2>1. side[First] = "bad" => First.of \in hurt
    BY <1>t, <1>f DEF TreesInv, DamageIsKnown, Doing
  <2> QED
    BY <1>t, <1>1, <1>p, <2>1 DEF TreesInv, DamageIsKnown, Doing
<1>4. RowsAreKept'
  <2> SUFFICES ASSUME NEW a \in rows \ hurt
               PROVE  Whole(a)' \/ \E m \in SideNames : Backup(m, a)'
    BY <1>t DEF RowsAreKept
  <2>1. CASE \E m \in SideNames : Backup(m, a) /\ m # First
    BY <1>t, <1>p, <2>1 DEF Backup
  <2>2. CASE a # First.of
    <3>1. Whole(a) \/ \E m \in SideNames : Backup(m, a)
      BY DEF TreesInv, RowsAreKept
    <3> QED
      BY <1>t, <1>p, <2>1, <2>2, <3>1 DEF Whole, Backup, StoreTypeOK
  <2>3. CASE a = First.of
    BY <1>f, <2>1, <2>3 DEF Spared, Backup
  <2> QED
    BY <2>2, <2>3
<1> QED
  BY <1>2, <1>3, <1>4 DEF TreesInv

LEMMA TreesWhenDiscarded ==
    ASSUME StoreTypeOK, TaskShape, TreesInv, OrphanDiscarded
    PROVE  TreesInv'
<1>t. UNCHANGED <<rows, placed, retired, hurt, mishaps>> /\ task.pc = "discard"
  BY DEF OrphanDiscarded, Pc, fromOutside
<1>f. /\ Head(task.moved) = First /\ First \in SideNames /\ Moved = {First}
      /\ Spared(First.of) /\ \A a \in Members(task.todo) : Spared(a)
      /\ task.kind = "recover" =>
             /\ \A a \in rows : Clear(a) /\ a \notin Members(task.todo)
             /\ First.of \notin rows
  BY <1>t, OrphanFacts
<1>1. /\ task'.pc = "account" /\ task'.kind = task.kind
      /\ Moved' = {First} /\ First' = First /\ task'.todo = task.todo
      /\ task'.tried = task.tried
  BY <1>f, RetiringSteps DEF Becomes, Moved, First
<1>p. \A m \in SideNames : side'[m] = IF m = First THEN "none" ELSE side[m]
  BY <1>f, Removes DEF OrphanDiscarded
<1>2. First \in retired /\ (task.kind = "recover" => retired \subseteq {First})
  BY <1>t, <1>f DEF TreesInv, DeletedIsSpared, RecoveryIsOnTheWay, Doing
<1>4. AsideIsKnown'
  BY <1>t, <1>f, <1>1, <1>p DEF TreesInv, AsideIsKnown, Doing
<1>5. DamageIsKnown'
  BY <1>t, <1>1 DEF TreesInv, DamageIsKnown, Doing
<1>6. ASSUME NEW a, Spared(a) PROVE Spared(a)'
  BY <1>t, <1>f, <1>1, <1>p, <1>6 DEF Spared, Backup
<1>7. RowsAreKept'
  BY <1>t, <1>2, <1>p DEF TreesInv, RowsAreKept, Whole, Backup
<1>8. DeletedIsSpared'
  BY <1>f, <1>1, <1>6 DEF DeletedIsSpared, Doing
<1>9. RecoveryIsOnTheWay'
  BY <1>t, <1>f, <1>1, <1>2, <1>p DEF RecoveryIsOnTheWay, Doing, Clear
<1> QED
  BY <1>4, <1>5, <1>7, <1>8, <1>9 DEF TreesInv

LEMMA TreesWhenOrphanReleased ==
    ASSUME StoreTypeOK, TaskShape, TreesInv, OrphanReleased
    PROVE  TreesInv'
<1>t. UNCHANGED <<rows, placed, side, hurt, mishaps>> /\ task.pc = "account"
  BY DEF OrphanReleased, Pc, fromOutside
<1>f. /\ Head(task.moved) = First /\ First \in SideNames /\ Moved = {First}
      /\ \A a \in Members(task.todo) : Spared(a)
      /\ task.kind = "recover" =>
             \A a \in rows : Clear(a) /\ a \notin Members(task.todo)
  BY <1>t, OrphanFacts
<1>1. /\ retired' = retired \ {First} /\ task'.pc = "orphan" /\ task'.kind = task.kind
      /\ Moved' = {} /\ task'.todo = task.todo /\ task'.tried = task.tried
  BY <1>f, RetiringSteps, ShortSeqs DEF OrphanReleased, Becomes, Moved
<1>2. /\ side[First] = "none" /\ (task.kind = "recover" => retired \subseteq {First})
      /\ mishaps = 0 => \A m \in SideNames : side[m] # "none" => m \in retired \/ m \in Moved
  BY <1>t, <1>f DEF TreesInv, AsideIsKnown, RecoveryIsOnTheWay, Doing
<1>4. AsideIsKnown'
  BY <1>t, <1>f, <1>1, <1>2 DEF AsideIsKnown, Doing
<1>5. DamageIsKnown'
  BY <1>t, <1>1 DEF TreesInv, DamageIsKnown, Doing
<1>6. RowsAreKept'
  BY <1>t, <1>1, TreesStay
<1>7. ASSUME NEW a, Spared(a) PROVE Spared(a)'
  BY <1>t, <1>1, <1>7, TreesStay
<1>8. DeletedIsSpared'
  BY <1>f, <1>1, <1>7 DEF DeletedIsSpared, Doing
<1>9. RecoveryIsOnTheWay'
  BY <1>t, <1>f, <1>1, <1>2 DEF RecoveryIsOnTheWay, Doing, Clear
<1> QED
  BY <1>4, <1>5, <1>6, <1>8, <1>9 DEF TreesInv

LEMMA TreesWhenOrphansEnd ==
    ASSUME StoreTypeOK, TreesAreFinite, TaskShape, TreesInv, OrphansEnd
    PROVE  TreesInv'
<1>t. /\ UNCHANGED <<rows, placed, side, retired, hurt, mishaps>> /\ task.pc = "orphan"
      /\ task.moved = <<>>
  BY DEF OrphansEnd, Pc, TaskShape, Doing, fromOutside
<1>1. CASE Ends
  BY <1>1, <1>t, TreesEnd
<1>2. CASE task.kind = "recover"
  <2> DEFINE damaged == {a \in rows : ~Whole(a)}
  <2>1. PICK gone : gone = damaged
    OBVIOUS
  <2>2. Members(InOrder(gone)) = gone
    BY <2>1, TodoLists
  <2>3. /\ task'.kind = "recover" /\ task'.pc = "quarantine" /\ Moved' = {} /\ Moved = {}
        /\ task'.matched = gone /\ Members(task'.todo) = gone
        /\ task'.tried = task.tried
    BY <1>2, <1>t, <2>1, <2>2, RetiringSteps, ShortSeqs DEF Becomes, Moved
  <2>4. AsideIsKnown'
    BY <1>t, <2>3 DEF TreesInv, AsideIsKnown, Doing
  <2>5. DamageIsKnown'
    BY <1>t, <2>3 DEF TreesInv, DamageIsKnown, Doing
  <2>6. RowsAreKept'
    BY <1>t, TreesStay
  <2>7. DeletedIsSpared'
    BY <2>3 DEF DeletedIsSpared, Doing
  <2>8. RecoveryIsOnTheWay'
    <3>1. retired = {} /\ \A a \in rows : Clear(a)
      BY <1>t, <1>2 DEF TreesInv, RecoveryIsOnTheWay, Doing
    <3>2. \A a \in rows \ gone : Clear(a) /\ Whole(a)
      BY <2>1, <3>1
    <3> QED
      BY <1>t, <2>3, <3>1, <3>2 DEF RecoveryIsOnTheWay, Doing, Settled, Clear, Whole
  <2> QED
    BY <2>4, <2>5, <2>6, <2>7, <2>8 DEF TreesInv
<1> QED
  BY <1>1, <1>2, RetiringSteps

LEMMA TreesWhileRetiring ==
    ASSUME StoreTypeOK, TreesAreFinite, TaskShape, TreesInv, Retiring
    PROVE  TreesInv'
BY TreesWhenOrphanMoved, TreesWhenRecorded, TreesWhenRecordFails, TreesWhenDiscarded,
   TreesWhenOrphanReleased, TreesWhenOrphansEnd DEF Retiring

LEMMA TreesWhenCleaning ==
    ASSUME StoreTypeOK, TaskShape, TreesInv, CleanupOne
    PROVE  TreesInv'
<1>t. /\ UNCHANGED <<rows, placed, retired, hurt, mishaps>> /\ task.pc = "cleanup" /\ Moved = {}
  BY ShortSeqs DEF CleanupOne, Pc, TaskShape, Doing, Moved, fromOutside
<1>1. PICK n \in retired : RemoveSide(n) /\ Becomes("cleaned", task.todo, <<n>>, task.matched)
  BY RecoveringSteps
<1>2. n \in SideNames
  BY DEF StoreTypeOK
<1>3. /\ task'.pc = "cleaned" /\ Moved' = {n} /\ First' = n
  BY <1>1, ShortSeqs DEF Becomes, Moved, First
<1>p. \A m \in SideNames : side'[m] = IF m = n THEN "none" ELSE side[m]
  BY <1>1, <1>2, Removes
<1>4. AsideIsKnown'
  BY <1>t, <1>2, <1>3, <1>p DEF TreesInv, AsideIsKnown, Doing
<1>5. DamageIsKnown'
  BY <1>t, <1>3 DEF TreesInv, DamageIsKnown, Doing
<1>6. RowsAreKept'
  BY <1>t, <1>p DEF TreesInv, RowsAreKept, Whole, Backup
<1>7. DeletedIsSpared' /\ RecoveryIsOnTheWay'
  BY <1>3 DEF DeletedIsSpared, RecoveryIsOnTheWay, Doing
<1> QED
  BY <1>4, <1>5, <1>6, <1>7 DEF TreesInv

LEMMA TreesWhenCleaned ==
    ASSUME StoreTypeOK, TaskShape, TreesInv, CleanupReleased
    PROVE  TreesInv'
<1>t. UNCHANGED <<rows, placed, side, hurt, mishaps>> /\ task.pc = "cleaned"
  BY DEF CleanupReleased, Pc, fromOutside
<1>f. Head(task.moved) = First /\ Moved = {First}
  BY <1>t, OnlyOne, FirstFacts DEF TaskShape, Doing
<1>1. retired' = retired \ {First} /\ task'.pc = "cleanup" /\ Moved' = {}
  BY <1>f, RecoveringSteps, ShortSeqs DEF CleanupReleased, Becomes, Moved
<1>2. side[First] = "none"
  BY <1>t DEF TreesInv, AsideIsKnown, Doing
<1>3. AsideIsKnown'
  BY <1>t, <1>f, <1>1, <1>2 DEF TreesInv, AsideIsKnown, Doing
<1>4. DamageIsKnown'
  BY <1>t, <1>1 DEF TreesInv, DamageIsKnown, Doing
<1>5. RowsAreKept'
  BY <1>t, <1>1, TreesStay
<1>6. DeletedIsSpared' /\ RecoveryIsOnTheWay'
  BY <1>1 DEF DeletedIsSpared, RecoveryIsOnTheWay, Doing
<1> QED
  BY <1>3, <1>4, <1>5, <1>6 DEF TreesInv

\* The steps of recovery that only read the trees.
LEMMA TreesWhenLooking ==
    ASSUME StoreTypeOK, TreesAreFinite, TaskShape, TreesInv,
           RecoverySnapshot \/ RemoveAbandonedStaging \/ RecoverNext \/ BackupsEnd
    PROVE  TreesInv'
<1>t. /\ UNCHANGED <<placed, side, retired, hurt>> /\ rows' \subseteq rows
      /\ mishaps' = 0 => mishaps = 0
      /\ task.moved = <<>> /\ Moved = {}
  BY ShortSeqs, RaisedCounts DEF RecoverySnapshot, RemoveAbandonedStaging, RecoverNext, BackupsEnd,
     TaskShape, Pc, Doing, Moved, fromOutside
<1>m. /\ Moved' = {} /\ task'.pc \in {"staging", "backups", "orphan"} /\ task'.kind = task.kind
      /\ task'.tried = task.tried
  BY <1>t, RecoveringSteps DEF Becomes, Moved
<1>1. AsideIsKnown'
  BY <1>t, <1>m DEF TreesInv, AsideIsKnown, Doing
<1>2. DamageIsKnown'
  BY <1>t, <1>m DEF TreesInv, DamageIsKnown, Doing
<1>3. RowsAreKept'
  BY <1>t, TreesStay
<1>4. CASE RecoverySnapshot
  <2>1. retired = {} /\ task'.pc = "staging"
    BY <1>4, RecoveringSteps DEF RecoverySnapshot, Becomes
  <2>2. DeletedIsSpared' /\ RecoveryIsOnTheWay'
    BY <1>t, <2>1 DEF DeletedIsSpared, RecoveryIsOnTheWay, Doing
  <2> QED
    BY <1>1, <1>2, <1>3, <2>2 DEF TreesInv
<1>5. CASE RemoveAbandonedStaging
  <2>1. /\ rows' = rows /\ task.pc = "staging" /\ task'.pc = "backups"
        /\ Members(task'.todo) = rows
    BY <1>5, RecoveringSteps, TodoLists DEF RemoveAbandonedStaging, Pc, Becomes
  <2>2. /\ task.kind = "recover" => retired = {}
        /\ task.tried = {}
    BY <2>1 DEF TreesInv, RecoveryIsOnTheWay, TaskShape, Doing
  <2>3. DeletedIsSpared' /\ RecoveryIsOnTheWay'
    BY <1>t, <1>m, <2>1, <2>2 DEF DeletedIsSpared, RecoveryIsOnTheWay, Doing
  <2> QED
    BY <1>1, <1>2, <1>3, <2>3 DEF TreesInv
<1>6. CASE RecoverNext
  <2>1. /\ rows' = rows /\ task.pc = "backups" /\ task'.pc = "backups"
        /\ task'.todo = Tail(task.todo) /\ Clear(Head(task.todo))
        /\ Members(task.todo) = {Head(task.todo)} \cup Members(Tail(task.todo))
    BY <1>6, RecoveringSteps, TodoFacts DEF RecoverNext, Pc, Becomes, Clear, Aside
  <2>2. /\ task.kind = "recover" =>
               retired = {} /\ \A a \in rows : Clear(a) \/ a \in Members(task.todo)
        /\ \A n \in task.tried : n.of \in rows \ hurt => Whole(n.of)
    BY <2>1 DEF TreesInv, DeletedIsSpared, RecoveryIsOnTheWay, Doing
  <2>3. \A a \in rows : task.kind = "recover" => Clear(a)' \/ a \in Members(task'.todo)
    BY <1>t, <1>m, <2>1, <2>2 DEF Clear
  <2>4. DeletedIsSpared' /\ RecoveryIsOnTheWay'
    BY <1>t, <1>m, <2>1, <2>2, <2>3 DEF DeletedIsSpared, RecoveryIsOnTheWay, Doing, Whole
  <2> QED
    BY <1>1, <1>2, <1>3, <2>4 DEF TreesInv
<1>7. CASE BackupsEnd
  <2>1. /\ rows' = rows /\ task.pc = "backups" /\ task'.pc = "orphan" /\ task.todo = <<>>
        /\ Members(task'.todo) = Unindexed
    BY <1>7, RecoveringSteps, TodoLists DEF BackupsEnd, Pc, Becomes
  <2>2. \A a \in Unindexed : a \notin rows
    BY DEF Unindexed
  <2>3. task.kind = "recover" => retired = {} /\ \A a \in rows : Clear(a)
    BY <2>1, ShortSeqs DEF TreesInv, RecoveryIsOnTheWay, Doing
  <2>4. DeletedIsSpared'
    BY <1>t, <1>m, <2>1, <2>2 DEF DeletedIsSpared, Doing, Spared
  <2>5. RecoveryIsOnTheWay'
    BY <1>t, <1>m, <2>1, <2>2, <2>3 DEF RecoveryIsOnTheWay, Doing, Clear
  <2> QED
    BY <1>1, <1>2, <1>3, <2>4, <2>5 DEF TreesInv
<1> QED
  BY <1>4, <1>5, <1>6, <1>7

LEMMA TreesWhenRecovering ==
    ASSUME StoreTypeOK, TaskShape, TreesInv, RecoverTarget \/ RecoverReplace \/ RecoverDrop
    PROVE  TreesInv'
<1> DEFINE a == Head(task.todo)
<1>t. UNCHANGED <<rows, retired, hurt>> /\ task.pc = "backups" /\ a \in Stored /\ Moved = {}
  BY TodoFacts, ShortSeqs DEF RecoverTarget, RecoverReplace, RecoverDrop, TaskShape, Pc, Doing,
     Moved, fromOutside
<1>d. /\ \A b \in Stored : placed[b] = "bad" => b \in hurt
      /\ mishaps = 0 => \A m \in SideNames : side[m] # "none" => m \in retired
      /\ RowsAreKept
      /\ \A m \in task.tried : m.of \in rows \ hurt => Whole(m.of)
      /\ task.kind = "recover" =>
             retired = {} /\ \A b \in rows : Clear(b) \/ b \in Members(task.todo)
  BY <1>t DEF TreesInv, DamageIsKnown, AsideIsKnown, DeletedIsSpared, RecoveryIsOnTheWay, Doing
\* Each of them takes trees away from beside an artifact, or from its place, and
\* what is not gone has been tried.
<1>g. ASSUME \A m \in SideNames \ task'.tried : side'[m] # "none" => side[m] # "none",
             mishaps' = 0 => mishaps = 0 /\ \A m \in SideNames : side'[m] # "none" => side[m] # "none",
             \A b \in Stored : placed'[b] = "bad" => placed[b] = "bad",
             task.tried \subseteq task'.tried, task'.pc = task.pc, task'.kind = task.kind,
             task'.moved = task.moved, task'.todo = task.todo,
             \A m \in task'.tried : m.of \in rows \ hurt => placed'[m.of] = "good",
             RowsAreKept'
      PROVE  TreesInv'
  <2>0. Moved' = {}
    BY <1>t, <1>g DEF Moved
  <2>1. AsideIsKnown'
    BY <1>t, <1>d, <1>g, <2>0 DEF AsideIsKnown, Doing
  <2>2. DamageIsKnown'
    BY <1>t, <1>d, <1>g, <2>0 DEF DamageIsKnown, Doing
  <2>3. DeletedIsSpared'
    BY <1>t, <1>g DEF DeletedIsSpared, Doing, Whole
  <2>4. RecoveryIsOnTheWay'
    <3>1. ASSUME NEW b, Clear(b) PROVE Clear(b)'
      BY <1>g, <3>1 DEF Clear
    <3> QED
      BY <1>t, <1>d, <1>g, <3>1 DEF RecoveryIsOnTheWay, Doing
  <2> QED
    BY <1>g, <2>1, <2>2, <2>3, <2>4 DEF TreesInv
<1>1. CASE RecoverTarget
  <2>1. /\ placed[a] = "bad" /\ placed' = [placed EXCEPT ![a] = "none"]
        /\ UNCHANGED <<side, task, mishaps>>
    BY <1>1 DEF RecoverTarget
  <2>2. \A b \in Stored : placed'[b] = IF b = a THEN "none" ELSE placed[b]
    BY <1>t, <2>1, Installs DEF Trees
  <2>3. RowsAreKept'
    BY <1>t, <1>d, <2>1, <2>2 DEF RowsAreKept, Whole, Backup, StoreTypeOK
  <2>4. \A m \in task.tried : m.of \in rows \ hurt => placed'[m.of] = "good"
    BY <1>d, <2>1, <2>2 DEF Whole, StoreTypeOK
  <2>5. \A b \in Stored : placed'[b] = "bad" => placed[b] = "bad"
    BY <2>2
  <2> QED
    BY <1>g, <2>1, <2>3, <2>4, <2>5
<1>2. CASE RecoverReplace
  <2>1. PICK n \in SideNames : n.of = a /\ side[n] = "good" /\ MoveBack(n) /\ Tries(n)
    BY <1>2, RecoveringSteps DEF Replacement, Aside
  <2>2. RestoreTree(n) /\ placed[a] = "none" /\ mishaps' = mishaps
    BY <1>2, <2>1 DEF RecoverReplace, RestoreTree
  <2>3. RowsAreKept' /\ \A m \in SideNames : side'[m] = IF m = n THEN "none" ELSE side[m]
    BY <1>t, <2>1, <2>2, PuttingBack, MovesBack
  <2>4. \A b \in Stored : placed'[b] = IF b = a THEN "good" ELSE placed[b]
    BY <2>1, MovesBack
  <2>5. \A m \in task'.tried : m.of \in rows \ hurt => placed'[m.of] = "good"
    BY <1>d, <2>1, <2>4 DEF Tries, Whole, StoreTypeOK
  <2>6. \A b \in Stored : placed'[b] = "bad" => placed[b] = "bad"
    BY <2>4
  <2> QED
    BY <1>g, <2>1, <2>2, <2>3, <2>5, <2>6 DEF Tries
<1>3. CASE RecoverDrop
  <2>1. PICK n \in SideNames : n.of = a /\ side[n] # "none" /\ TryRemoving(n) /\ Tries(n)
    BY <1>3, RecoveringSteps DEF Aside
  <2>2. placed' = placed /\ Dropping(a)
    BY <1>3 DEF RecoverDrop
  <2>3. /\ \A m \in SideNames : m # n => side'[m] = side[m]
        /\ mishaps' = 0 => mishaps = 0 /\ side'[n] = "none"
    BY <2>1, TriesRemoving
\* What is dropped beside an artifact that was not damaged is not its only tree.
  <2>4. a \in rows \ hurt => Whole(a)
    <3>1. CASE Decided(a)
      BY <1>d, <3>1 DEF Decided
    <3>2. CASE Replacement(a) = {}
      BY <1>d, <3>2 DEF RowsAreKept, Backup, Replacement, Aside
    <3> QED
      BY <2>2, <3>1, <3>2 DEF Dropping
  <2>5. RowsAreKept'
    <3> SUFFICES ASSUME NEW b \in rows \ hurt, ~Whole(b)
                 PROVE  \E m \in SideNames : Backup(m, b)'
      BY <1>t, <2>2 DEF RowsAreKept, Whole
    <3>1. PICK m \in SideNames : Backup(m, b)
      BY <1>d DEF RowsAreKept
    <3>2. m # n
      BY <2>1, <2>4, <3>1 DEF Backup
    <3> QED
      BY <1>t, <2>3, <3>1, <3>2 DEF Backup
  <2>6. \A m \in task'.tried : m.of \in rows \ hurt => placed'[m.of] = "good"
    BY <1>d, <2>1, <2>2, <2>4 DEF Tries, Whole
  <2> QED
    BY <1>g, <2>1, <2>2, <2>3, <2>5, <2>6 DEF Tries
<1> QED
  BY <1>1, <1>2, <1>3

LEMMA TreesWhenRecovered ==
    ASSUME StoreTypeOK, TreesInv, CommitRecovery
    PROVE  TreesInv'
<1>t. /\ UNCHANGED <<placed, side, hurt, mishaps>> /\ task.pc = "quarantine"
      /\ task.kind = "recover"
  BY DEF CommitRecovery, Pc
<1>1. PICK gone : /\ task.matched \subseteq gone
                  /\ rows' = rows \ gone /\ retired' = retired \cup Moved
                  /\ Becomes("settle", task.todo, task.moved, gone)
  BY RecoveringSteps
<1>2. /\ Moved' = Moved /\ task'.pc = "settle" /\ task'.kind = "recover" /\ task'.matched = gone
      /\ task'.tried = task.tried
  BY <1>t, <1>1 DEF Becomes, Moved
<1>d. /\ retired = {} /\ \A n \in Moved : n.of \in task.matched
      /\ \A a \in rows \ task.matched : Settled(a)
  BY <1>t DEF TreesInv, RecoveryIsOnTheWay, Doing
<1>3. AsideIsKnown'
  BY <1>t, <1>1, <1>2 DEF TreesInv, AsideIsKnown, Doing
<1>4. DamageIsKnown'
  BY <1>t, <1>2 DEF TreesInv, DamageIsKnown, Doing
<1>5. RowsAreKept'
  BY <1>t, <1>1, <1>d DEF RowsAreKept, Settled, Whole
<1>6. DeletedIsSpared'
  BY <1>1, <1>2 DEF DeletedIsSpared, Doing
<1>7. RecoveryIsOnTheWay'
  BY <1>t, <1>1, <1>2, <1>d DEF RecoveryIsOnTheWay, Doing, Settled, Clear, Whole
<1> QED
  BY <1>3, <1>4, <1>5, <1>6, <1>7 DEF TreesInv

LEMMA TreesWhileRecovering ==
    ASSUME StoreTypeOK, TreesAreFinite, TaskShape, TreesInv, Recovering
    PROVE  TreesInv'
<1>1. CASE BeginRecovery
  <2>1. UNCHANGED <<rows, placed, side, retired, hurt, mishaps>> /\ Moved = {}
    BY <1>1, FreeTask DEF BeginRecovery, fromOutside
  <2>2. task'.moved = <<>> /\ task'.pc = "cleanup"
    BY <1>1, StartingSteps DEF Starts
  <2> QED
    BY <2>1, <2>2, TreesIdle
<1> QED
  BY <1>1, TreesWhenCleaning, TreesWhenCleaned, TreesWhenLooking, TreesWhenRecovering,
     TreesWhenRecovered DEF Recovering

\* What an interrupted deletion has been at is not the only tree of an artifact.
LEMMA DeletedIsSpare ==
    ASSUME StoreTypeOK, TaskShape, TreesInv, NEW n \in Deleting, NEW a \in rows \ hurt, Backup(n, a)
    PROVE  Whole(a)
<1>1. CASE task.pc = "settle"
  <2>1. /\ task.moved # <<>> /\ Head(task.moved).of \in task.matched /\ n = Head(task.moved)
    BY <1>1 DEF Deleting, Pc
  <2>2. task.matched \cap rows = {}
    BY <1>1 DEF TreesInv, DeletedIsSpared, Doing
  <2> QED
    BY <2>1, <2>2 DEF Backup
<1>2. CASE task.pc = "discard"
  <2>1. n = Head(task.moved) /\ Head(task.moved) = First
    BY <1>2, OrphanFacts DEF Deleting, Pc
  <2> QED
    BY <1>2, <2>1 DEF TreesInv, DeletedIsSpared, Doing, Backup
<1>3. CASE task.pc = "backup"
  <2>1. n = Head(task.moved) /\ Head(task.moved) = First /\ First.of \in hurt
    BY <1>3, BackupFacts DEF Deleting, Pc
  <2> QED
    BY <2>1 DEF Backup
<1>4. CASE task.pc = "cleanup"
  BY <1>4 DEF Deleting, Pc, Backup
<1>5. CASE task.pc = "backups"
  <2>1. Dropping(a) /\ n \in Replacement(a)
    BY <1>5 DEF Deleting, Pc, Backup, Replacement, Aside
  <2>2. Decided(a) => Whole(a)
    BY <1>5 DEF TreesInv, DeletedIsSpared, Doing, Decided
  <2> QED
    BY <2>1, <2>2 DEF Dropping
<1>6. CASE task.pc \notin {"settle", "discard", "backup", "cleanup", "backups"}
  BY <1>6 DEF Deleting, Pc
<1> QED
  BY <1>1, <1>2, <1>3, <1>4, <1>5, <1>6

LEMMA TreesWhenInterrupted ==
    ASSUME StoreTypeOK, TaskShape, TreesInv, TaskCrashes \/ TaskRaises
    PROVE  TreesInv'
<1>t. /\ UNCHANGED <<rows, placed, retired, hurt>> /\ mishaps' # 0 /\ Interrupted
      /\ task'.kind = "none" /\ task'.pc = "idle"
  BY RaisedCounts, TaskEnds DEF TaskCrashes, TaskRaises, Ends, fromOutside
<1>1. AsideIsKnown' /\ DeletedIsSpared' /\ RecoveryIsOnTheWay'
  BY <1>t DEF AsideIsKnown, DeletedIsSpared, RecoveryIsOnTheWay, Doing
<1>2. DamageIsKnown'
  BY <1>t DEF TreesInv, DamageIsKnown, Doing
<1>3. RowsAreKept'
  <2>1. CASE UNCHANGED side
    BY <1>t, <2>1, TreesStay
  <2>2. CASE \E n \in Deleting : \E left \in Partly(side[n]) : side' = [side EXCEPT ![n] = left]
    <3>1. PICK n \in Deleting : \A m \in SideNames : m # n => side'[m] = side[m]
      BY <2>2 DEF StoreTypeOK
    <3> SUFFICES ASSUME NEW a \in rows \ hurt, ~Whole(a)
                 PROVE  \E m \in SideNames : Backup(m, a)'
      BY <1>t DEF RowsAreKept, Whole
    <3>2. PICK m \in SideNames : Backup(m, a)
      BY DEF TreesInv, RowsAreKept
    <3>3. m # n
      BY <3>2, DeletedIsSpare
    <3> QED
      BY <1>t, <3>1, <3>2, <3>3 DEF Backup
  <2> QED
    BY <1>t, <2>1, <2>2 DEF Interrupted
<1> QED
  BY <1>1, <1>2, <1>3 DEF TreesInv

LEMMA TreesWhenDamaged ==
    ASSUME StoreTypeOK, TreesInv, NEW a \in Stored, DamageTree(a)
    PROVE  TreesInv'
<1>t. /\ UNCHANGED <<rows, side, retired, task>> /\ mishaps' # 0 /\ hurt' = hurt \cup {a}
      /\ Moved' = Moved /\ First' = First
  BY RaisedCounts DEF DamageTree, Moved, First
<1>1. \A b \in Stored : placed'[b] = IF b = a THEN "bad" ELSE placed[b]
  BY Installs DEF DamageTree, Trees
<1>2. AsideIsKnown'
  BY <1>t DEF TreesInv, AsideIsKnown, Doing
<1>3. DamageIsKnown'
  <2>1. Moved \subseteq SideNames /\ \A n \in SideNames : n.of \in Stored
    BY TaskFacts, SeqFacts, SideFacts DEF Moved
  <2> QED
    BY <1>t, <1>1, <2>1 DEF TreesInv, DamageIsKnown, Doing
<1>4. RowsAreKept'
  BY <1>t, <1>1 DEF TreesInv, RowsAreKept, Whole, Backup, StoreTypeOK
<1>5. ASSUME NEW b, Spared(b) PROVE Spared(b)'
  BY <1>t, <1>5 DEF Spared, Backup
<1>6. DeletedIsSpared'
  <2>1. \A b \in task.art \ hurt' : b \in Stored /\ b # a
    BY <1>t, TaskFacts
  <2>2. Doing({"publish"}) => \A b \in task.art \ hurt' : Whole(b)' /\ (task.fresh => Spared(b)')
    BY <1>t, <1>1, <1>5, <2>1 DEF TreesInv, DeletedIsSpared, Whole
  <2>3. Doing({"backups"}) => \A n \in task.tried : n.of \in rows \ hurt' => Whole(n.of)'
    BY <1>t, <1>1 DEF TreesInv, DeletedIsSpared, Doing, Whole, StoreTypeOK
  <2> QED
    BY <1>t, <1>5, <2>2, <2>3 DEF TreesInv, DeletedIsSpared, Doing
<1>7. RecoveryIsOnTheWay'
  <2>1. ASSUME NEW b PROVE Clear(b)' <=> Clear(b)
    BY <1>t DEF Clear
  <2>2. ASSUME NEW b \in rows, Settled(b) PROVE Settled(b)'
    BY <1>t, <1>1, <2>1, <2>2 DEF Settled, Whole, StoreTypeOK
  <2> QED
    BY <1>t, <2>1, <2>2 DEF TreesInv, RecoveryIsOnTheWay, Doing
<1> QED
  BY <1>2, <1>3, <1>4, <1>6, <1>7 DEF TreesInv

LEMMA TreesWhenMishap ==
    ASSUME StoreTypeOK, TaskShape, TreesInv, Mishap
    PROVE  TreesInv'
<1>1. CASE \E a \in Stored : PreparerCrashes(a) \/ DamageRow(a)
  <2>1. UNCHANGED <<rows, placed, side, retired, hurt, task>> /\ mishaps' # 0
    BY <1>1, RaisedCounts DEF PreparerCrashes, DamageRow, fromOutside
  <2> QED
    BY <2>1, TreesUntouched
<1> QED
  BY <1>1, TreesWhenInterrupted, TreesWhenDamaged DEF Mishap

LEMMA TreesKept ==
    ASSUME StoreTypeOK, TreesAreFinite, TaskShape, FreshIsPublished, TreesInv, StoreNext
    PROVE  TreesInv'
BY TreesWhileStaging, TreesWhilePruning, TreesWhileInstalling, TreesWhileRetiring,
   TreesWhileRecovering, TreesWhenMishap DEF StoreNext

-----------------------------------------------------------------------------
(* Theorems *)

LEMMA StoreStarts == StoreInit => StoreInv
<1> SUFFICES ASSUME StoreInit PROVE StoreInv
  OBVIOUS
<1>1. /\ task.kind = "none" /\ task.pc = "idle" /\ task.art = {} /\ task.moved = <<>>
      /\ ~task.fresh /\ task.tried = {} /\ task \in Tasks /\ Moved = {}
  BY NoTaskFacts, ShortSeqs DEF StoreInit, Moved
<1>2. StoreTypeOK
  BY <1>1, StoreAssumption DEF StoreInit, StoreTypeOK, Trees
<1>3. TreesAreFinite
  <2>1. rows = {} /\ Occupied = {}
    BY DEF StoreInit, Occupied
  <2> QED
    BY <2>1, FS_EmptySet DEF TreesAreFinite
<1>4. TaskShape /\ FreshIsPublished
  BY <1>1 DEF TaskShape, FreshIsPublished, Doing
<1>5. GenerationsAreClosed /\ StagingInUseStays /\ StagingIsLeased
  BY <1>1 DEF StoreInit, GenerationsAreClosed, StagingInUseStays, StagingIsLeased, Doing
<1>6. TreesInv
  BY <1>1 DEF StoreInit, TreesInv, AsideIsKnown, DamageIsKnown, RowsAreKept, DeletedIsSpared,
     RecoveryIsOnTheWay, Doing
<1> QED
  BY <1>2, <1>3, <1>4, <1>5, <1>6 DEF StoreInv

LEMMA StoreSteps == StoreInv /\ [StoreNext]_storeVars => StoreInv'
<1>1. ASSUME StoreInv, StoreNext PROVE StoreInv'
  <2>1. StoreTypeOK' /\ TreesAreFinite' /\ TaskShape' /\ FreshIsPublished'
    BY <1>1, StoreTyped, ShapeKept, FreshKept DEF StoreInv
  <2>2. GenerationsAreClosed' /\ StagingInUseStays' /\ StagingIsLeased'
    BY <1>1, ClosedKept, StagingKept DEF StoreInv
  <2>3. TreesInv'
    BY <1>1, TreesKept DEF StoreInv
  <2> QED
    BY <2>1, <2>2, <2>3 DEF StoreInv
<1>2. ASSUME StoreInv, UNCHANGED storeVars PROVE StoreInv'
  <2>1. /\ UNCHANGED <<rows, malformed, placed, side, retired>>
        /\ UNCHANGED <<stageDirs, stageLeases, preparers, task, hurt, mishaps>>
    BY <1>2 DEF storeVars
  <2>2. StoreTypeOK' /\ TreesAreFinite'
    BY <1>2, <2>1 DEF StoreInv, StoreTypeOK, TreesAreFinite, Occupied
  <2>3. TaskShape' /\ FreshIsPublished'
    BY <1>2, <2>1 DEF StoreInv, TaskShape, FreshIsPublished, Doing, First
  <2>4. GenerationsAreClosed' /\ StagingInUseStays' /\ StagingIsLeased'
    BY <1>2, <2>1 DEF StoreInv, GenerationsAreClosed, StagingInUseStays, StagingIsLeased, Doing
  <2>5. TreesInv'
    BY <1>2, <2>1, TreesUntouched DEF StoreInv
  <2> QED
    BY <2>2, <2>3, <2>4, <2>5 DEF StoreInv
<1> QED
  BY <1>1, <1>2

LEMMA StoreHolds == StoreSpec => []StoreInv
BY StoreStarts, StoreSteps, PTL DEF StoreSpec

LEMMA StoreInvSurvives ==
    ASSUME StoreInv
    PROVE  StoreSurvivesCrashes
<1>t. StoreTypeOK /\ TreesInv
  BY DEF StoreInv
<1>1. IndexedNeverLost
  BY <1>t DEF TreesInv, RowsAreKept, IndexedNeverLost, Backup, Replacement, Aside
<1>2. RecoveryIsComplete
  <2> SUFFICES ASSUME RecoveryEnds
               PROVE  /\ \A a \in rows : Whole(a) \/ a \in hurt
                      /\ \A a \in rows : Aside(a) \subseteq task.tried
                      /\ retired = {}
    BY DEF RecoveryIsComplete
  <2>1. task.kind = "recover" /\ task.pc = "settle" /\ Moved = {}
    BY ShortSeqs DEF RecoveryEnds, Pc, Moved
  <2>2. retired = {} /\ \A a \in rows : Settled(a)
    BY <1>t, <2>1 DEF TreesInv, RecoveryIsOnTheWay, Doing
  <2> QED
    BY <2>2 DEF Settled, Clear, Aside
<1>3. GenerationsAreClosed /\ StagingInUseStays
  BY DEF StoreInv
<1>4. BytesAreAccounted
  <2>1. Range(task.moved) = Moved
    BY <1>t, TaskFacts, SeqFacts DEF Moved
  <2> QED
    BY <1>t, <2>1 DEF TreesInv, AsideIsKnown, BytesAreAccounted
<1> QED
  BY <1>1, <1>2, <1>3, <1>4 DEF StoreSurvivesCrashes

\* Whatever was interrupted, every variable keeps its type: a malformed row is a
\* row, what is accounted has a name beside an artifact, and so has every tree that
\* a task has in its hands.
THEOREM StoreTypeCorrect == StoreSpec => []StoreTypeOK
<1>1. StoreInv => StoreTypeOK
  BY DEF StoreInv
<1> QED
  BY <1>1, StoreHolds, PTL

\* For any states and generations, and any number of crashes, errors and damaged
\* trees: an indexed artifact that nothing outside has damaged keeps a whole tree,
\* a finished recovery leaves every row with its tree in its place and nothing
\* beside it but what it could not delete, generations contain states that are
\* indexed, a staging directory in use stays as long as its lease, and without a
\* mishap every byte set aside is accounted.
THEOREM StoreSurvives == StoreSpec => []StoreSurvivesCrashes
<1>1. StoreInv => StoreSurvivesCrashes
  BY StoreInvSurvives
<1> QED
  BY <1>1, StoreHolds, PTL
=============================================================================
