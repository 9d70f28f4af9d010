--------------------------- MODULE Services_proofs ---------------------------
(***************************************************************************)
(* Proofs about the processes a build talks to: a capture over the edit    *)
(* API of a running notebook (RemoteCapture) and the notebook a build owns *)
(* (ManagedServer), for any number of captures, assets, attempts, faults   *)
(* and edits.                                                              *)
(***************************************************************************)
EXTENDS ManagedServer, RemoteCapture, Sums_proofs

-----------------------------------------------------------------------------
(* A capture: an inductive invariant *)

CallerPcs == {"idle", "capturing", "download", "inspecting", "releasing", "abandoning",
              "returned", "failed"}
RequestOps == {"capture", "inspect", "release"}
Clients == [pc : CallerPcs, calls : 0..4, ticket : BOOLEAN, document : 0..1, live : 0..1,
            got : SUBSET Nat]
Requests == [op : RequestOps, client : Captures, call : 1..4]
Runs == [op : RequestOps, client : Captures, call : 1..4, document : 0..1, ui : 0..1,
         states : 0..MaxStates, failed : BOOLEAN, stage : {"begun", "states", "ticket"}]
Answers == [op : RequestOps, ok : BOOLEAN, document : 0..1]
AllFiles == UNION {Files(c) : c \in Captures}
Leases == [on : BOOLEAN, files : SUBSET AllFiles, due : BOOLEAN]

RemoteTypes ==
    /\ caller \in [Captures -> Clients]
    /\ queue \in Seq(Requests)
    /\ kernel = Nothing \/ kernel \in Runs
    /\ replies \in [Captures -> Answers \cup {Nothing}]
    /\ timer \in [armed : BOOLEAN, fired : {"none", "current", "stale"}]
    /\ parent \in [document : 0..1, ui : 0..1, implementation : 0..1]
    /\ remote \in [trouble : 0..MaxTrouble, unscheduled : BOOLEAN]

\* How many calls a client has made where it is, and whether it knows of a ticket.
Counted(C) ==
    /\ C.pc = "idle" => C.calls = 0 /\ ~C.ticket
    /\ C.pc = "capturing" => C.calls = 1 /\ ~C.ticket
    /\ C.pc = "download" => C.calls = 1
    /\ C.pc = "inspecting" => C.calls = 2
    /\ C.pc \in {"releasing", "returned"} => C.calls = 3
    /\ C.pc = "abandoning" => C.calls >= 2 /\ ~C.ticket
    /\ C.pc = "failed" => C.calls >= 1
CallsAreCounted == \A c \in Captures : Counted(caller[c])

\* A request is for the call its client waits for, or for one given up.  The first
\* call is the capture: while it is under way its client has no answer and no lease.
OpOf(pc) == CASE pc = "capturing" -> "capture" [] pc = "inspecting" -> "inspect"
              [] OTHER -> "release"
Relevant(r, C, A, ls) ==
    LET c == r.client IN
    /\ c \in Captures /\ r.call <= C[c].calls
    /\ r.call = C[c].calls /\ C[c].pc \in Awaiting => r.op = OpOf(C[c].pc)
    /\ r.op = "capture" =>
           /\ (C[c].pc = "capturing" /\ A[c] = Nothing) \/ C[c].pc = "failed"
           /\ ls[c] = NoLease
RequestsAreRelevant ==
    /\ \A i \in 1..Len(queue) : Relevant(queue[i], caller, replies, leases)
    /\ kernel # Nothing => Relevant(kernel, caller, replies, leases)

Captured(r, c) == r.op = "capture" /\ r.client = c
OneCapture ==
    \A c \in Captures :
        /\ \A i, j \in 1..Len(queue) : Captured(queue[i], c) /\ Captured(queue[j], c) => i = j
        /\ kernel # Nothing /\ Captured(kernel, c) =>
               \A i \in 1..Len(queue) : ~Captured(queue[i], c)

\* The virtual files R are those of the leases ls, and both fit the limits.
LeasesFit(ls) ==
    /\ ls \in [Captures -> Leases]
    /\ \A c \in Captures : ls[c].files \subseteq Files(c) /\ (~ls[c].on => ls[c] = NoLease)
Budgeted(ls, R) ==
    /\ LeasesFit(ls) /\ R = Leased(ls)
    /\ IsFiniteSet(ActiveTickets(ls)) /\ Cardinality(ActiveTickets(ls)) <= MaxTickets
    /\ IsFiniteSet(R) /\ Bytes(R) <= MaxTransferBytes
TimerIsSet ==
    ActiveTickets(leases) # {} => timer.armed \/ timer.fired = "current" \/ remote.unscheduled

\* What a client has found out on the way to its result.
Verified(c) ==
    /\ caller[c].pc \in {"releasing", "returned"} => caller[c].live = caller[c].document
    /\ caller[c].pc \in {"inspecting", "releasing", "returned"} => AssetsLeft(c) = {}
    /\ caller[c].pc = "returned" \/ (Answered(c, "releasing") /\ replies[c].ok) =>
           leases[c] = NoLease
    /\ caller[c].pc = "idle" => leases[c] = NoLease
ResultsAreVerified == \A c \in Captures : Verified(c)

RemoteInv ==
    /\ RemoteTypes /\ CallsAreCounted /\ RequestsAreRelevant /\ OneCapture
    /\ Budgeted(leases, registry) /\ TimerIsSet /\ ResultsAreVerified

-----------------------------------------------------------------------------
(* The virtual files and their bytes *)

LEMMA FilesApart ==
    ASSUME NEW c \in Captures, NEW d \in Captures, NEW f, f \in Files(c), f \in Files(d)
    PROVE  c = d
<1>1. PICK a \in DOMAIN WantedAssets[c] : f = <<c, a>>
  BY DEF Files
<1>2. PICK b \in DOMAIN WantedAssets[d] : f = <<d, b>>
  BY DEF Files
<1> QED
  BY <1>1, <1>2

LEMMA FilesAreFinite ==
    ASSUME NEW c \in Captures
    PROVE  IsFiniteSet(Files(c)) /\ Files(c) \subseteq AllFiles
<1> DEFINE D == DOMAIN WantedAssets[c]
           g == [a \in D |-> <<c, a>>]
<1>1. IsFiniteSet(D)
  BY RemoteAssumption DEF RemoteAssumption
<1>2. g \in Surjection(D, Files(c))
  BY DEF Surjection, Files
<1> HIDE DEF g
<1>3. IsFiniteSet(Files(c))
  BY <1>1, <1>2, FS_Surjection
<1> QED
  BY <1>3 DEF AllFiles

LEMMA SizeNat == \A f \in AllFiles : Size[f] \in Nat
<1> SUFFICES ASSUME NEW f \in AllFiles PROVE Size[f] \in Nat
  OBVIOUS
<1>1. PICK c \in Captures : f \in Files(c)
  BY DEF AllFiles
<1>2. PICK a \in DOMAIN WantedAssets[c] : f = <<c, a>>
  BY <1>1 DEF Files
<1>3. Size[f] = WantedAssets[f[1]][f[2]]
  BY DEF AllFiles, Size
<1>4. Size[f] = WantedAssets[c][a]
  BY <1>2, <1>3
<1>5. WantedAssets[c][a] \in Nat
  BY RemoteAssumption DEF RemoteAssumption
<1> QED
  BY <1>4, <1>5

LEMMA BytesNat ==
    ASSUME NEW F, IsFiniteSet(F), F \subseteq AllFiles PROVE Bytes(F) \in Nat
BY SizeNat, SumNat DEF Bytes

\* Fewer files have no more bytes.
LEMMA BytesShrink ==
    ASSUME NEW G, IsFiniteSet(G), G \subseteq AllFiles, NEW F, F \subseteq G
    PROVE  IsFiniteSet(F) /\ Bytes(F) <= Bytes(G)
<1> DEFINE E == G \ F
<1>1. IsFiniteSet(F) /\ IsFiniteSet(E)
  BY FS_Subset
<1>2. F \cup E = G /\ F \cap E = {} /\ \A f \in F \cup E : Size[f] \in Nat
  BY SizeNat
<1>3. SumOf(Size, F \cup E) = SumOf(Size, F) + SumOf(Size, E)
  BY <1>1, <1>2, SumOfUnion
<1>4. Bytes(G) = Bytes(F) + Bytes(E)
  BY <1>2, <1>3 DEF Bytes
<1>5. Bytes(F) \in Nat /\ Bytes(E) \in Nat
  BY <1>1, <1>2, BytesNat
<1> HIDE DEF E
<1> QED
  BY <1>1, <1>4, <1>5

\* Files put together have no more bytes than apart.
LEMMA BytesJoin ==
    ASSUME NEW F, NEW G, IsFiniteSet(F), IsFiniteSet(G), F \cup G \subseteq AllFiles
    PROVE  IsFiniteSet(F \cup G) /\ Bytes(F \cup G) <= Bytes(F) + Bytes(G)
<1> DEFINE E == G \ F
<1>1. IsFiniteSet(E) /\ Bytes(E) <= Bytes(G) /\ IsFiniteSet(F \cup G)
  BY BytesShrink, FS_Union
<1>2. F \cup E = F \cup G /\ F \cap E = {} /\ \A f \in F \cup E : Size[f] \in Nat
  BY SizeNat
<1>3. SumOf(Size, F \cup E) = SumOf(Size, F) + SumOf(Size, E)
  BY <1>1, <1>2, SumOfUnion
<1>4. Bytes(F \cup G) = Bytes(F) + Bytes(E)
  BY <1>2, <1>3 DEF Bytes
<1>5. Bytes(F) \in Nat /\ Bytes(E) \in Nat /\ Bytes(G) \in Nat
  BY <1>1, BytesNat
<1> HIDE DEF E
<1> QED
  BY <1>1, <1>4, <1>5

-----------------------------------------------------------------------------
(* What a sweep, a ticket and a release do to the leases *)

LEMMA NoLeaseFits == NoLease \in Leases /\ NoLease.files = {} /\ ~NoLease.on /\ ~NoLease.due
BY DEF NoLease, Leases

LEMMA LeaseHolds ==
    ASSUME NEW ls, NEW f
    PROVE  /\ f \in Leased(ls) <=> \E c \in Captures : f \in ls[c].files
           /\ f \in Due(ls) <=> \E c \in Captures : ls[c].due /\ f \in ls[c].files
BY DEF Leased, Due

\* A lease without its files, or with those that could not be removed.
LEMMA KeptFits ==
    ASSUME NEW l, NEW F, F \subseteq AllFiles
    PROVE  /\ Kept(l, F) \in Leases /\ Kept(l, F).files = F
           /\ (~Kept(l, F).on <=> F = {}) /\ (F = {} => Kept(l, F) = NoLease)
BY DEF Kept, NoLease, Leases

SweptOnce(before, after, stuck) ==
    /\ after.files = IF before.due THEN before.files \cap stuck ELSE before.files
    /\ after \in Leases /\ (after.on => before.on) /\ (~after.on => after = NoLease)
    /\ before = NoLease => after = NoLease

LEMMA SweptIs ==
    ASSUME NEW ls, LeasesFit(ls), NEW stuck, NEW c \in Captures
    PROVE  SweptOnce(ls[c], Swept(ls, stuck)[c], stuck)
<1> DEFINE l == ls[c]
           k == Kept(l, l.files \cap stuck)
<1>1. Swept(ls, stuck)[c] = IF l.due THEN k ELSE l
  BY DEF Swept
<1>2. l \in Leases /\ l.files \subseteq AllFiles /\ (~l.on => l = NoLease)
  BY FilesAreFinite DEF LeasesFit
<1> HIDE DEF l
<1>3. /\ k \in Leases /\ k.files = l.files \cap stuck
      /\ (~k.on <=> l.files \cap stuck = {}) /\ (l.files \cap stuck = {} => k = NoLease)
  BY <1>2, KeptFits
<1> HIDE DEF k
<1>4. CASE l.due
  BY <1>1, <1>2, <1>3, <1>4, NoLeaseFits DEF SweptOnce, l
<1>5. CASE ~l.due
  BY <1>1, <1>2, <1>5 DEF SweptOnce, l
<1> QED
  BY <1>4, <1>5

LEMMA SweptFits ==
    ASSUME NEW ls, LeasesFit(ls), NEW stuck
    PROVE  /\ LeasesFit(Swept(ls, stuck))
           /\ ActiveTickets(Swept(ls, stuck)) \subseteq ActiveTickets(ls)
           /\ Leased(Swept(ls, stuck)) = Leased(ls) \ (Due(ls) \ stuck)
<1> DEFINE S == Swept(ls, stuck)
<1>1. S = [c \in Captures |-> S[c]]
  BY DEF Swept
<1> HIDE DEF S
<1>2. \A c \in Captures : SweptOnce(ls[c], S[c], stuck)
  BY SweptIs DEF S
<1>3. LeasesFit(S)
  BY <1>1, <1>2 DEF LeasesFit, SweptOnce
<1>4. ActiveTickets(S) \subseteq ActiveTickets(ls)
  BY <1>2 DEF ActiveTickets, SweptOnce
<1>5. ASSUME NEW f PROVE f \in Leased(S) <=> f \in Leased(ls) \ (Due(ls) \ stuck)
  <2>1. ASSUME NEW c \in Captures, NEW d \in Captures, f \in ls[c].files, f \in ls[d].files
        PROVE  c = d
    BY <2>1, FilesApart DEF LeasesFit
  <2>2. \A c \in Captures :
           f \in S[c].files <=> f \in ls[c].files /\ (ls[c].due => f \in stuck)
    BY <1>2 DEF SweptOnce
  <2> QED
    BY <2>1, <2>2, LeaseHolds
<1> QED
  BY <1>3, <1>4, <1>5 DEF S

\* A budget is kept when leases shrink.
LEMMA BudgetShrinks ==
    ASSUME NEW ls, NEW R, Budgeted(ls, R), NEW fewer, NEW Q, LeasesFit(fewer),
           Q = Leased(fewer), Q \subseteq R, ActiveTickets(fewer) \subseteq ActiveTickets(ls)
    PROVE  Budgeted(fewer, Q)
<1>1. R \subseteq AllFiles
  BY FilesAreFinite DEF Budgeted, LeasesFit, Leased
<1>2. IsFiniteSet(Q) /\ Bytes(Q) <= Bytes(R) /\ Bytes(Q) \in Nat /\ Bytes(R) \in Nat
  BY <1>1, BytesShrink, BytesNat DEF Budgeted
<1>3. /\ IsFiniteSet(ActiveTickets(fewer))
      /\ Cardinality(ActiveTickets(fewer)) <= Cardinality(ActiveTickets(ls))
      /\ Cardinality(ActiveTickets(fewer)) \in Nat /\ Cardinality(ActiveTickets(ls)) \in Nat
  BY FS_Subset, FS_CardinalityType DEF Budgeted
<1>4. MaxTickets \in Nat /\ MaxTransferBytes \in Nat
  BY RemoteAssumption DEF RemoteAssumption
<1> QED
  BY <1>2, <1>3, <1>4 DEF Budgeted

LEMMA SweepBudget ==
    ASSUME NEW ls, NEW R, Budgeted(ls, R), NEW stuck
    PROVE  Budgeted(Swept(ls, stuck), R \ (Due(ls) \ stuck))
<1>1. LeasesFit(ls) /\ R = Leased(ls)
  BY DEF Budgeted
<1> QED
  BY <1>1, SweptFits, BudgetShrinks

\* A lease that a capture gets is within the budget it was admitted to.
LEMMA TicketBudget ==
    ASSUME NEW ls, NEW R, Budgeted(ls, R), NEW c \in Captures, Admitted(ls, c),
           NEW l \in Leases, ls[c].files \subseteq l.files, l.files \subseteq Files(c),
           ~l.on => l = NoLease
    PROVE  Budgeted([ls EXCEPT ![c] = l], R \cup l.files)
<1> DEFINE more == [ls EXCEPT ![c] = l]
           Q == R \cup l.files
<1>1. LeasesFit(ls) /\ R = Leased(ls) /\ R \subseteq AllFiles
  BY FilesAreFinite DEF Budgeted, LeasesFit, Leased
<1>2. more[c] = l /\ \A d \in Captures : d # c => more[d] = ls[d]
  BY <1>1 DEF LeasesFit
<1>3. LeasesFit(more)
  BY <1>1, <1>2 DEF LeasesFit
<1> HIDE DEF more
<1>4. \A f : f \in Leased(more) <=> f \in Q
  BY <1>1, <1>2, LeaseHolds
<1>5. ActiveTickets(more) \subseteq ActiveTickets(ls) \cup {c}
  BY <1>2 DEF ActiveTickets
<1>6. /\ IsFiniteSet(ActiveTickets(ls)) /\ Cardinality(ActiveTickets(ls)) < MaxTickets
      /\ Cardinality(ActiveTickets(ls)) \in Nat
  BY FS_CardinalityType DEF Budgeted, Admitted
<1>7. IsFiniteSet(ActiveTickets(more)) /\ Cardinality(ActiveTickets(more)) <= MaxTickets
  <2> DEFINE A == ActiveTickets(ls) \cup {c}
  <2>1. IsFiniteSet(A) /\ Cardinality(A) <= Cardinality(ActiveTickets(ls)) + 1
    BY <1>6, FS_AddElement
  <2>2. IsFiniteSet(ActiveTickets(more)) /\ Cardinality(ActiveTickets(more)) <= Cardinality(A)
    BY <1>5, <2>1, FS_Subset
  <2>3. Cardinality(A) \in Nat /\ Cardinality(ActiveTickets(more)) \in Nat
    BY <2>1, <2>2, FS_CardinalityType
  <2>4. MaxTickets \in Nat
    BY RemoteAssumption DEF RemoteAssumption
  <2> QED
    BY <1>6, <2>1, <2>2, <2>3, <2>4
<1>8. IsFiniteSet(Q) /\ Bytes(Q) <= MaxTransferBytes
  <2>1. IsFiniteSet(R) /\ IsFiniteSet(Files(c)) /\ R \cup Files(c) \subseteq AllFiles
    BY <1>1, FilesAreFinite DEF Budgeted
  <2>2. IsFiniteSet(R \cup Files(c)) /\ Bytes(R \cup Files(c)) <= Bytes(R) + Bytes(Files(c))
    BY <2>1, BytesJoin
  <2>3. IsFiniteSet(Q) /\ Bytes(Q) <= Bytes(R \cup Files(c))
    BY <2>1, <2>2, BytesShrink
  <2>4. Bytes(Files(c)) + Bytes(R) <= MaxTransferBytes
    BY <1>1 DEF Admitted
  <2>5. /\ Bytes(R) \in Nat /\ Bytes(Files(c)) \in Nat /\ Bytes(R \cup Files(c)) \in Nat
        /\ Bytes(Q) \in Nat /\ MaxTransferBytes \in Nat
    BY <2>1, <2>2, <2>3, BytesNat, RemoteAssumption DEF RemoteAssumption
  <2> QED
    BY <2>2, <2>3, <2>4, <2>5
<1> QED
  BY <1>3, <1>4, <1>7, <1>8 DEF Budgeted, more

-----------------------------------------------------------------------------
(* The initial state, and steps that leave the calls as they are *)

LEMMA RemoteInvInit == RemoteInit => RemoteInv
<1> SUFFICES ASSUME RemoteInit PROVE RemoteInv
  OBVIOUS
<1>1. /\ queue = <<>> /\ kernel = Nothing /\ registry = {} /\ leases = [c \in Captures |-> NoLease]
      /\ timer = [armed |-> FALSE, fired |-> "none"]
      /\ parent = [document |-> 0, ui |-> 0, implementation |-> 0]
      /\ remote = [trouble |-> 0, unscheduled |-> FALSE]
      /\ replies = [c \in Captures |-> Nothing]
  BY DEF RemoteInit
<1>2. \A c \in Captures : /\ caller[c].pc = "idle" /\ caller[c].calls = 0 /\ ~caller[c].ticket
                          /\ leases[c] = NoLease
  BY DEF RemoteInit
<1>3. RemoteTypes
  <2>1. caller \in [Captures -> Clients]
    BY DEF RemoteInit, Clients, CallerPcs
  <2> QED
    BY <1>1, <2>1, RemoteAssumption DEF RemoteTypes, RemoteAssumption
<1>4. LeasesFit(leases) /\ ActiveTickets(leases) = {} /\ Leased(leases) = {}
  BY <1>1, NoLeaseFits DEF LeasesFit, ActiveTickets, Leased
<1>5. Budgeted(leases, registry) /\ TimerIsSet
  <2>1. IsFiniteSet({}) /\ Cardinality({}) = 0 /\ Bytes({}) = 0
    BY FS_EmptySet, EmptySum DEF Bytes
  <2>2. MaxTickets \in Nat /\ MaxTransferBytes \in Nat
    BY RemoteAssumption DEF RemoteAssumption
  <2>3. Cardinality(ActiveTickets(leases)) = 0 /\ IsFiniteSet(ActiveTickets(leases))
    BY <1>4, <2>1
  <2>4. Bytes(registry) = 0 /\ IsFiniteSet(registry) /\ registry = Leased(leases)
    BY <1>1, <1>4, <2>1
  <2> QED
    BY <1>4, <2>2, <2>3, <2>4 DEF Budgeted, TimerIsSet
<1>6. RequestsAreRelevant /\ OneCapture
  BY <1>1 DEF RequestsAreRelevant, OneCapture
<1>7. CallsAreCounted /\ ResultsAreVerified
  BY <1>1, <1>2 DEF CallsAreCounted, Counted, ResultsAreVerified, Verified, Answered, CallerAt
<1> QED
  BY <1>3, <1>5, <1>6, <1>7 DEF RemoteInv

\* What the invariant says of calls, answers and results.
CallsInv == RequestsAreRelevant /\ OneCapture /\ ResultsAreVerified

SameRequest(r, s) == r.op = s.op /\ r.client = s.client /\ r.call = s.call

\* Nothing comes to a client, and no lease to one without.
LEMMA CallsRest ==
    ASSUME CallsInv, UNCHANGED <<caller, queue, replies>>,
           kernel' = kernel \/ (kernel # Nothing /\ SameRequest(kernel', kernel)),
           \A c \in Captures : leases[c] = NoLease => leases'[c] = NoLease,
           RemoteTypes
    PROVE  CallsInv'
<1>1. \A c \in Captures : Answered(c, "releasing")' = Answered(c, "releasing")
  BY DEF Answered, CallerAt
<1>2. \A c \in Captures : AssetsLeft(c)' = AssetsLeft(c)
  BY DEF AssetsLeft
<1>3. ResultsAreVerified'
  BY <1>1, <1>2 DEF CallsInv, ResultsAreVerified, Verified
<1>4. \A r : Relevant(r, caller, replies, leases) => Relevant(r, caller', replies', leases')
  BY DEF Relevant
<1>5. \A i \in 1..Len(queue') : Relevant(queue'[i], caller', replies', leases')
  BY <1>4 DEF CallsInv, RequestsAreRelevant
<1>6. ASSUME kernel' # Nothing PROVE Relevant(kernel', caller', replies', leases')
  <2>1. kernel # Nothing /\ SameRequest(kernel', kernel)
    BY <1>6 DEF SameRequest
  <2>2. Relevant(kernel, caller', replies', leases')
    BY <1>4, <2>1 DEF CallsInv, RequestsAreRelevant
  <2>3. kernel'.op = kernel.op /\ kernel'.client = kernel.client /\ kernel'.call = kernel.call
    BY <2>1 DEF SameRequest
  <2> QED
    BY <2>2, <2>3 DEF Relevant
<1>7. RequestsAreRelevant'
  BY <1>5, <1>6 DEF RequestsAreRelevant
<1>8. OneCapture'
  BY DEF CallsInv, OneCapture, Captured, SameRequest
<1> QED
  BY <1>3, <1>7, <1>8 DEF CallsInv

\* The kernel is done with a request.
LEMMA CallsReply ==
    ASSUME RemoteTypes, CallsAreCounted, CallsInv, kernel # Nothing, NEW ok \in BOOLEAN, Reply(ok),
           UNCHANGED <<caller, queue>>,
           \A c \in Captures : leases[c] = NoLease => \/ leases'[c] = NoLease
                                                     \/ Captured(kernel, c),
           kernel.op = "release" /\ ok => leases'[kernel.client] = NoLease
    PROVE  CallsInv' /\ kernel' = Nothing /\ replies' \in [Captures -> Answers \cup {Nothing}]
<1> DEFINE k == kernel.client
           told == caller[k].pc \in Awaiting /\ caller[k].calls = kernel.call
<1>1. /\ kernel \in Runs /\ k \in Captures /\ kernel.op \in RequestOps
      /\ Relevant(kernel, caller, replies, leases) /\ kernel' = Nothing
  BY DEF RemoteTypes, Runs, CallsInv, RequestsAreRelevant, Reply
<1>2. PICK answer \in Answers :
         answer.ok = ok /\ replies' = IF told THEN [replies EXCEPT ![k] = answer] ELSE replies
  <2> DEFINE a == [op |-> kernel.op, ok |-> ok, document |->
                      IF kernel.op = "capture" THEN kernel.document ELSE parent.document]
  <2>1. a \in Answers /\ a.ok = ok
    BY <1>1 DEF RemoteTypes, Runs, Answers
  <2>2. replies' = IF told THEN [replies EXCEPT ![k] = a] ELSE replies
    BY DEF Reply
  <2> HIDE DEF a
  <2> QED
    BY <2>1, <2>2
<1> HIDE DEF told
<1>3. replies \in [Captures -> Answers \cup {Nothing}]
  BY DEF RemoteTypes
<1>4. replies' \in [Captures -> Answers \cup {Nothing}]
  BY <1>2, <1>3
<1>5. \A c \in Captures : replies'[c] = replies[c] \/ (c = k /\ told /\ replies'[c] = answer)
  BY <1>1, <1>2, <1>3
<1>6. \A i \in 1..Len(queue) : Relevant(queue[i], caller, replies, leases)
  BY DEF CallsInv, RequestsAreRelevant
<1>7. kernel.op = OpOf(caller[k].pc) \/ ~told
  BY <1>1 DEF Relevant, told
<1>8. \A i \in 1..Len(queue) : Captured(queue[i], k) => ~told /\ kernel.op # "capture"
  <2>1. SUFFICES ASSUME NEW i \in 1..Len(queue), Captured(queue[i], k)
                 PROVE  ~told /\ kernel.op # "capture"
    OBVIOUS
  <2>2. kernel.op # "capture"
    BY <1>1, <2>1 DEF CallsInv, OneCapture, Captured
  <2>3. Relevant(queue[i], caller, replies, leases)
    BY <1>6
  <2>4. caller[k].pc \in {"capturing", "failed"}
    BY <2>1, <2>3 DEF Relevant, Captured
  <2>5. ~told
    BY <1>7, <2>2, <2>4 DEF told, OpOf, Awaiting
  <2> QED
    BY <2>2, <2>5
<1>9. \A i \in 1..Len(queue) : Relevant(queue[i], caller', replies', leases')
  <2>1. SUFFICES ASSUME NEW i \in 1..Len(queue)
                 PROVE  Relevant(queue[i], caller', replies', leases')
    OBVIOUS
  <2> DEFINE c == queue[i].client
  <2>2. c \in Captures /\ Relevant(queue[i], caller, replies, leases)
    BY <1>6 DEF Relevant
  <2>3. ASSUME queue[i].op = "capture" PROVE replies'[c] = replies[c] /\ leases'[c] = NoLease
    <3>1. leases[c] = NoLease
      BY <2>2, <2>3 DEF Relevant
    <3>2. c = k => ~told /\ kernel.op # "capture"
      BY <1>8, <2>3 DEF Captured
    <3> QED
      BY <1>5, <2>2, <3>1, <3>2 DEF Captured
  <2> QED
    BY <2>2, <2>3 DEF Relevant
<1>10. OneCapture' /\ RequestsAreRelevant'
  BY <1>1, <1>9 DEF CallsInv, OneCapture, RequestsAreRelevant
<1>11. \A c \in Captures : Verified(c)'
  <2>1. SUFFICES ASSUME NEW c \in Captures PROVE Verified(c)'
    OBVIOUS
  <2>2. Verified(c) /\ AssetsLeft(c)' = AssetsLeft(c)
    BY DEF CallsInv, ResultsAreVerified, AssetsLeft
  <2>3. ASSUME caller[c].pc \in {"returned", "idle", "releasing"}, Captured(kernel, c) PROVE FALSE
    <3>1. caller[c].pc \in {"capturing", "failed"}
      BY <1>1, <2>3 DEF Relevant, Captured
    <3> QED
      BY <2>3, <3>1
  <2>4. ASSUME caller[c].pc = "releasing", replies'[c] # Nothing, replies'[c].ok
        PROVE  leases'[c] = NoLease
    <3>1. CASE replies'[c] = replies[c]
      BY <2>2, <2>3, <2>4, <3>1 DEF Verified, Answered, CallerAt
    <3>2. CASE c = k /\ told /\ replies'[c] = answer
      <4>1. kernel.op = "release"
        BY <1>7, <2>4, <3>2 DEF OpOf
      <4> QED
        BY <1>2, <2>4, <3>2, <4>1
    <3> QED
      BY <1>5, <3>1, <3>2
  <2> QED
    BY <2>2, <2>3, <2>4 DEF Verified, Answered, CallerAt
<1> QED
  BY <1>1, <1>4, <1>10, <1>11 DEF CallsInv, ResultsAreVerified

\* The kernel takes the request in front.
LEMMA CallsBegin ==
    ASSUME RemoteTypes, CallsInv, KernelBegins,
           \A c \in Captures : leases[c] = NoLease => leases'[c] = NoLease
    PROVE  CallsInv' /\ queue' \in Seq(Requests) /\ kernel' \in Runs
<1>1. /\ queue \in Seq(Requests) /\ queue # <<>> /\ queue' = Tail(queue) /\ kernel = Nothing
      /\ UNCHANGED <<caller, replies>>
  BY DEF RemoteTypes, KernelBegins
<1>2. /\ queue' \in Seq(Requests) /\ 1 \in 1..Len(queue) /\ Len(queue') = Len(queue) - 1
      /\ Len(queue) \in Nat /\ Head(queue) = queue[1] /\ queue[1] \in Requests
      /\ \A i \in 1..Len(queue') : i + 1 \in 1..Len(queue) /\ queue'[i] = queue[i + 1]
  BY <1>1
<1>3. kernel' = [op |-> queue[1].op, client |-> queue[1].client, call |-> queue[1].call,
                 document |-> 0, ui |-> 0, states |-> 0, failed |-> FALSE, stage |-> "begun"]
  BY <1>2 DEF KernelBegins
<1>4. kernel' \in Runs
  <2>1. queue[1].op \in RequestOps /\ queue[1].client \in Captures /\ queue[1].call \in 1..4
    BY <1>2 DEF Requests
  <2>2. 0 \in 0..MaxStates
    BY RemoteAssumption DEF RemoteAssumption
  <2> QED
    BY <1>3, <2>1, <2>2 DEF Runs
<1>5. \A r : Relevant(r, caller, replies, leases) => Relevant(r, caller', replies', leases')
  BY <1>1 DEF Relevant
<1>6. RequestsAreRelevant'
  <2>1. \A i \in 1..Len(queue) : Relevant(queue[i], caller', replies', leases')
    BY <1>5 DEF CallsInv, RequestsAreRelevant
  <2>2. Relevant(kernel', caller', replies', leases')
    BY <1>2, <1>3, <2>1 DEF Relevant
  <2> QED
    BY <1>2, <2>1, <2>2 DEF RequestsAreRelevant
<1>7. OneCapture'
  <2>1. SUFFICES ASSUME NEW c \in Captures
        PROVE  /\ \A i, j \in 1..Len(queue') :
                     Captured(queue'[i], c) /\ Captured(queue'[j], c) => i = j
               /\ Captured(kernel', c) => \A i \in 1..Len(queue') : ~Captured(queue'[i], c)
    BY DEF OneCapture
  <2>2. \A i, j \in 1..Len(queue) : Captured(queue[i], c) /\ Captured(queue[j], c) => i = j
    BY DEF CallsInv, OneCapture
  <2>3. Captured(kernel', c) <=> Captured(queue[1], c)
    BY <1>3 DEF Captured
  <2>4. ASSUME NEW i \in 1..Len(queue'), NEW j \in 1..Len(queue'),
               Captured(queue'[i], c), Captured(queue'[j], c)
        PROVE  i = j
    <3>1. i + 1 = j + 1
      BY <1>2, <2>2, <2>4
    <3> QED
      BY <3>1
  <2>5. ASSUME NEW i \in 1..Len(queue'), Captured(kernel', c), Captured(queue'[i], c)
        PROVE  FALSE
    <3>1. i + 1 = 1
      BY <1>2, <2>2, <2>3, <2>5
    <3> QED
      BY <3>1
  <2> QED
    BY <2>4, <2>5
<1>8. ResultsAreVerified'
  <2>1. \A c \in Captures : AssetsLeft(c)' = AssetsLeft(c)
    BY <1>1 DEF AssetsLeft
  <2> QED
    BY <1>1, <2>1 DEF CallsInv, ResultsAreVerified, Verified, Answered, CallerAt
<1> QED
  BY <1>2, <1>4, <1>6, <1>7, <1>8 DEF CallsInv

-----------------------------------------------------------------------------
(* A client's steps *)

\* A client that asks for something has no capture under way, and needs a lease for nothing.
LEMMA CallsInvoke ==
    ASSUME RemoteTypes, CallsAreCounted, CallsInv, NEW c \in Captures, NEW X \in Clients,
           NEW op \in RequestOps, caller' = [caller EXCEPT ![c] = X],
           queue' = Append(queue, [op |-> op, client |-> c, call |-> caller[c].calls + 1]),
           replies' = [replies EXCEPT ![c] = Nothing], UNCHANGED <<kernel, leases>>,
           X.calls = caller[c].calls + 1, Counted(X), X.pc \in Awaiting, op = OpOf(X.pc),
           X.pc = "capturing" => caller[c].pc = "idle",
           caller[c].pc # "failed", caller[c].pc = "capturing" => replies[c] # Nothing,
           X.pc = "releasing" => X.live = X.document,
           X.pc \in {"inspecting", "releasing"} => DOMAIN WantedAssets[c] \subseteq X.got
    PROVE  CallsInv' /\ CallsAreCounted' /\ caller' \in [Captures -> Clients]
           /\ queue' \in Seq(Requests) /\ replies' \in [Captures -> Answers \cup {Nothing}]
<1> DEFINE r == [op |-> op, client |-> c, call |-> caller[c].calls + 1]
<1>1. /\ caller \in [Captures -> Clients] /\ queue \in Seq(Requests)
      /\ replies \in [Captures -> Answers \cup {Nothing}]
  BY DEF RemoteTypes
<1>2. /\ caller' \in [Captures -> Clients] /\ replies' \in [Captures -> Answers \cup {Nothing}]
      /\ caller'[c] = X /\ replies'[c] = Nothing
      /\ \A d \in Captures : d # c => caller'[d] = caller[d] /\ replies'[d] = replies[d]
  BY <1>1
<1>3. X.calls \in 0..4 /\ caller[c].calls \in 0..4 /\ X.pc \in CallerPcs
  BY <1>1 DEF Clients
<1>4. r \in Requests /\ r.op = op /\ r.client = c /\ r.call = X.calls
  BY <1>3 DEF Requests
<1> HIDE DEF r
<1>5. /\ queue' = Append(queue, r) /\ queue' \in Seq(Requests)
      /\ Len(queue) \in Nat /\ Len(queue') = Len(queue) + 1 /\ queue'[Len(queue) + 1] = r
      /\ \A i \in 1..Len(queue) : queue'[i] = queue[i] /\ queue[i] \in Requests
  BY <1>1, <1>4 DEF r
<1>6. \A d \in Captures : Counted(caller'[d])
  BY <1>2 DEF CallsAreCounted
<1>7. \A s : s.call \in 1..4 /\ Relevant(s, caller, replies, leases) =>
                 ~Captured(s, c) /\ (s.client = c => s.call <= caller[c].calls)
  BY <1>1 DEF Relevant, Captured
<1>8. \A s : s.call \in 1..4 /\ Relevant(s, caller, replies, leases) =>
                 Relevant(s, caller', replies', leases')
  <2>1. SUFFICES ASSUME NEW s, s.call \in 1..4, Relevant(s, caller, replies, leases)
                 PROVE  Relevant(s, caller', replies', leases')
    OBVIOUS
  <2>2. CASE s.client = c
    <3>1. s.op # "capture" /\ s.call <= caller[c].calls
      BY <1>7, <2>1, <2>2 DEF Captured
    <3>2. s.call < X.calls
      BY <1>3, <2>1, <3>1
    <3> QED
      BY <1>2, <1>3, <2>1, <2>2, <3>1, <3>2 DEF Relevant
  <2>3. CASE s.client # c
    BY <1>2, <2>1, <2>3 DEF Relevant
  <2> QED
    BY <2>2, <2>3
<1>9. Relevant(r, caller', replies', leases')
  <2>1. op = "capture" => X.pc = "capturing" /\ leases[c] = NoLease
    <3>1. op = "capture" => X.pc = "capturing"
      BY DEF OpOf
    <3>2. Verified(c)
      BY DEF CallsInv, ResultsAreVerified
    <3> QED
      BY <3>1, <3>2 DEF Verified
  <2> QED
    BY <1>2, <1>3, <1>4, <2>1 DEF Relevant
<1>10. RequestsAreRelevant'
  <2>1. \A i \in 1..Len(queue) : queue[i].call \in 1..4
    BY <1>5 DEF Requests
  <2>2. \A i \in 1..Len(queue) : Relevant(queue'[i], caller', replies', leases')
    BY <1>5, <1>8, <2>1 DEF CallsInv, RequestsAreRelevant
  <2>3. ASSUME NEW i \in 1..Len(queue')
        PROVE  Relevant(queue'[i], caller', replies', leases')
    <3>1. i \in 1..Len(queue) \/ (i = Len(queue) + 1 /\ queue'[i] = r)
      BY <1>5
    <3> QED
      BY <1>9, <2>2, <3>1
  <2>4. ASSUME kernel # Nothing PROVE Relevant(kernel, caller', replies', leases')
    <3>1. kernel.call \in 1..4
      BY <2>4 DEF RemoteTypes, Runs
    <3> QED
      BY <1>8, <2>4, <3>1 DEF CallsInv, RequestsAreRelevant
  <2> QED
    BY <2>3, <2>4 DEF RequestsAreRelevant
<1>11. OneCapture'
  <2>1. \A i \in 1..Len(queue) : ~Captured(queue[i], c)
    BY <1>5, <1>7 DEF CallsInv, RequestsAreRelevant, Requests
  <2>2. kernel # Nothing => ~Captured(kernel, c)
    BY <1>7 DEF CallsInv, RequestsAreRelevant, RemoteTypes, Runs
  <2>3. \A d \in Captures : Captured(r, d) => d = c
    BY <1>4 DEF Captured
  <2>4. SUFFICES ASSUME NEW d \in Captures
        PROVE  /\ \A i, j \in 1..Len(queue') :
                     Captured(queue'[i], d) /\ Captured(queue'[j], d) => i = j
               /\ kernel # Nothing /\ Captured(kernel, d) =>
                     \A i \in 1..Len(queue') : ~Captured(queue'[i], d)
    BY DEF OneCapture
  <2>5. /\ \A i, j \in 1..Len(queue) : Captured(queue[i], d) /\ Captured(queue[j], d) => i = j
        /\ kernel # Nothing /\ Captured(kernel, d) =>
              \A i \in 1..Len(queue) : ~Captured(queue[i], d)
    BY DEF CallsInv, OneCapture
  <2>6. \A i \in 1..Len(queue') : \/ i \in 1..Len(queue) /\ queue'[i] = queue[i]
                                  \/ i = Len(queue) + 1 /\ queue'[i] = r
    BY <1>5
  <2> QED
    BY <2>1, <2>2, <2>3, <2>5, <2>6
<1>12. ResultsAreVerified'
  <2>1. \A d \in Captures : d # c => Verified(d)'
    BY <1>2 DEF CallsInv, ResultsAreVerified, Verified, Answered, CallerAt, AssetsLeft
  <2>2. Verified(c)'
    BY <1>2 DEF Verified, Answered, CallerAt, AssetsLeft, Awaiting
  <2> QED
    BY <2>1, <2>2 DEF ResultsAreVerified
<1> QED
  BY <1>2, <1>5, <1>6, <1>10, <1>11, <1>12 DEF CallsInv, CallsAreCounted

\* A client that is done with a call, or gives up for good.
LEMMA CallsSettle ==
    ASSUME RemoteTypes, CallsAreCounted, CallsInv, NEW c \in Captures, NEW X \in Clients,
           caller' = [caller EXCEPT ![c] = X], UNCHANGED <<queue, replies, kernel, leases>>,
           X.calls = caller[c].calls, Counted(X), X.pc \in {"download", "returned", "failed"},
           X.pc # "failed" => /\ caller[c].pc # "failed"
                              /\ caller[c].pc = "capturing" => replies[c] # Nothing,
           X.pc = "returned" => /\ X.live = X.document /\ leases[c] = NoLease
                                /\ DOMAIN WantedAssets[c] \subseteq X.got
    PROVE  CallsInv' /\ CallsAreCounted' /\ caller' \in [Captures -> Clients]
<1>1. caller \in [Captures -> Clients] /\ queue \in Seq(Requests)
  BY DEF RemoteTypes
<1>2. /\ caller' \in [Captures -> Clients] /\ caller'[c] = X
      /\ \A d \in Captures : d # c => caller'[d] = caller[d]
  BY <1>1
<1>3. \A d \in Captures : Counted(caller'[d])
  BY <1>2 DEF CallsAreCounted
<1>4. \A s : Relevant(s, caller, replies, leases) => Relevant(s, caller', replies', leases')
  <2>1. SUFFICES ASSUME NEW s, Relevant(s, caller, replies, leases)
                 PROVE  Relevant(s, caller', replies', leases')
    OBVIOUS
  <2>2. CASE s.client = c
    BY <1>2, <2>1, <2>2 DEF Relevant, Awaiting
  <2>3. CASE s.client # c
    BY <1>2, <2>1, <2>3 DEF Relevant
  <2> QED
    BY <2>2, <2>3
<1>5. RequestsAreRelevant' /\ OneCapture'
  BY <1>4 DEF CallsInv, RequestsAreRelevant, OneCapture
<1>6. ResultsAreVerified'
  <2>1. \A d \in Captures : d # c => Verified(d)'
    BY <1>2 DEF CallsInv, ResultsAreVerified, Verified, Answered, CallerAt, AssetsLeft
  <2>2. Verified(c)'
    BY <1>2 DEF Verified, Answered, CallerAt, AssetsLeft
  <2> QED
    BY <2>1, <2>2 DEF ResultsAreVerified
<1> QED
  BY <1>2, <1>3, <1>5, <1>6 DEF CallsInv, CallsAreCounted

-----------------------------------------------------------------------------
(* What a client's steps change of it *)

ClientAt(pc, n, t, d, l, g) ==
    [pc |-> pc, calls |-> n, ticket |-> t, document |-> d, live |-> l, got |-> g]
MovedTo(Y, pc) == [Y EXCEPT !.pc = pc]
GaveUp(Y, no) == [Y EXCEPT !.ticket = no, !.pc = "abandoning", !.calls = @ + 1]
Learned(Y, yes, d) == [Y EXCEPT !.ticket = yes, !.document = d]
Fetched(Y, a) == [Y EXCEPT !.got = @ \cup {a}]
Released(Y, no) == [Y EXCEPT !.ticket = no]
IsClientAt(X, pc, n, t, d, l, g) ==
    /\ X.pc = pc /\ X.calls = n /\ (X.ticket <=> t) /\ X.document = d /\ X.live = l /\ X.got = g
    /\ pc \in CallerPcs /\ n \in 0..4 /\ d \in 0..1 /\ l \in 0..1 /\ g \in SUBSET Nat
           => X \in Clients

LEMMA ClientIs ==
    ASSUME NEW pc, NEW n, NEW t \in BOOLEAN, NEW d, NEW l, NEW g
    PROVE  IsClientAt(ClientAt(pc, n, t, d, l, g), pc, n, t, d, l, g)
BY DEF IsClientAt, ClientAt, Clients

LEMMA ClientUpdated ==
    ASSUME NEW Y \in Clients, NEW pc, NEW t, NEW d, NEW a
    PROVE  /\ MovedTo(Y, pc) = ClientAt(pc, Y.calls, Y.ticket, Y.document, Y.live, Y.got)
           /\ GaveUp(Y, t) = ClientAt("abandoning", Y.calls + 1, t, Y.document, Y.live, Y.got)
           /\ Learned(Y, t, d) = ClientAt(Y.pc, Y.calls, t, d, Y.live, Y.got)
           /\ Fetched(Y, a) = ClientAt(Y.pc, Y.calls, Y.ticket, Y.document, Y.live, Y.got \cup {a})
           /\ Released(Y, t) = ClientAt(Y.pc, Y.calls, t, Y.document, Y.live, Y.got)
<1> DEFINE T == [Y EXCEPT !.ticket = t]
           A == [T EXCEPT !.pc = "abandoning"]
<1>1. /\ GaveUp(Y, t) = [A EXCEPT !.calls = Y.calls + 1]
      /\ Learned(Y, t, d) = [T EXCEPT !.document = d]
      /\ Fetched(Y, a) = [Y EXCEPT !.got = Y.got \cup {a}] /\ Released(Y, t) = T
  BY DEF GaveUp, Learned, Fetched, Released
<1>2. T = ClientAt(Y.pc, Y.calls, t, Y.document, Y.live, Y.got)
  BY DEF Clients, ClientAt
<1>3. /\ MovedTo(Y, pc) = ClientAt(pc, Y.calls, Y.ticket, Y.document, Y.live, Y.got)
      /\ [Y EXCEPT !.got = Y.got \cup {a}]
             = ClientAt(Y.pc, Y.calls, Y.ticket, Y.document, Y.live, Y.got \cup {a})
  BY DEF MovedTo, Clients, ClientAt
<1> HIDE DEF T
<1>4. /\ A = ClientAt("abandoning", Y.calls, t, Y.document, Y.live, Y.got)
      /\ [T EXCEPT !.document = d] = ClientAt(Y.pc, Y.calls, t, d, Y.live, Y.got)
  BY <1>2 DEF ClientAt
<1> HIDE DEF A
<1>5. [A EXCEPT !.calls = Y.calls + 1]
        = ClientAt("abandoning", Y.calls + 1, t, Y.document, Y.live, Y.got)
  BY <1>4 DEF ClientAt
<1> QED
  BY <1>1, <1>2, <1>3, <1>4, <1>5

\* The same, field by field.
LEMMA ClientMoves ==
    ASSUME NEW Y \in Clients
    PROVE  /\ \A pc : IsClientAt(MovedTo(Y, pc), pc, Y.calls, Y.ticket, Y.document, Y.live, Y.got)
           /\ IsClientAt(GaveUp(Y, FALSE), "abandoning", Y.calls + 1, FALSE, Y.document, Y.live,
                         Y.got)
           /\ \A d : IsClientAt(Learned(Y, TRUE, d), Y.pc, Y.calls, TRUE, d, Y.live, Y.got)
           /\ \A a : IsClientAt(Fetched(Y, a), Y.pc, Y.calls, Y.ticket, Y.document, Y.live,
                                Y.got \cup {a})
           /\ IsClientAt(Released(Y, FALSE), Y.pc, Y.calls, FALSE, Y.document, Y.live, Y.got)
<1>1. Y.ticket \in BOOLEAN
  BY DEF Clients
<1>2. ASSUME NEW t \in BOOLEAN, NEW d
      PROVE  /\ IsClientAt(GaveUp(Y, t), "abandoning", Y.calls + 1, t, Y.document, Y.live, Y.got)
             /\ IsClientAt(Learned(Y, t, d), Y.pc, Y.calls, t, d, Y.live, Y.got)
             /\ IsClientAt(Released(Y, t), Y.pc, Y.calls, t, Y.document, Y.live, Y.got)
  <2>1. /\ GaveUp(Y, t) = ClientAt("abandoning", Y.calls + 1, t, Y.document, Y.live, Y.got)
        /\ Learned(Y, t, d) = ClientAt(Y.pc, Y.calls, t, d, Y.live, Y.got)
        /\ Released(Y, t) = ClientAt(Y.pc, Y.calls, t, Y.document, Y.live, Y.got)
    BY <1>2, ClientUpdated
  <2> QED
    BY <1>2, <2>1, ClientIs
<1>3. ASSUME NEW pc
      PROVE  IsClientAt(MovedTo(Y, pc), pc, Y.calls, Y.ticket, Y.document, Y.live, Y.got)
  <2>1. MovedTo(Y, pc) = ClientAt(pc, Y.calls, Y.ticket, Y.document, Y.live, Y.got)
    BY ClientUpdated
  <2> QED
    BY <1>1, <2>1, ClientIs
<1>4. ASSUME NEW a
      PROVE  IsClientAt(Fetched(Y, a), Y.pc, Y.calls, Y.ticket, Y.document, Y.live,
                        Y.got \cup {a})
  BY <1>1, ClientIs, ClientUpdated
<1> DEFINE no == FALSE
           yes == TRUE
<1>5. no \in BOOLEAN /\ yes \in BOOLEAN
  OBVIOUS
<1> HIDE DEF no, yes
<1>6. /\ IsClientAt(GaveUp(Y, no), "abandoning", Y.calls + 1, no, Y.document, Y.live, Y.got)
      /\ \A d : IsClientAt(Learned(Y, yes, d), Y.pc, Y.calls, yes, d, Y.live, Y.got)
      /\ IsClientAt(Released(Y, no), Y.pc, Y.calls, no, Y.document, Y.live, Y.got)
  BY <1>2, <1>5
<1> USE DEF no, yes
<1> QED
  BY <1>3, <1>4, <1>6

\* A client that goes on knows what it knew.
LEMMA ClientKept ==
    ASSUME NEW Y \in Clients,
           NEW pc \in {"download", "returned", "failed"}
    PROVE  LET X == MovedTo(Y, pc) IN
           /\ X \in Clients /\ X.pc = pc /\ X.calls = Y.calls /\ X.document = Y.document
           /\ X.live = Y.live /\ X.got = Y.got
<1>1. /\ Y.calls \in 0..4 /\ Y.document \in 0..1 /\ Y.live \in 0..1 /\ Y.got \in SUBSET Nat
      /\ pc \in CallerPcs
  BY DEF Clients, CallerPcs
<1>2. IsClientAt(MovedTo(Y, pc), pc, Y.calls, Y.ticket, Y.document, Y.live, Y.got)
  BY ClientMoves
<1> QED
  BY <1>1, <1>2 DEF IsClientAt

Abandoned(C, c) ==
    [[C EXCEPT ![c].ticket = FALSE] EXCEPT ![c].pc = "abandoning", ![c].calls = @ + 1]

LEMMA ClientGivesUp ==
    ASSUME NEW C \in [Captures -> Clients], NEW c \in Captures
    PROVE  Abandoned(C, c) = [C EXCEPT ![c] = GaveUp(C[c], FALSE)]
BY ZenonT(60) DEF GaveUp, Abandoned

LEMMA ClientSettles ==
    ASSUME NEW c \in Captures, caller \in [Captures -> Clients], NEW Y \in Clients, NEW C,
           C = [caller EXCEPT ![c] = Y], NEW pc, Settles(c, C, pc)
    PROVE  caller' = [caller EXCEPT ![c] = MovedTo(Y, pc)] /\ UNCHANGED <<queue, replies>>
<1>1. C \in [Captures -> Clients] /\ C[c] = Y
  OBVIOUS
<1>2. caller' = [C EXCEPT ![c].pc = pc] /\ UNCHANGED <<queue, replies>>
  BY DEF Settles
<1>3. [C EXCEPT ![c].pc = pc] = [C EXCEPT ![c] = MovedTo(C[c], pc)]
  BY SMTT(60), <1>1 DEF MovedTo
<1>4. caller' = [C EXCEPT ![c] = MovedTo(Y, pc)]
  BY <1>1, <1>2, <1>3
<1> QED
  BY <1>2, <1>4

-----------------------------------------------------------------------------
(* The steps of the clients keep the invariant *)

\* What a client's step leaves alone, but for the count of the trouble.
KernelRests ==
    /\ UNCHANGED <<kernel, leases, registry, timer, parent>>
    /\ remote' \in [trouble : 0..MaxTrouble, unscheduled : BOOLEAN]
    /\ remote'.unscheduled = remote.unscheduled

LEMMA Resting ==
    ASSUME RemoteInv, KernelRests, CallsInv', CallsAreCounted',
           caller' \in [Captures -> Clients], queue' \in Seq(Requests),
           replies' \in [Captures -> Answers \cup {Nothing}]
    PROVE  RemoteInv'
<1>1. RemoteTypes'
  BY DEF RemoteInv, RemoteTypes, KernelRests
<1>2. Budgeted(leases, registry)'
  BY DEF RemoteInv, KernelRests
<1>3. TimerIsSet'
  BY DEF RemoteInv, KernelRests, TimerIsSet
<1> QED
  BY <1>1, <1>2, <1>3 DEF RemoteInv, CallsInv

LEMMA InvParts ==
    ASSUME RemoteInv
    PROVE  /\ RemoteTypes /\ CallsAreCounted /\ CallsInv
           /\ \A c \in Captures : caller[c] \in Clients /\ Counted(caller[c]) /\ Verified(c)
           /\ KernelUnchanged => KernelRests
<1>1. RemoteTypes /\ CallsAreCounted /\ CallsInv
  BY DEF RemoteInv, CallsInv
<1>2. \A c \in Captures : caller[c] \in Clients /\ Counted(caller[c]) /\ Verified(c)
  BY <1>1 DEF RemoteTypes, CallsAreCounted, CallsInv, ResultsAreVerified
<1>3. KernelUnchanged => KernelRests
  BY <1>1 DEF KernelUnchanged, KernelRests, RemoteTypes
<1> QED
  BY <1>1, <1>2, <1>3

\* A call fails, after which the client may know more than before.
LEMMA CallFailsKeeps ==
    ASSUME RemoteInv, KernelRests, NEW c \in Captures, NEW Y \in Clients,
           Y.pc = caller[c].pc, Y.calls = caller[c].calls,
           Y.pc \notin {"idle", "failed", "returned"},
           Y.ticket => ~(Y.pc = "capturing" /\ replies[c] = Nothing) /\ Y.pc # "abandoning",
           NEW C, C = [caller EXCEPT ![c] = Y], RemoteCallFails(c, C)
    PROVE  RemoteInv'
<1>1. /\ caller \in [Captures -> Clients] /\ Counted(caller[c]) /\ caller[c].calls \in 0..4
      /\ queue \in Seq(Requests) /\ replies \in [Captures -> Answers \cup {Nothing}]
  BY InvParts DEF RemoteTypes, Clients
<1>2. C \in [Captures -> Clients] /\ C[c] = Y
  BY <1>1
<1>3. /\ Y.pc \in CallerPcs /\ Y.calls \in 0..4 /\ Y.ticket \in BOOLEAN /\ Y.document \in 0..1
      /\ Y.live \in 0..1 /\ Y.got \in SUBSET Nat
  BY DEF Clients
<1>4. CASE Y.ticket
  <2> DEFINE X == GaveUp(Y, FALSE)
             op == "release"
             E == [C EXCEPT ![c].ticket = FALSE]
  <2>1. Y.calls \in 1..3 /\ Y.calls + 1 \in 0..4
    BY <1>1, <1>3, <1>4 DEF Counted, CallerPcs
  <2>2. IsClientAt(X, "abandoning", Y.calls + 1, FALSE, Y.document, Y.live, Y.got)
    BY ClientMoves
  <2> HIDE DEF X
  <2>3. /\ X \in Clients /\ X.pc = "abandoning" /\ X.calls = caller[c].calls + 1 /\ ~X.ticket
    BY <1>3, <2>1, <2>2 DEF IsClientAt, CallerPcs
  <2>4. Counted(X)
    BY <1>1, <2>1, <2>3 DEF Counted
  <2> USE DEF X
  <2>5. Invoke(c, E, "abandoning", op)
    BY <1>2, <1>4 DEF RemoteCallFails
  <2>6. caller' = [C EXCEPT ![c] = X]
    <3>1. caller' = Abandoned(C, c)
      BY <2>5 DEF Invoke, Abandoned
    <3> QED
      BY <1>2, <3>1, ClientGivesUp
  <2>7. /\ queue' = Append(queue, [op |-> op, client |-> c, call |-> caller[c].calls + 1])
        /\ replies' = [replies EXCEPT ![c] = Nothing]
    BY <2>5 DEF Invoke
  <2>8. op \in RequestOps /\ op = OpOf(X.pc) /\ X.pc \in Awaiting
    BY <2>3 DEF RequestOps, OpOf, Awaiting
  <2>9. UNCHANGED <<kernel, leases>>
    BY DEF KernelRests
  <2> HIDE DEF X, op
  <2>10. caller' = [caller EXCEPT ![c] = X]
    BY <1>1, <2>6
  <2>11. /\ CallsInv' /\ CallsAreCounted' /\ caller' \in [Captures -> Clients]
         /\ queue' \in Seq(Requests) /\ replies' \in [Captures -> Answers \cup {Nothing}]
    BY <1>4, <2>3, <2>4, <2>7, <2>8, <2>9, <2>10, CallsInvoke, InvParts
  <2> QED
    BY <2>11, Resting
<1>5. CASE ~Y.ticket
  <2> DEFINE X == MovedTo(Y, "failed")
  <2>1. X \in Clients /\ X.pc = "failed" /\ X.calls = caller[c].calls
    BY <1>3, ClientMoves DEF IsClientAt, CallerPcs
  <2>2. Counted(X)
    BY <1>1, <1>3, <2>1 DEF Counted, CallerPcs
  <2>3. caller' = [C EXCEPT ![c] = X] /\ UNCHANGED <<queue, replies, kernel, leases>>
    <3>1. caller' = [C EXCEPT ![c].pc = "failed"] /\ UNCHANGED <<queue, replies, kernel, leases>>
      BY <1>2, <1>5 DEF RemoteCallFails, Settles, KernelRests
    <3>2. [C EXCEPT ![c].pc = "failed"] = [C EXCEPT ![c] = MovedTo(C[c], "failed")]
      BY <1>2 DEF MovedTo
    <3> QED
      BY <1>2, <3>1, <3>2
  <2> HIDE DEF X
  <2>4. caller' = [caller EXCEPT ![c] = X]
    BY <1>1, <2>3
  <2>5. CallsInv' /\ CallsAreCounted' /\ caller' \in [Captures -> Clients]
    BY <2>1, <2>2, <2>3, <2>4, CallsSettle, InvParts
  <2> QED
    BY <1>1, <2>3, <2>5, Resting
<1> QED
  BY <1>3, <1>4, <1>5

\* A call that fails as the client is.
LEMMA CallFails1 ==
    ASSUME RemoteInv, KernelRests, NEW c \in Captures, RemoteCallFails(c, caller),
           caller[c].pc \in {"capturing", "download", "inspecting", "releasing", "abandoning"}
    PROVE  RemoteInv'
<1> DEFINE Y == caller[c]
           C == caller
<1>1. caller \in [Captures -> Clients] /\ Y \in Clients /\ Counted(Y)
  BY InvParts DEF RemoteTypes
<1>2. C = [caller EXCEPT ![c] = Y]
  BY <1>1
<1>3. Y.ticket => ~(Y.pc = "capturing" /\ replies[c] = Nothing) /\ Y.pc # "abandoning"
  BY <1>1 DEF Counted
<1>4. Y.pc = caller[c].pc /\ Y.calls = caller[c].calls /\ Y.pc \notin {"idle", "failed", "returned"}
  OBVIOUS
<1>5. RemoteCallFails(c, C)
  OBVIOUS
<1> HIDE DEF Y, C
<1> QED
  BY <1>1, <1>2, <1>3, <1>4, <1>5, CallFailsKeeps

LEMMA ClientKeeps ==
    ASSUME RemoteInv, NEW c \in Captures, ClientSteps(c) PROVE RemoteInv'
<1>1. /\ caller \in [Captures -> Clients] /\ queue \in Seq(Requests)
      /\ replies \in [Captures -> Answers \cup {Nothing}]
      /\ RemoteTypes /\ CallsAreCounted /\ CallsInv
      /\ caller[c] \in Clients /\ Counted(caller[c]) /\ Verified(c)
      /\ KernelUnchanged => KernelRests
  BY InvParts DEF RemoteTypes
<1>2. /\ caller[c].pc \in CallerPcs /\ caller[c].calls \in 0..4 /\ caller[c].ticket \in BOOLEAN
      /\ caller[c].document \in 0..1 /\ caller[c].live \in 0..1 /\ caller[c].got \in SUBSET Nat
  BY <1>1 DEF Clients
<1>3. replies[c] # Nothing => replies[c] \in Answers /\ replies[c].document \in 0..1
  BY <1>1 DEF Answers
<1> DEFINE o == caller[c]
\* A request with a new position of the client, and one without.
<1>4. ASSUME KernelUnchanged, NEW X \in Clients, NEW op \in RequestOps,
             caller' = [caller EXCEPT ![c] = X],
             queue' = Append(queue, [op |-> op, client |-> c, call |-> caller[c].calls + 1]),
             replies' = [replies EXCEPT ![c] = Nothing],
             X.calls = caller[c].calls + 1, Counted(X), X.pc \in Awaiting, op = OpOf(X.pc),
             X.pc = "capturing" => caller[c].pc = "idle",
             caller[c].pc # "failed", caller[c].pc = "capturing" => replies[c] # Nothing,
             X.pc = "releasing" => X.live = X.document,
             X.pc \in {"inspecting", "releasing"} => DOMAIN WantedAssets[c] \subseteq X.got
      PROVE  RemoteInv'
  <2>1. UNCHANGED <<kernel, leases>>
    BY <1>4 DEF KernelUnchanged
  <2>2. /\ CallsInv' /\ CallsAreCounted' /\ caller' \in [Captures -> Clients]
        /\ queue' \in Seq(Requests) /\ replies' \in [Captures -> Answers \cup {Nothing}]
    BY <1>1, <1>4, <2>1, CallsInvoke
  <2> QED
    BY <1>1, <1>4, <2>2, Resting
<1>5. ASSUME KernelUnchanged, NEW X \in Clients, caller' = [caller EXCEPT ![c] = X],
             UNCHANGED <<queue, replies>>, X.calls = caller[c].calls, Counted(X),
             X.pc \in {"download", "returned", "failed"},
             X.pc # "failed" => /\ caller[c].pc # "failed"
                                /\ caller[c].pc = "capturing" => replies[c] # Nothing,
             X.pc = "returned" => /\ X.live = X.document /\ leases[c] = NoLease
                                  /\ DOMAIN WantedAssets[c] \subseteq X.got
      PROVE  RemoteInv'
  <2>1. UNCHANGED <<queue, replies, kernel, leases>>
    BY <1>5 DEF KernelUnchanged
  <2>2. CallsInv' /\ CallsAreCounted' /\ caller' \in [Captures -> Clients]
    BY <1>1, <1>5, <2>1, CallsSettle
  <2> QED
    BY <1>1, <1>5, <2>1, <2>2, Resting
<1>6. CASE CallCapture(c)
  <2> DEFINE X == [pc |-> "capturing", calls |-> o.calls + 1, ticket |-> o.ticket,
                   document |-> o.document, live |-> o.live, got |-> o.got]
             op == "capture"
  <2>1. o.pc = "idle" /\ o.calls = 0 /\ ~o.ticket /\ KernelUnchanged
    BY <1>1, <1>6 DEF CallCapture, CallerAt, Counted
  <2>2. X \in Clients /\ X.pc = "capturing" /\ X.calls = caller[c].calls + 1 /\ Counted(X)
    BY <1>2, <2>1 DEF Clients, CallerPcs, Counted
  <2>3. /\ caller' = [caller EXCEPT ![c] = X]
        /\ queue' = Append(queue, [op |-> op, client |-> c, call |-> caller[c].calls + 1])
        /\ replies' = [replies EXCEPT ![c] = Nothing]
    BY <1>1, <1>6 DEF CallCapture, Invoke, Clients
  <2>4. op \in RequestOps /\ op = OpOf(X.pc) /\ X.pc \in Awaiting
    BY DEF RequestOps, OpOf, Awaiting
  <2> HIDE DEF X, op
  <2> QED
    BY <1>4, <2>1, <2>2, <2>3, <2>4
<1>7. CASE ReadsCapture(c)
  <2>1. o.pc = "capturing" /\ replies[c] # Nothing /\ KernelUnchanged /\ o.calls = 1 /\ ~o.ticket
    BY <1>1, <1>7 DEF ReadsCapture, Answered, CallerAt, Counted
  <2> DEFINE Y == Learned(o, TRUE, replies[c].document)
             C == [caller EXCEPT ![c].ticket = TRUE, ![c].document = replies[c].document]
  <2>2. /\ Y.pc = "capturing" /\ Y.calls = o.calls /\ Y \in Clients
        /\ C = [caller EXCEPT ![c] = Y]
    <3>1. Y.pc = "capturing" /\ Y.calls = o.calls /\ Y \in Clients
      <4>1. IsClientAt(Y, o.pc, o.calls, TRUE, replies[c].document, o.live, o.got)
        BY <1>1, ClientMoves
      <4> HIDE DEF Y
      <4> QED
        BY <1>2, <1>3, <2>1, <4>1 DEF IsClientAt
    <3>2. C = [caller EXCEPT ![c] = Y]
      BY <1>1 DEF Learned
    <3> QED
      BY <3>1, <3>2
  <2> HIDE DEF Y, C
  <2>3. CASE Settles(c, C, "download")
    <3> DEFINE X == MovedTo(Y, "download")
    <3>1. X \in Clients /\ X.pc = "download" /\ X.calls = caller[c].calls
      BY <2>2, ClientKept
    <3>2. Counted(X)
      BY <2>1, <3>1 DEF Counted
    <3>3. caller' = [caller EXCEPT ![c] = X] /\ UNCHANGED <<queue, replies>>
      BY <1>1, <2>2, <2>3, ClientSettles
    <3> HIDE DEF X
    <3> QED
      BY <1>5, <2>1, <3>1, <3>2, <3>3
  <2>4. CASE RemoteCallFails(c, C)
    <3>1. /\ Y.pc = caller[c].pc /\ Y.calls = caller[c].calls /\ Y.pc = "capturing"
          /\ KernelRests
      BY <1>1, <2>1, <2>2
    <3> QED
      BY <2>1, <2>2, <2>4, <3>1, CallFailsKeeps
  <2>5. CASE RemoteCallFails(c, caller)
    BY <1>1, <2>1, <2>5, CallFails1
  <2> QED
    BY <1>7, <2>3, <2>4, <2>5 DEF ReadsCapture, C
<1>8. CASE Downloads(c)
  <2>1. o.pc = "download" /\ KernelUnchanged /\ o.calls = 1
    BY <1>1, <1>8 DEF Downloads, CallerAt, Counted
  <2> DEFINE a == Min(AssetsLeft(c))
  <2>2. CASE Settles(c, [caller EXCEPT ![c].got = @ \cup {a}], "download") /\ <<c, a>> \in registry
    <3>1. a \in Nat
      <4>1. registry \subseteq AllFiles
        BY FilesAreFinite DEF RemoteInv, Budgeted, LeasesFit, Leased
      <4>2. PICK d \in Captures : <<c, a>> \in Files(d)
        BY <2>2, <4>1 DEF AllFiles
      <4>3. a \in DOMAIN WantedAssets[d]
        BY <4>2 DEF Files
      <4> QED
        BY <4>3, RemoteAssumption DEF RemoteAssumption
    <3> HIDE DEF a
    <3> DEFINE Y == Fetched(o, a)
               X == MovedTo(Y, "download")
    <3>2. Y \in Clients /\ Y.pc = o.pc /\ Y.calls = o.calls
      <4>1. IsClientAt(Y, o.pc, o.calls, o.ticket, o.document, o.live, o.got \cup {a})
        BY <1>1, ClientMoves
      <4> HIDE DEF Y
      <4> QED
        BY <1>2, <3>1, <4>1 DEF IsClientAt
    <3>3. [caller EXCEPT ![c].got = @ \cup {a}] = [caller EXCEPT ![c] = Y]
      BY <1>1 DEF Fetched
    <3> HIDE DEF Y
    <3>4. X \in Clients /\ X.pc = "download" /\ X.calls = caller[c].calls
      BY <3>2, ClientKept
    <3>5. caller' = [caller EXCEPT ![c] = X] /\ UNCHANGED <<queue, replies>>
      BY <1>1, <2>2, <3>2, <3>3, ClientSettles
    <3>6. Counted(X)
      BY <2>1, <3>4 DEF Counted
    <3> HIDE DEF X
    <3> QED
      BY <1>5, <2>1, <3>4, <3>5, <3>6
  <2>3. CASE RemoteCallFails(c, caller)
    BY <1>1, <2>1, <2>3, CallFails1
  <2> QED
    BY <1>8, <2>2, <2>3 DEF Downloads
<1>9. CASE CallInspect(c)
  <2> DEFINE X == [pc |-> "inspecting", calls |-> o.calls + 1, ticket |-> o.ticket,
                   document |-> o.document, live |-> o.live, got |-> o.got]
             op == "inspect"
  <2>1. o.pc = "download" /\ o.calls = 1 /\ KernelUnchanged /\ DOMAIN WantedAssets[c] \subseteq o.got
    BY <1>1, <1>9 DEF CallInspect, CallerAt, Counted, AssetsLeft
  <2>2. X \in Clients /\ X.pc = "inspecting" /\ X.calls = caller[c].calls + 1 /\ Counted(X)
        /\ X.got = o.got
    BY <1>2, <2>1 DEF Clients, CallerPcs, Counted
  <2>3. /\ caller' = [caller EXCEPT ![c] = X]
        /\ queue' = Append(queue, [op |-> op, client |-> c, call |-> caller[c].calls + 1])
        /\ replies' = [replies EXCEPT ![c] = Nothing]
    BY <1>1, <1>9 DEF CallInspect, Invoke, Clients
  <2>4. op \in RequestOps /\ op = OpOf(X.pc) /\ X.pc \in Awaiting
    BY DEF RequestOps, OpOf, Awaiting
  <2> HIDE DEF X, op
  <2> QED
    BY <1>4, <2>1, <2>2, <2>3, <2>4
<1>10. CASE ReadsInspect(c)
  <2>1. /\ o.pc = "inspecting" /\ replies[c] # Nothing /\ KernelUnchanged /\ o.calls = 2
        /\ DOMAIN WantedAssets[c] \subseteq o.got
    BY <1>1, <1>10 DEF ReadsInspect, Answered, CallerAt, Counted, Verified, AssetsLeft
  <2>2. CASE SameDocument(c)
    <3> DEFINE X == [pc |-> "releasing", calls |-> o.calls + 1, ticket |-> o.ticket,
                     document |-> o.document, live |-> replies[c].document, got |-> o.got]
               op == "release"
    <3>1. X \in Clients /\ X.pc = "releasing" /\ X.calls = caller[c].calls + 1 /\ Counted(X)
          /\ X.got = o.got /\ X.live = X.document
      BY <1>2, <1>3, <2>1, <2>2 DEF Clients, CallerPcs, Counted, SameDocument
    <3>2. /\ caller' = [caller EXCEPT ![c] = X]
          /\ queue' = Append(queue, [op |-> op, client |-> c, call |-> caller[c].calls + 1])
          /\ replies' = [replies EXCEPT ![c] = Nothing]
      BY <1>1, <1>10, <2>2 DEF ReadsInspect, Invoke, Clients
    <3>3. op \in RequestOps /\ op = OpOf(X.pc) /\ X.pc \in Awaiting
      BY DEF RequestOps, OpOf, Awaiting
    <3> HIDE DEF X, op
    <3> QED
      BY <1>4, <2>1, <3>1, <3>2, <3>3
  <2>3. CASE RemoteCallFails(c, caller)
    BY <1>1, <2>1, <2>3, CallFails1
  <2> QED
    BY <1>10, <2>2, <2>3 DEF ReadsInspect
<1>11. CASE ReadsRelease(c)
  <2>1. KernelUnchanged
    BY <1>11 DEF ReadsRelease
  <2>2. CASE /\ Answered(c, "releasing") /\ replies[c].ok
             /\ Settles(c, [caller EXCEPT ![c].ticket = FALSE], "returned")
    <3> DEFINE Y == Released(o, FALSE)
               X == MovedTo(Y, "returned")
    <3>1. /\ o.pc = "releasing" /\ o.calls = 3 /\ o.live = o.document /\ leases[c] = NoLease
          /\ DOMAIN WantedAssets[c] \subseteq o.got
      BY <1>1, <2>2 DEF Answered, CallerAt, Counted, Verified, AssetsLeft
    <3>2. /\ Y \in Clients /\ Y.calls = o.calls /\ Y.live = o.live /\ Y.document = o.document
          /\ Y.got = o.got
      BY <1>1, <1>2, ClientMoves DEF IsClientAt
    <3>3. [caller EXCEPT ![c].ticket = FALSE] = [caller EXCEPT ![c] = Y]
      BY <1>1 DEF Released
    <3> HIDE DEF Y
    <3>4. /\ X \in Clients /\ X.pc = "returned" /\ X.calls = caller[c].calls
          /\ X.live = X.document /\ X.got = o.got
      BY <3>1, <3>2, ClientKept
    <3>5. caller' = [caller EXCEPT ![c] = X] /\ UNCHANGED <<queue, replies>>
      BY <1>1, <2>2, <3>2, <3>3, ClientSettles
    <3>6. Counted(X)
      BY <3>1, <3>4 DEF Counted
    <3> HIDE DEF X
    <3> QED
      BY <1>5, <2>1, <3>1, <3>4, <3>5, <3>6
  <2>3. CASE Answered(c, "releasing") /\ RemoteCallFails(c, caller)
    BY <1>1, <2>1, <2>3, CallFails1 DEF Answered, CallerAt
  <2>4. CASE Answered(c, "abandoning") /\ Settles(c, caller, "failed")
    <3> DEFINE X == MovedTo(o, "failed")
    <3>1. o.pc = "abandoning" /\ o.calls >= 2
      BY <1>1, <2>4 DEF Answered, CallerAt, Counted
    <3>2. X \in Clients /\ X.pc = "failed" /\ X.calls = caller[c].calls
      BY <1>1, ClientKept
    <3>3. caller' = [caller EXCEPT ![c] = X] /\ UNCHANGED <<queue, replies>>
      BY <1>1, <2>4 DEF Settles, MovedTo
    <3> HIDE DEF X
    <3>4. Counted(X)
      BY <1>2, <3>1, <3>2 DEF Counted
    <3> QED
      BY <1>5, <2>1, <3>2, <3>3, <3>4
  <2> QED
    BY <1>11, <2>2, <2>3, <2>4 DEF ReadsRelease
<1>12. CASE TimesOut(c)
  <2>1. KernelRests
    BY <1>1, <1>12, RemoteAssumption DEF TimesOut, KernelRests, RemoteTypes, RemoteAssumption
  <2> QED
    BY <1>12, <2>1, CallFails1 DEF TimesOut, Awaiting
<1> QED
  BY <1>6, <1>7, <1>8, <1>9, <1>10, <1>11, <1>12 DEF ClientSteps

-----------------------------------------------------------------------------
(* The steps of the kernel, the timer and the world keep the invariant *)

Timers == [armed : BOOLEAN, fired : {"none", "current", "stale"}]
Troubles == [trouble : 0..MaxTrouble, unscheduled : BOOLEAN]
Fired(ls) == [Scheduled(ls) EXCEPT !.fired = "none"]
Troubled(n) == [remote EXCEPT !.trouble = @ + n]
Unarmed(n) == [remote EXCEPT !.trouble = n, !.unscheduled = TRUE]

LEMMA TimerFits ==
    ASSUME timer \in Timers, NEW ls
    PROVE  /\ Scheduled(ls) \in Timers /\ (Scheduled(ls).armed <=> ActiveTickets(ls) # {})
           /\ Fired(ls) \in Timers /\ (Fired(ls).armed <=> ActiveTickets(ls) # {})
           /\ Unscheduled \in Timers
<1>1. \A b \in BOOLEAN, f \in {"none", "current", "stale"} :
         /\ [armed |-> b, fired |-> f] \in Timers /\ ([armed |-> b, fired |-> f].armed <=> b)
         /\ [[armed |-> b, fired |-> f] EXCEPT !.fired = "none"] = [armed |-> b, fired |-> "none"]
  BY DEF Timers
<1> QED
  BY <1>1 DEF Scheduled, Fired, Unscheduled, Timers

LEMMA TroubleFits ==
    ASSUME remote \in Troubles, NEW n \in Nat, remote.trouble + n <= MaxTrouble
    PROVE  Troubled(n) \in Troubles /\ Troubled(n).unscheduled = remote.unscheduled
BY RemoteAssumption DEF Troubles, Troubled, RemoteAssumption

LEMMA UnarmedFits ==
    ASSUME remote \in Troubles, NEW n \in 0..MaxTrouble
    PROVE  Unarmed(n) \in Troubles /\ Unarmed(n).unscheduled
<1> DEFINE yes == TRUE
           A == [remote EXCEPT !.trouble = n]
           B == [A EXCEPT !.unscheduled = yes]
<1>1. A \in Troubles
  BY DEF Troubles
<1>2. Unarmed(n) = B /\ yes \in BOOLEAN /\ yes
  BY DEF Unarmed, Troubles
<1> HIDE DEF A, yes
<1>3. B \in Troubles /\ B.unscheduled = yes
  BY <1>1, <1>2 DEF Troubles
<1> QED
  BY <1>2, <1>3

LEMMA StuckFits ==
    ASSUME remote \in Troubles, NEW F, NEW stuck \in Stuck(F)
    PROVE  stuck \subseteq F /\ Spent(stuck) \in 0..1 /\ remote.trouble + Spent(stuck) <= MaxTrouble
BY RemoteAssumption DEF Stuck, Spent, Troubles, RemoteAssumption

\* A sweep with what it cannot remove.
LEMMA SweepKeeps ==
    ASSUME RemoteInv, NEW stuck
    PROVE  LET S == Swept(leases, stuck)
               R == registry \ (Due(leases) \ stuck)
           IN  /\ Budgeted(S, R) /\ ActiveTickets(S) \subseteq ActiveTickets(leases)
               /\ \A c \in Captures : leases[c] = NoLease => S[c] = NoLease
<1>1. Budgeted(leases, registry) /\ LeasesFit(leases)
  BY DEF RemoteInv, Budgeted
<1> QED
  BY <1>1, SweepBudget, SweptFits, SweptIs DEF SweptOnce

LEMMA TimerKeeps ==
    ASSUME RemoteInv, TimerFires \/ RunScheduler PROVE RemoteInv'
<1>1. /\ RemoteTypes /\ CallsInv /\ timer \in Timers /\ remote \in Troubles
      /\ Budgeted(leases, registry) /\ TimerIsSet
  BY DEF RemoteInv, RemoteTypes, CallsInv, Timers, Troubles
<1>2. UNCHANGED <<caller, queue, kernel, replies, parent>>
  BY DEF TimerFires, RunScheduler
<1>3. ASSUME timer' \in Timers, remote' \in Troubles, Budgeted(leases', registry'),
             ActiveTickets(leases') # {} =>
                 timer'.armed \/ timer'.fired = "current" \/ remote'.unscheduled,
             \A c \in Captures : leases[c] = NoLease => leases'[c] = NoLease
      PROVE  RemoteInv'
  <2>1. CallsInv'
    BY <1>1, <1>2, <1>3, CallsRest
  <2>2. RemoteTypes'
    BY <1>1, <1>2, <1>3 DEF RemoteTypes, Timers, Troubles
  <2>3. CallsAreCounted'
    BY <1>2 DEF RemoteInv, CallsAreCounted
  <2> QED
    BY <1>3, <2>1, <2>2, <2>3 DEF RemoteInv, CallsInv, TimerIsSet
<1>4. CASE TimerFires
  <2>1. timer' = [armed |-> FALSE, fired |-> "current"] /\ UNCHANGED <<leases, registry, remote>>
    BY <1>4 DEF TimerFires
  <2>2. timer' \in Timers /\ timer'.fired = "current"
    BY <2>1 DEF Timers
  <2> QED
    BY <1>1, <1>3, <2>1, <2>2
<1>5. CASE RunScheduler /\ timer.fired = "stale"
  <2>1. timer' = [timer EXCEPT !.fired = "none"] /\ UNCHANGED <<leases, registry, remote>>
    BY <1>5 DEF RunScheduler
  <2>2. timer' \in Timers /\ timer'.armed = timer.armed /\ timer.fired # "current"
    BY <1>1, <1>5, <2>1 DEF Timers
  <2> QED
    BY <1>1, <1>3, <2>1, <2>2 DEF TimerIsSet
<1>6. CASE RunScheduler /\ timer.fired = "current"
  <2>1. PICK stuck \in Stuck(Due(leases)) :
           /\ leases' = Swept(leases, stuck) /\ registry' = registry \ (Due(leases) \ stuck)
           /\ \/ timer' = Fired(leases') /\ remote' = Troubled(Spent(stuck))
              \/ /\ remote.trouble + Spent(stuck) < MaxTrouble
                 /\ timer' = [armed |-> FALSE, fired |-> "none"]
                 /\ remote' = [remote EXCEPT !.trouble = @ + Spent(stuck) + 1,
                                             !.unscheduled = TRUE]
    BY <1>6 DEF RunScheduler, Fired, Troubled
  <2>2. /\ Budgeted(leases', registry')
        /\ \A c \in Captures : leases[c] = NoLease => leases'[c] = NoLease
    BY <2>1, SweepKeeps
  <2>3. Spent(stuck) \in 0..1 /\ remote.trouble + Spent(stuck) <= MaxTrouble
    BY <1>1, StuckFits
  <2>4. CASE timer' = Fired(leases') /\ remote' = Troubled(Spent(stuck))
    <3>1. /\ timer' \in Timers /\ (timer'.armed <=> ActiveTickets(leases') # {})
          /\ remote' \in Troubles
      BY <1>1, <2>3, <2>4, TimerFits, TroubleFits
    <3> QED
      BY <1>3, <2>2, <3>1
  <2>5. CASE /\ remote.trouble + Spent(stuck) < MaxTrouble
             /\ timer' = [armed |-> FALSE, fired |-> "none"]
             /\ remote' = [remote EXCEPT !.trouble = @ + Spent(stuck) + 1, !.unscheduled = TRUE]
    <3>1. timer' \in Timers
      BY <2>5 DEF Timers
    <3>2. remote.trouble + Spent(stuck) + 1 \in 0..MaxTrouble
      BY <1>1, <2>3, <2>5, RemoteAssumption DEF Troubles, RemoteAssumption
    <3>3. remote' = Unarmed(remote.trouble + Spent(stuck) + 1)
      BY <2>5 DEF Unarmed
    <3>4. remote' \in Troubles /\ remote'.unscheduled
      BY <1>1, <3>2, <3>3, UnarmedFits
    <3> QED
      BY <1>3, <2>2, <3>1, <3>4
  <2> QED
    BY <2>1, <2>4, <2>5
<1> QED
  BY <1>4, <1>5, <1>6 DEF RunScheduler

LEMMA ExpiryKeeps ==
    ASSUME RemoteInv, NEW c \in Captures, Expires(c) PROVE RemoteInv'
<1>1. /\ RemoteTypes /\ CallsInv /\ Budgeted(leases, registry) /\ TimerIsSet /\ LeasesFit(leases)
  BY DEF RemoteInv, CallsInv, Budgeted
<1>2. /\ leases[c].on /\ leases' = [leases EXCEPT ![c].due = TRUE]
      /\ UNCHANGED <<caller, queue, kernel, replies, registry, timer, parent, remote>>
  BY DEF Expires
<1>3. leases \in [Captures -> Leases]
  BY <1>1 DEF LeasesFit
<1>4. /\ leases' \in [Captures -> Leases] /\ leases'[c].on /\ leases'[c].files = leases[c].files
      /\ \A d \in Captures : d # c => leases'[d] = leases[d]
  <2> DEFINE yes == TRUE
             l == [leases[c] EXCEPT !.due = yes]
  <2>1. leases' = [leases EXCEPT ![c] = l]
    BY <1>2, <1>3
  <2>2. yes \in BOOLEAN
    OBVIOUS
  <2> HIDE DEF yes
  <2>3. l \in Leases /\ l.on = leases[c].on /\ l.files = leases[c].files
    BY <1>3, <2>2 DEF Leases
  <2> HIDE DEF l
  <2> QED
    BY <1>2, <1>3, <2>1, <2>3
<1>5. \A d \in Captures : leases[d] = NoLease => leases'[d] = NoLease
  BY <1>2, <1>4, NoLeaseFits
<1>6. \A d \in Captures : leases'[d].files = leases[d].files /\ (leases'[d].on <=> leases[d].on)
  BY <1>2, <1>4
<1>7. LeasesFit(leases')
  BY <1>1, <1>4, <1>5, <1>6 DEF LeasesFit
<1>8. Leased(leases') = Leased(leases) /\ ActiveTickets(leases') = ActiveTickets(leases)
  BY <1>6 DEF Leased, ActiveTickets
<1>9. Budgeted(leases', registry')
  BY <1>1, <1>2, <1>7, <1>8 DEF Budgeted
<1>10. CallsInv'
  BY <1>1, <1>2, <1>5, CallsRest
<1>11. RemoteTypes' /\ CallsAreCounted' /\ TimerIsSet'
  BY <1>1, <1>2, <1>8 DEF RemoteInv, RemoteTypes, CallsAreCounted, TimerIsSet
<1> QED
  BY <1>9, <1>10, <1>11 DEF RemoteInv, CallsInv

LEMMA EditKeeps ==
    ASSUME RemoteInv, NEW what \in DOMAIN parent, Edits(what) PROVE RemoteInv'
<1>1. /\ RemoteTypes /\ CallsInv /\ Budgeted(leases, registry) /\ TimerIsSet
      /\ remote \in Troubles
  BY DEF RemoteInv, RemoteTypes, CallsInv, Troubles
<1>2. /\ remote.trouble < MaxTrouble /\ parent' = [parent EXCEPT ![what] = 1 - @]
      /\ remote' = Troubled(1)
      /\ UNCHANGED <<caller, queue, kernel, replies, leases, registry, timer>>
  BY DEF Edits, Troubled
<1>3. parent' \in [document : 0..1, ui : 0..1, implementation : 0..1]
  <2>1. /\ parent \in [document : 0..1, ui : 0..1, implementation : 0..1]
        /\ what \in {"document", "ui", "implementation"}
    BY <1>1 DEF RemoteTypes
  <2>2. CASE what = "document"
    BY <1>2, <2>1, <2>2
  <2>3. CASE what = "ui"
    BY <1>2, <2>1, <2>3
  <2>4. CASE what = "implementation"
    BY <1>2, <2>1, <2>4
  <2> QED
    BY <2>1, <2>2, <2>3, <2>4
<1>4. remote' \in Troubles /\ remote'.unscheduled = remote.unscheduled
  <2>1. remote.trouble + 1 <= MaxTrouble
    BY <1>1, <1>2, RemoteAssumption DEF Troubles, RemoteAssumption
  <2> QED
    BY <1>1, <1>2, <2>1, TroubleFits
<1>5. CallsInv'
  BY <1>1, <1>2, CallsRest
<1>6. RemoteTypes' /\ CallsAreCounted' /\ TimerIsSet' /\ Budgeted(leases, registry)'
  BY <1>1, <1>2, <1>3, <1>4 DEF RemoteInv, RemoteTypes, CallsAreCounted, TimerIsSet, Troubles
<1> QED
  BY <1>5, <1>6 DEF RemoteInv, CallsInv

\* Steps of the kernel that answer nothing and touch no ticket.
LEMMA KernelStays ==
    ASSUME RemoteInv, UNCHANGED <<caller, queue, replies, leases, registry, timer, parent>>,
           kernel # Nothing, kernel' \in Runs, SameRequest(kernel', kernel),
           remote' \in Troubles, remote'.unscheduled = remote.unscheduled
    PROVE  RemoteInv'
<1>1. RemoteTypes /\ CallsInv /\ Budgeted(leases, registry) /\ TimerIsSet
  BY DEF RemoteInv, CallsInv
<1>2. CallsInv'
  BY <1>1, CallsRest
<1>3. RemoteTypes' /\ CallsAreCounted' /\ TimerIsSet' /\ Budgeted(leases, registry)'
  BY <1>1 DEF RemoteInv, RemoteTypes, CallsAreCounted, TimerIsSet, Troubles
<1> QED
  BY <1>2, <1>3 DEF RemoteInv, CallsInv

\* The kernel answers, whatever it has done to the tickets.
LEMMA KernelAnswers ==
    ASSUME RemoteInv, kernel # Nothing, NEW ok \in BOOLEAN, Reply(ok),
           UNCHANGED <<caller, queue, parent>>,
           Budgeted(leases', registry'), timer' \in Timers, remote' \in Troubles,
           ActiveTickets(leases') # {} =>
               timer'.armed \/ timer'.fired = "current" \/ remote'.unscheduled,
           \A c \in Captures : leases[c] = NoLease => leases'[c] = NoLease \/ Captured(kernel, c),
           kernel.op = "release" /\ ok => leases'[kernel.client] = NoLease
    PROVE  RemoteInv'
<1>1. RemoteTypes /\ CallsInv /\ CallsAreCounted
  BY DEF RemoteInv, CallsInv
<1>2. CallsInv' /\ kernel' = Nothing /\ replies' \in [Captures -> Answers \cup {Nothing}]
  BY <1>1, CallsReply
<1>3. RemoteTypes' /\ CallsAreCounted'
  BY <1>1, <1>2 DEF RemoteTypes, CallsAreCounted, Timers, Troubles
<1> QED
  BY <1>2, <1>3 DEF RemoteInv, CallsInv, TimerIsSet

LEMMA KernelAnswersOnly ==
    ASSUME RemoteInv, kernel # Nothing, NEW ok \in BOOLEAN, Reply(ok), kernel.op # "release",
           TicketsUnchanged, UNCHANGED <<caller, queue, parent>>
    PROVE  RemoteInv'
<1>1. /\ timer \in Timers /\ remote \in Troubles /\ Budgeted(leases, registry) /\ TimerIsSet
      /\ UNCHANGED <<leases, registry, timer, remote>>
  BY DEF RemoteInv, RemoteTypes, Timers, Troubles, TicketsUnchanged
<1> QED
  BY <1>1, KernelAnswers DEF TimerIsSet

LEMMA BeginKeeps == ASSUME RemoteInv, KernelBegins PROVE RemoteInv'
<1>1. /\ RemoteTypes /\ CallsInv /\ CallsAreCounted /\ timer \in Timers /\ remote \in Troubles
  BY DEF RemoteInv, RemoteTypes, CallsInv, Timers, Troubles
<1>2. PICK stuck \in Stuck(Due(leases)) :
         /\ leases' = Swept(leases, stuck) /\ registry' = registry \ (Due(leases) \ stuck)
         /\ timer' = Scheduled(leases') /\ remote' = Troubled(Spent(stuck))
  BY DEF KernelBegins, Troubled
<1>3. UNCHANGED <<caller, replies, parent>>
  BY DEF KernelBegins
<1>4. /\ Budgeted(leases', registry')
      /\ \A c \in Captures : leases[c] = NoLease => leases'[c] = NoLease
  BY <1>2, SweepKeeps
<1>5. CallsInv' /\ queue' \in Seq(Requests) /\ kernel' \in Runs
  BY <1>1, <1>4, CallsBegin
<1>6. Spent(stuck) \in 0..1 /\ remote.trouble + Spent(stuck) <= MaxTrouble
  BY <1>1, StuckFits
<1>7. /\ timer' \in Timers /\ (timer'.armed <=> ActiveTickets(leases') # {})
      /\ remote' \in Troubles
  BY <1>1, <1>2, <1>6, TimerFits, TroubleFits
<1>8. RemoteTypes' /\ CallsAreCounted' /\ TimerIsSet'
  BY <1>1, <1>3, <1>5, <1>7
     DEF RemoteTypes, CallsAreCounted, TimerIsSet, Timers, Troubles
<1> QED
  BY <1>4, <1>5, <1>8 DEF RemoteInv, CallsInv

\* A run of the kernel with one field changed.
Noted(k, document, ui) == [k EXCEPT !.stage = "states", !.document = document, !.ui = ui]
NextState(k) == [k EXCEPT !.states = @ + 1]
StateFailed(k) == [k EXCEPT !.failed = TRUE]
ToTicket(k) == [k EXCEPT !.stage = "ticket"]

LEMMA RunsMove ==
    ASSUME NEW k \in Runs
    PROVE  /\ \A d \in 0..1, u \in 0..1 :
                 Noted(k, d, u) \in Runs /\ SameRequest(Noted(k, d, u), k)
           /\ k.states < MaxStates => NextState(k) \in Runs /\ SameRequest(NextState(k), k)
           /\ StateFailed(k) \in Runs /\ SameRequest(StateFailed(k), k)
           /\ ToTicket(k) \in Runs /\ SameRequest(ToTicket(k), k)
<1>1. \A d \in 0..1, u \in 0..1 : Noted(k, d, u) \in Runs /\ SameRequest(Noted(k, d, u), k)
  BY DEF Noted, Runs, SameRequest
<1>2. ASSUME k.states < MaxStates PROVE NextState(k) \in Runs /\ SameRequest(NextState(k), k)
  <2>1. k.states + 1 \in 0..MaxStates
    BY <1>2, RemoteAssumption DEF Runs, RemoteAssumption
  <2> QED
    BY <2>1 DEF NextState, Runs, SameRequest
<1>3. StateFailed(k) \in Runs /\ SameRequest(StateFailed(k), k)
  <2> DEFINE yes == TRUE
             X == [k EXCEPT !.failed = yes]
  <2>1. yes \in BOOLEAN /\ StateFailed(k) = X
    BY DEF StateFailed
  <2> HIDE DEF yes
  <2>2. X \in Runs /\ SameRequest(X, k)
    BY <2>1 DEF Runs, SameRequest
  <2> QED
    BY <2>1, <2>2
<1>4. ToTicket(k) \in Runs /\ SameRequest(ToTicket(k), k)
  BY DEF ToTicket, Runs, SameRequest
<1> QED
  BY <1>1, <1>2, <1>3, <1>4

LEMMA StatesKeep ==
    ASSUME RemoteInv, Inspects \/ CaptureBegins \/ ExecutesState \/ StatesEnd PROVE RemoteInv'
<1>1. /\ RemoteTypes /\ remote \in Troubles /\ kernel \in Runs /\ kernel # Nothing
      /\ parent.document \in 0..1 /\ parent.ui \in 0..1
  BY DEF RemoteInv, RemoteTypes, Troubles, Inspects, CaptureBegins, ExecutesState, StatesEnd
<1>2. CASE Inspects
  <2>1. /\ kernel.op # "release" /\ Reply(parent.implementation = 0)
        /\ TicketsUnchanged /\ UNCHANGED <<caller, queue, parent>>
    BY <1>2 DEF Inspects
  <2> QED
    BY <1>1, <2>1, KernelAnswersOnly
<1>3. ASSUME Reply(FALSE), kernel.op = "capture", TicketsUnchanged,
             UNCHANGED <<caller, queue, parent>>
      PROVE  RemoteInv'
  BY <1>1, <1>3, KernelAnswersOnly
<1>4. ASSUME kernel' \in Runs, SameRequest(kernel', kernel), TicketsUnchanged,
             UNCHANGED <<caller, queue, replies, parent>>
      PROVE  RemoteInv'
  BY <1>1, <1>4, KernelStays DEF TicketsUnchanged
<1>5. CASE CaptureBegins
  <2>1. /\ kernel.op = "capture" /\ TicketsUnchanged /\ UNCHANGED <<caller, queue, parent>>
        /\ \/ kernel' = Noted(kernel, parent.document, parent.ui) /\ UNCHANGED replies
           \/ Reply(FALSE)
    BY <1>5 DEF CaptureBegins, Noted
  <2> QED
    BY <1>1, <1>3, <1>4, <2>1, RunsMove
<1>6. CASE StatesEnd
  <2>1. /\ kernel.op = "capture" /\ TicketsUnchanged /\ UNCHANGED <<caller, queue, parent>>
        /\ \/ kernel' = ToTicket(kernel) /\ UNCHANGED replies
           \/ Reply(FALSE)
    BY <1>6 DEF StatesEnd, ToTicket
  <2> QED
    BY <1>1, <1>3, <1>4, <2>1, RunsMove
<1>7. CASE ExecutesState
  <2>1. /\ kernel.states < MaxStates
        /\ UNCHANGED <<caller, queue, replies, leases, registry, timer, parent>>
        /\ \/ kernel' = NextState(kernel) /\ UNCHANGED remote
           \/ /\ remote.trouble < MaxTrouble
              /\ kernel' = StateFailed(kernel) /\ remote' = Troubled(1)
    BY <1>7 DEF ExecutesState, NextState, StateFailed, Troubled
  <2>2. kernel' \in Runs /\ SameRequest(kernel', kernel)
    BY <1>1, <2>1, RunsMove
  <2>3. remote.trouble < MaxTrouble => remote.trouble + 1 <= MaxTrouble
    BY <1>1, RemoteAssumption DEF Troubles, RemoteAssumption
  <2>4. remote' \in Troubles /\ remote'.unscheduled = remote.unscheduled
    BY <1>1, <2>1, <2>3, TroubleFits
  <2> QED
    BY <1>1, <2>1, <2>2, <2>4, KernelStays
<1> QED
  BY <1>2, <1>5, <1>6, <1>7

\* A ticket is taken out, but for the files that cannot be removed.
Taken(ls, c, stuck) == [Swept(ls, stuck) EXCEPT ![c] = Kept(@, ls[c].files \cap stuck)]

LEMMA TakenBudget ==
    ASSUME NEW ls, NEW R, Budgeted(ls, R), NEW c \in Captures, NEW stuck
    PROVE  /\ Budgeted(Taken(ls, c, stuck), R \ ((Due(ls) \cup ls[c].files) \ stuck))
           /\ ActiveTickets(Taken(ls, c, stuck)) \subseteq ActiveTickets(ls)
           /\ \A d \in Captures : ls[d] = NoLease => Taken(ls, c, stuck)[d] = NoLease
           /\ ls[c].files \cap stuck = {} => Taken(ls, c, stuck)[c] = NoLease
<1> DEFINE S == Swept(ls, stuck)
           T == Taken(ls, c, stuck)
           k == Kept(S[c], ls[c].files \cap stuck)
           Q == R \ ((Due(ls) \cup ls[c].files) \ stuck)
<1>1. /\ LeasesFit(ls) /\ R = Leased(ls) /\ ls[c].files \subseteq AllFiles
      /\ LeasesFit(S) /\ ActiveTickets(S) \subseteq ActiveTickets(ls)
  BY SweptFits, FilesAreFinite DEF Budgeted, LeasesFit
<1>2. \A d \in Captures : SweptOnce(ls[d], S[d], stuck)
  BY <1>1, SweptIs
<1>3. S \in [Captures -> Leases] /\ T = [S EXCEPT ![c] = k]
  BY <1>1 DEF LeasesFit, Taken
<1>4. /\ k \in Leases /\ k.files = ls[c].files \cap stuck
      /\ (~k.on <=> k.files = {}) /\ (k.files = {} => k = NoLease)
  BY <1>1, KeptFits
<1> HIDE DEF S, T, k
<1>5. T \in [Captures -> Leases] /\ T[c] = k /\ \A d \in Captures : d # c => T[d] = S[d]
  BY <1>3, <1>4
<1>6. \A d \in Captures : ls[d] = NoLease => T[d] = NoLease
  BY <1>2, <1>4, <1>5, NoLeaseFits DEF SweptOnce
<1>7. ActiveTickets(T) \subseteq ActiveTickets(ls)
  <2>1. k.on => ls[c].on
    BY <1>1, <1>4, NoLeaseFits DEF LeasesFit
  <2> QED
    BY <1>1, <1>5, <2>1 DEF ActiveTickets
<1>8. LeasesFit(T)
  BY <1>1, <1>4, <1>5 DEF LeasesFit
<1>9. ASSUME NEW f PROVE f \in Leased(T) <=> f \in Q
  <2>1. ASSUME NEW d \in Captures, NEW e \in Captures, f \in ls[d].files, f \in ls[e].files
        PROVE  d = e
    BY <1>1, <2>1, FilesApart DEF LeasesFit
  <2>2. \A d \in Captures : d # c =>
           (f \in T[d].files <=> f \in ls[d].files /\ (ls[d].due => f \in stuck))
    BY <1>2, <1>5 DEF SweptOnce
  <2>3. f \in T[c].files <=> f \in ls[c].files /\ f \in stuck
    BY <1>4, <1>5
  <2>4. /\ f \in Leased(T) <=> \E d \in Captures : f \in T[d].files
        /\ f \in R <=> \E d \in Captures : f \in ls[d].files
        /\ f \in Due(ls) <=> \E d \in Captures : ls[d].due /\ f \in ls[d].files
    BY <1>1, LeaseHolds
  <2> HIDE DEF Q
  <2>5. f \in Q <=> f \in R /\ (f \in stuck \/ (f \notin Due(ls) /\ f \notin ls[c].files))
    BY DEF Q
  <2> QED
    BY <2>1, <2>2, <2>3, <2>4, <2>5
<1>10. Q = Leased(T) /\ Q \subseteq R
  BY <1>9
<1>11. Budgeted(T, Q)
  BY <1>7, <1>8, <1>10, BudgetShrinks
<1> QED
  BY <1>4, <1>5, <1>6, <1>7, <1>11 DEF T

LEMMA CreationKeeps == ASSUME RemoteInv, CreatesTicket PROVE RemoteInv'
<1> DEFINE c == kernel.client
<1>1. PICK stuck \in Stuck(Due(leases)) :
         LET S == Swept(leases, stuck)
             R == registry \ (Due(leases) \ stuck)
         IN  /\ remote' = Troubled(Spent(stuck))
             /\ \/ /\ Admitted(S, c)
                   /\ leases' = [S EXCEPT ![c] = [on |-> TRUE, files |-> Files(c), due |-> FALSE]]
                   /\ registry' = R \cup Files(c) /\ Reply(TRUE) /\ timer' = Scheduled(leases')
                \/ leases' = S /\ registry' = R /\ Reply(FALSE) /\ UNCHANGED timer
  BY DEF CreatesTicket, Troubled
<1> DEFINE S == Swept(leases, stuck)
           R == registry \ (Due(leases) \ stuck)
           l == [on |-> TRUE, files |-> Files(c), due |-> FALSE]
<1>2. /\ kernel # Nothing /\ kernel.op = "capture" /\ UNCHANGED <<caller, queue, parent>>
      /\ timer \in Timers /\ remote \in Troubles /\ TimerIsSet
      /\ c \in Captures /\ leases[c] = NoLease
  BY DEF RemoteInv, RemoteTypes, Timers, Troubles, CreatesTicket, AtTicket, RequestsAreRelevant,
         Relevant
<1>3. /\ Budgeted(S, R) /\ ActiveTickets(S) \subseteq ActiveTickets(leases)
      /\ \A d \in Captures : leases[d] = NoLease => S[d] = NoLease
  BY SweepKeeps
<1>4. Spent(stuck) \in 0..1 /\ remote.trouble + Spent(stuck) <= MaxTrouble
  BY <1>2, StuckFits
<1>5. remote' \in Troubles /\ remote'.unscheduled = remote.unscheduled
  BY <1>1, <1>2, <1>4, TroubleFits
<1>6. CASE /\ Admitted(S, c) /\ leases' = [S EXCEPT ![c] = l] /\ registry' = R \cup Files(c)
           /\ Reply(TRUE) /\ timer' = Scheduled(leases')
  <2>1. l \in Leases /\ l.files = Files(c) /\ l.on
    <3>1. \A b, d \in BOOLEAN, F \in SUBSET AllFiles :
             /\ [on |-> b, files |-> F, due |-> d] \in Leases
             /\ [on |-> b, files |-> F, due |-> d].files = F
             /\ [on |-> b, files |-> F, due |-> d].on = b
      BY DEF Leases
    <3>2. Files(c) \in SUBSET AllFiles
      BY <1>2, FilesAreFinite
    <3> QED
      BY <3>1, <3>2
  <2>2. S[c].files \subseteq l.files /\ S \in [Captures -> Leases]
    BY <1>2, <1>3, NoLeaseFits DEF Budgeted, LeasesFit
  <2> HIDE DEF l, S, R
  <2>3. Budgeted(leases', registry')
    BY <1>2, <1>3, <1>6, <2>1, <2>2, TicketBudget
  <2>4. \A d \in Captures : leases[d] = NoLease => leases'[d] = NoLease \/ Captured(kernel, d)
    BY <1>2, <1>3, <1>6, <2>2 DEF Captured
  <2>5. timer' \in Timers /\ (timer'.armed <=> ActiveTickets(leases') # {})
    BY <1>2, <1>6, TimerFits
  <2> QED
    BY <1>2, <1>5, <1>6, <2>3, <2>4, <2>5, KernelAnswers
<1>7. CASE leases' = S /\ registry' = R /\ Reply(FALSE) /\ UNCHANGED timer
  <2>1. ActiveTickets(leases') # {} =>
            timer'.armed \/ timer'.fired = "current" \/ remote'.unscheduled
    BY <1>2, <1>3, <1>5, <1>7 DEF TimerIsSet
  <2> HIDE DEF S, R
  <2> QED
    BY <1>2, <1>3, <1>5, <1>7, <2>1, KernelAnswers
<1> QED
  BY <1>1, <1>6, <1>7

LEMMA FailedTicketKeeps == ASSUME RemoteInv, TicketFails PROVE RemoteInv'
<1> DEFINE c == kernel.client
           S == Swept(leases, {})
           R == registry \ (Due(leases) \ {})
<1>1. PICK files \in SUBSET Files(c) :
      \E stuck \in {{}} \cup (IF remote.trouble + 1 < MaxTrouble
                              THEN {{f} : f \in files} ELSE {}) :
         /\ leases' = [S EXCEPT ![c] = Kept(NoLease, stuck)]
         /\ registry' = (registry \ Due(leases)) \cup stuck
         /\ remote' = [remote EXCEPT !.trouble = @ + 1 + Spent(stuck)]
         /\ timer' = IF ActiveTickets(leases') # {} THEN Scheduled(leases') ELSE timer
  BY DEF TicketFails
<1>2. PICK stuck \in {{}} \cup (IF remote.trouble + 1 < MaxTrouble
                                THEN {{f} : f \in files} ELSE {}) :
         /\ leases' = [S EXCEPT ![c] = Kept(NoLease, stuck)] /\ registry' = R \cup stuck
         /\ remote' = [remote EXCEPT !.trouble = @ + 1 + Spent(stuck)]
         /\ timer' = IF ActiveTickets(leases') # {} THEN Scheduled(leases') ELSE timer
  BY <1>1
<1>3. /\ kernel # Nothing /\ kernel.op = "capture" /\ UNCHANGED <<caller, queue, parent>>
      /\ Reply(FALSE) /\ timer \in Timers /\ remote \in Troubles /\ TimerIsSet
      /\ c \in Captures /\ leases[c] = NoLease /\ remote.trouble < MaxTrouble /\ Admitted(S, c)
  BY DEF RemoteInv, RemoteTypes, Timers, Troubles, TicketFails, AtTicket, RequestsAreRelevant,
         Relevant
<1>4. /\ Budgeted(S, R) /\ \A d \in Captures : leases[d] = NoLease => S[d] = NoLease
  BY SweepKeeps
<1>5. /\ 1 + Spent(stuck) \in Nat /\ remote.trouble + (1 + Spent(stuck)) <= MaxTrouble
      /\ remote' = Troubled(1 + Spent(stuck))
  <2>1. remote.trouble \in Nat /\ MaxTrouble \in Nat
    BY <1>3, RemoteAssumption DEF Troubles, RemoteAssumption
  <2>2. Spent(stuck) \in 0..1 /\ (Spent(stuck) = 1 => remote.trouble + 1 < MaxTrouble)
    BY <1>2 DEF Spent
  <2>3. remote.trouble + 1 + Spent(stuck) = remote.trouble + (1 + Spent(stuck))
    BY <2>1, <2>2
  <2> QED
    BY <1>2, <1>3, <2>1, <2>2, <2>3 DEF Troubled
<1>6. remote' \in Troubles /\ remote'.unscheduled = remote.unscheduled
  BY <1>3, <1>5, TroubleFits
<1> DEFINE k == Kept(NoLease, stuck)
<1>7. stuck \subseteq Files(c) /\ stuck \subseteq AllFiles
  <2>1. stuck = {} \/ stuck \in {{f} : f \in files}
    OBVIOUS
  <2>2. stuck \subseteq files
    BY <2>1
  <2> QED
    BY <1>3, <2>2, FilesAreFinite
<1>8. k \in Leases /\ k.files = stuck /\ (~k.on => k = NoLease)
  BY <1>7, KeptFits
<1>9. S[c].files \subseteq k.files /\ S \in [Captures -> Leases]
  BY <1>3, <1>4, NoLeaseFits DEF Budgeted, LeasesFit
<1> HIDE DEF k, S, R
<1>10. leases' = [S EXCEPT ![c] = k] /\ registry' = R \cup k.files
  BY <1>2, <1>8 DEF k
<1>11. Budgeted(leases', registry')
  BY <1>3, <1>4, <1>7, <1>8, <1>9, <1>10, TicketBudget
<1>12. \A d \in Captures : leases[d] = NoLease => leases'[d] = NoLease \/ Captured(kernel, d)
  BY <1>3, <1>4, <1>9, <1>10 DEF Captured
<1>13. timer' \in Timers /\ (ActiveTickets(leases') # {} => timer'.armed)
  BY <1>2, <1>3, TimerFits
<1> QED
  BY <1>3, <1>6, <1>11, <1>12, <1>13, KernelAnswers

LEMMA ReleaseKeeps == ASSUME RemoteInv, Releases PROVE RemoteInv'
<1> DEFINE c == kernel.client
           files == Due(leases) \cup leases[c].files
<1>1. PICK stuck \in Stuck(files) :
         /\ leases' = Taken(leases, c, stuck) /\ registry' = registry \ (files \ stuck)
         /\ Reply(leases[c].files \cap stuck = {})
         /\ \/ timer' = Scheduled(leases') /\ remote' = Troubled(Spent(stuck))
            \/ /\ stuck # {} /\ remote.trouble + 1 < MaxTrouble
               /\ timer' = Unscheduled /\ remote' = Unarmed(remote.trouble + 2)
  BY DEF Releases, Taken, Troubled, Unarmed
<1>2. /\ kernel # Nothing /\ kernel.op = "release" /\ UNCHANGED <<caller, queue, parent>>
      /\ timer \in Timers /\ remote \in Troubles /\ c \in Captures
      /\ Budgeted(leases, registry)
  BY DEF RemoteInv, RemoteTypes, Timers, Troubles, Releases, RequestsAreRelevant, Relevant
<1>3. /\ Budgeted(leases', registry')
      /\ \A d \in Captures : leases[d] = NoLease => leases'[d] = NoLease
      /\ leases[c].files \cap stuck = {} => leases'[c] = NoLease
  BY <1>1, <1>2, TakenBudget
<1>4. Spent(stuck) \in 0..1 /\ remote.trouble + Spent(stuck) <= MaxTrouble
  BY <1>2, StuckFits
<1> DEFINE ok == leases[c].files \cap stuck = {}
<1>5. ok \in BOOLEAN /\ Reply(ok) /\ (ok => leases'[c] = NoLease)
  BY <1>1, <1>3
<1> HIDE DEF ok
<1>6. CASE timer' = Scheduled(leases') /\ remote' = Troubled(Spent(stuck))
  <2>1. /\ timer' \in Timers /\ (timer'.armed <=> ActiveTickets(leases') # {})
        /\ remote' \in Troubles
    BY <1>2, <1>4, <1>6, TimerFits, TroubleFits
  <2> QED
    BY <1>2, <1>3, <1>5, <2>1, KernelAnswers
<1>7. CASE /\ remote.trouble + 1 < MaxTrouble
           /\ timer' = Unscheduled /\ remote' = Unarmed(remote.trouble + 2)
  <2>1. remote.trouble + 2 \in 0..MaxTrouble
    BY <1>2, <1>7, RemoteAssumption DEF Troubles, RemoteAssumption
  <2>2. timer' \in Timers /\ remote' \in Troubles /\ remote'.unscheduled
    BY <1>2, <1>7, <2>1, TimerFits, UnarmedFits
  <2> QED
    BY <1>2, <1>3, <1>5, <2>2, KernelAnswers
<1> QED
  BY <1>1, <1>6, <1>7

-----------------------------------------------------------------------------
(* The theorems *)

LEMMA RemoteInvStep == RemoteInv /\ [RemoteNext]_remoteVars => RemoteInv'
<1> SUFFICES ASSUME RemoteInv, [RemoteNext]_remoteVars PROVE RemoteInv'
  OBVIOUS
<1>1. CASE KernelSteps
  BY <1>1, BeginKeeps, StatesKeep, CreationKeeps, FailedTicketKeeps, ReleaseKeeps DEF KernelSteps
<1>2. CASE Sweeps
  BY <1>2, TimerKeeps DEF Sweeps
<1>3. CASE \E c \in Captures : ClientSteps(c) \/ Expires(c)
  BY <1>3, ClientKeeps, ExpiryKeeps
<1>4. CASE \E what \in DOMAIN parent : Edits(what)
  BY <1>4, EditKeeps
<1>5. CASE UNCHANGED remoteVars
  <2>1. UNCHANGED <<caller, queue, kernel, replies, leases, registry, timer, parent, remote>>
    BY <1>5 DEF remoteVars
  <2>2. RemoteTypes /\ CallsInv
    BY DEF RemoteInv, CallsInv
  <2>3. CallsInv'
    BY <2>1, <2>2, CallsRest
  <2>4. RemoteTypes' /\ CallsAreCounted' /\ TimerIsSet' /\ Budgeted(leases, registry)'
    BY <2>1 DEF RemoteInv, RemoteTypes, CallsAreCounted, TimerIsSet
  <2> QED
    BY <2>3, <2>4 DEF RemoteInv, CallsInv
<1> QED
  BY <1>1, <1>2, <1>3, <1>4, <1>5 DEF RemoteNext

\* Whatever the clients, the kernel, the timer and the notebook's user do, in any order.
THEOREM RemoteInvariant == RemoteSpec => []RemoteInv
<1> QED
  BY RemoteInvInit, RemoteInvStep, PTL DEF RemoteSpec

\* The tickets and calls of a capture keep their types: at most four calls are ever made.
THEOREM RemoteTypesHold == RemoteSpec => []RemoteTypeOK
<1>1. ASSUME RemoteInv PROVE RemoteTypeOK
  <2>1. LeasesFit(leases) /\ registry = Leased(leases) /\ RemoteTypes
    BY <1>1 DEF RemoteInv, Budgeted
  <2>2. \A c \in Captures : leases[c].files \subseteq Files(c) /\ caller[c].calls \in 0..4
    BY <2>1 DEF LeasesFit, RemoteTypes, Clients
  <2>3. registry \subseteq UNION {Files(c) : c \in Captures}
    BY <2>1, <2>2 DEF Leased
  <2>4. /\ timer.fired \in {"none", "current", "stale"} /\ timer.armed \in BOOLEAN
        /\ remote.trouble \in 0..MaxTrouble
    BY <2>1 DEF RemoteTypes
  <2> QED
    BY <2>2, <2>3, <2>4 DEF RemoteTypeOK
<1>2. RemoteInv => RemoteTypeOK
  BY <1>1
<1> QED
  BY <1>2, RemoteInvariant, PTL

\* Whatever failed, timed out or was given up, each virtual file belongs to a lease, the
\* leases fit the limits on tickets and bytes, a timer is on the way to them, and a capture
\* that returned is whole, of the live document, and left nothing (client.py, transfer.py).
THEOREM RemoteCaptureHolds == RemoteSpec => []RemoteCaptureIsSound
<1>1. ASSUME RemoteInv PROVE RemoteCaptureIsSound
  <2>1. FilesAreLeased
    BY <1>1 DEF RemoteInv, Budgeted, TimerIsSet, FilesAreLeased
  <2>2. CapturesAreWhole
    BY <1>1, NoLeaseFits
       DEF RemoteInv, ResultsAreVerified, Verified, CapturesAreWhole, CallerAt
  <2> QED
    BY <2>1, <2>2 DEF RemoteCaptureIsSound
<1>2. RemoteInv => RemoteCaptureIsSound
  BY <1>1
<1> QED
  BY <1>2, RemoteInvariant, PTL

-----------------------------------------------------------------------------
(* The notebook of a build: an inductive invariant *)

Ahead == {"enter", "copy", "constructor"}
Starting == {"spawn", "token", "wait_ready", "lost", "retry", "init_failed"}
Session == {"validate", "before", "open", "compare", "operate", "after"}
Activating == {"stream", "kernel", "instantiate", "instantiating", "instantiated", "run",
               "running", "ran"}
Stopping == {"sp_begin", "sp_job", "sp_term", "sp_kill", "sp_groups", "sp_end"}

OwnerFields == {"pc", "ret", "attempt", "process", "job", "groups", "target", "known",
                "failures", "reported", "files", "copy", "first", "copied", "late", "after",
                "seen", "client", "server", "closing", "ops", "faults", "refused", "unremoved"}
IsOwner(o) == o = [f \in OwnerFields |-> o[f]]
Processes == [server : {"none", "live", "dead"}, kernel : {"none", "live", "dead"},
              group : {"server", "kernel"}, port : {"unbound", "bound", "lost"},
              ran : Seq({"instantiate", "run"})]
Streams == [thread : {"none", "reads", "ended"}, closed : BOOLEAN, ready : BOOLEAN,
            completed : Nat, generation : Nat, active : BOOLEAN, failed : BOOLEAN]

ManagedTypes ==
    /\ IsOwner(ow) /\ procs \in [Tries -> Processes] /\ ss \in Streams
    /\ posix \in BOOLEAN /\ edits \in 0..MaxEdits /\ ow.faults \in 0..MaxFaults
    /\ ow.attempt \in 0..Attempts /\ ow.process \in {0, ow.attempt} /\ ow.server \in BOOLEAN
    /\ ow.failures \subseteq {"error", "cancel"} /\ ow.reported \subseteq {"error", "cancel"}

\* What the owner has, by where it is.
Placed ==
    /\ ow.pc \in Ahead => ~ow.server /\ ~ow.closing /\ ow.files = "none" /\ ow.attempt = 0
    /\ ow.pc \in Starting => ~ow.server /\ ~ow.closing /\ ow.files = "open"
    /\ ow.pc \in Activating \cup Session => ow.server /\ ~ow.closing
    /\ ow.pc \in {"spawn", "retry"} => ow.attempt < Attempts
    /\ ow.pc \in Stopping =>
          \/ ow.ret = "retry" /\ ~ow.server /\ ~ow.closing /\ ow.files = "open"
             /\ ow.attempt < Attempts
          \/ ow.ret = "files" /\ ~ow.server /\ ~ow.closing
          \/ ow.ret = "join" /\ ow.server /\ ow.closing
    /\ ow.pc = "files" => (ow.server <=> ow.closing)
    /\ ow.pc \in {"snapshot", "shutdown", "join"} => ow.server /\ ow.closing
    /\ ow.pc = "close" => ~ow.closing /\ (~ow.server => ow.files # "open")
    /\ ow.pc \in {"unlink", "over"} => ow.files # "open"
    /\ ow.pc = "over" /\ ow.copy = "kept" => ow.unremoved
    /\ ow.pc \in {"constructor"} \cup (Starting \ {"init_failed"}) \cup Activating \cup Session
       \/ (ow.pc \in Stopping /\ ow.ret = "retry") => ow.copied = ow.first

\* Only the last attempt has a server, and only while the owner knows of it.
ServersAreKnown ==
    /\ \A a \in Tries : Live(a) => a = ow.attempt /\ a = ow.process
    /\ ow.pc = "spawn" \/ (ow.pc = "retry" /\ ow.failures = {}) => \A a \in Tries : ~Live(a)
    /\ ow.server => ow.attempt # 0
    /\ ow.pc \in {"token", "wait_ready"} => (ow.job <=> ~posix)
    /\ ow.server /\ ow.pc \in Activating \cup Session \cup Stopping
                              \cup {"close", "snapshot", "shutdown"} =>
          ow.process = ow.attempt /\ (ow.job <=> ~posix)

Idle(a) == procs[a].kernel = "none" /\ procs[a].ran = <<>>

\* Only a server whose events are read has a kernel.
KernelsAreFollowed ==
    /\ \A a \in Tries : a # ow.attempt => Idle(a)
    /\ ~ow.server \/ ow.pc = "stream" => ss.thread = "none"
    /\ ss.thread = "none" =>
          /\ \A a \in Tries : Idle(a)
          /\ wire = <<>> /\ ss.completed = 0 /\ ~ss.ready /\ ~ss.active

\* Events that were sent and not read, for the requests that the kernel ran.
Flow(W, S, K) ==
    \/ /\ K.ran = <<>> /\ S.completed = 0 /\ ~S.active
       /\ W \in {<<>>, <<"ready">>, <<"bad_ready">>}
       /\ K.kernel = "none" => W = <<>> /\ ~S.ready
       /\ S.ready => W = <<>>
    \/ /\ K.ran = <<"instantiate">> /\ K.kernel # "none" /\ ~S.active
       /\ \/ W = <<"done">> /\ S.completed = 0
          \/ W = <<>> /\ S.completed = 1
    \/ /\ K.ran = <<"instantiate", "run">> /\ K.kernel # "none"
       /\ \/ W \in {<<"active", "idle", "done">>, <<"active", "done">>, <<"done">>}
             /\ S.completed = 1 /\ ~S.active
          \/ W \in {<<"idle", "done">>, <<"done">>} /\ S.completed = 1 /\ S.active
          \/ W = <<>> /\ S.completed = 2
EventsFlow == \A a \in Tries : a = ow.attempt => Flow(wire, ss, procs[a])

\* How far the baseline has come, by where the owner is.
BaselineComes ==
    \A a \in Tries : a = ow.attempt =>
       /\ ow.pc \in {"kernel", "instantiate"} => procs[a].ran = <<>>
       /\ ow.pc \in {"instantiating", "instantiated", "run"} => procs[a].ran = <<"instantiate">>
       /\ ow.pc \in {"running", "ran"} \cup Session => procs[a].ran = <<"instantiate", "run">>
       /\ ow.pc \in {"instantiate", "instantiating", "instantiated"} => ow.after = 0
       /\ ow.pc = "instantiate" => ss.ready
       /\ ow.pc \in {"run", "running", "ran"} => ow.after = 1 /\ ss.completed >= 1
       /\ ow.pc \in Session => ss.completed = 2 /\ wire = <<>> /\ ~ss.active

\* The groups the owner would kill have the kernel that runs, or is about to.
GroupsAreRecorded ==
    /\ posix => \A a \in Tries :
          \/ procs[a].ran # <<>>
          \/ ow.pc = "instantiate" /\ Live(a) /\ procs[a].kernel = "live"
          => <<a, procs[a].group>> \in ow.groups
    /\ ow.known => ow.closing /\ ow.groups \subseteq ow.target
    /\ ow.pc \in Stopping \ {"sp_begin"} => ow.groups \subseteq ow.target
    /\ ow.pc \in Stopping /\ ow.server => ow.known
    /\ ow.pc = "shutdown" => ow.known

NoneLive == ow.refused \/ \A a \in Tries : ~Live(a)
NoneRuns == ow.refused \/ \A a \in Tries : procs[a].ran # <<>> => procs[a].kernel # "live"

\* What is over, by how far a stop has come.
StopsAdvance ==
    /\ ow.pc \in {"sp_groups", "sp_end"} => NoneLive
    /\ ow.pc = "sp_end" /\ posix => NoneRuns
    /\ ow.pc \in {"join", "files", "unlink", "over"} \/ (ow.pc = "close" /\ ~ow.server) =>
          NoneLive /\ NoneRuns
    /\ ow.pc \in {"unlink", "over"} \/ (ow.pc = "files" /\ ow.closing) =>
          ss.thread # "reads" \/ ow.reported # {}

ManagedInv ==
    /\ ManagedTypes /\ Placed /\ ServersAreKnown /\ KernelsAreFollowed /\ EventsFlow
    /\ BaselineComes /\ GroupsAreRecorded /\ StopsAdvance

USE DEF Ahead, Starting, Session, Activating, Stopping, Live, Idle, NoneLive, NoneRuns

LEMMA ManagedInvInit == ManagedInit => ManagedInv
<1> SUFFICES ASSUME ManagedInit PROVE ManagedInv
  OBVIOUS
<1>1. IsOwner(ow)
  BY Zenon DEF ManagedInit, IsOwner, OwnerFields
<1>2. /\ ow.pc = "enter" /\ ow.attempt = 0 /\ ow.process = 0 /\ ow.failures = {}
      /\ ow.reported = {} /\ ow.faults = 0 /\ ow.files = "none" /\ ~ow.server /\ ~ow.closing
      /\ ~ow.known
  BY DEF ManagedInit
<1>3. \A a \in Tries : procs[a].server = "none" /\ procs[a].kernel = "none" /\ procs[a].ran = <<>>
  BY DEF ManagedInit
<1>4. /\ ss.thread = "none" /\ ss.completed = 0 /\ ~ss.ready /\ ~ss.active /\ wire = <<>>
      /\ ss \in Streams
  BY DEF ManagedInit, NoStream, Streams
<1>5. procs \in [Tries -> Processes]
  BY DEF ManagedInit, Processes
<1>6. ManagedTypes
  BY <1>1, <1>2, <1>4, <1>5, ManagedAssumption DEF ManagedInit, ManagedTypes, ManagedAssumption
<1>7. \A a \in Tries : a # 0
  BY ManagedAssumption DEF Tries, ManagedAssumption
<1> QED
  BY <1>2, <1>3, <1>4, <1>6, <1>7
     DEF ManagedInv, Placed, ServersAreKnown, KernelsAreFollowed, EventsFlow, BaselineComes,
         GroupsAreRecorded, StopsAdvance

\* What the invariant says of the owner, by part.
SameServer(o, p) ==
    /\ o.attempt = p.attempt /\ o.process = p.process /\ o.job = p.job
    /\ o.groups = p.groups /\ o.server = p.server
SameStop(o, p) ==
    /\ o.ret = p.ret /\ o.target = p.target /\ o.known = p.known /\ o.closing = p.closing
    /\ o.refused = p.refused
SameFailures(o, p) == o.failures = p.failures /\ o.reported = p.reported
SameCopy(o, p) ==
    /\ o.copy = p.copy /\ o.first = p.first /\ o.copied = p.copied /\ o.unremoved = p.unremoved
SameOwner(o, p) ==
    /\ SameServer(o, p) /\ SameStop(o, p) /\ SameFailures(o, p) /\ SameCopy(o, p)
    /\ o.files = p.files /\ o.after = p.after /\ o.pc = p.pc

USE DEF SameServer, SameStop, SameFailures, SameCopy

\* Nothing but the owner moves, and nothing of it but where it is.
OwnerSteps == {<<"token", "wait_ready">>, <<"token", "lost">>, <<"wait_ready", "lost">>,
               <<"init_failed", "sp_begin">>, <<"instantiating", "instantiated">>,
               <<"running", "ran">>, <<"before", "open">>, <<"open", "compare">>,
               <<"compare", "operate">>, <<"operate", "after">>, <<"after", "open">>,
               <<"open", "close">>}

WorldRests == UNCHANGED <<posix, procs, ss, wire, edits>>

LEMMA OwnerMoves ==
    ASSUME ManagedInv, IsOwner(ow'), WorldRests, ow'.faults \in 0..MaxFaults,
           SameServer(ow', ow), SameFailures(ow', ow), SameCopy(ow', ow), ow'.files = ow.files,
           ow'.after = ow.after,
           \/ SameStop(ow', ow) /\ ow'.pc = ow.pc
           \/ SameStop(ow', ow) /\ <<ow.pc, ow'.pc>> \in OwnerSteps \ {<<"init_failed", "sp_begin">>}
           \/ /\ ow.pc = "init_failed" /\ ow'.pc = "sp_begin" /\ ow'.ret = "files"
              /\ ow'.known = ow.known /\ ow'.closing = ow.closing
    PROVE  ManagedInv'
BY DEF OwnerSteps, WorldRests, ManagedInv, ManagedTypes, Placed, ServersAreKnown, KernelsAreFollowed,
       EventsFlow, BaselineComes, GroupsAreRecorded, StopsAdvance

\* A call of the owner raises: the server that was not made yet, or the context, is closed.
Raising == {"copy", "constructor", "spawn", "token", "wait_ready", "lost", "retry"}
           \cup Activating \cup Session

LEMMA RaisedIs ==
    ASSUME NEW o, IsOwner(o)
    PROVE  /\ IsOwner(Raised(o)) /\ SameServer(Raised(o), o) /\ SameStop(Raised(o), o)
           /\ SameCopy(Raised(o), o) /\ Raised(o).after = o.after /\ Raised(o).files = o.files
           /\ Raised(o).reported = o.reported /\ Raised(o).failures = {}
           /\ Raised(o).faults = o.faults
           /\ Raised(o).pc = IF o.files = "open" /\ ~o.server THEN "init_failed" ELSE "close"
<1>1. IsOwner(Raised(o))
  BY Zenon DEF IsOwner, Raised
<1> QED
  BY <1>1 DEF IsOwner, OwnerFields, Raised

LEMMA RaiseKeeps ==
    ASSUME ManagedInv, WorldRests, ow.pc \in Raising, NEW o, IsOwner(o), ow' = Raised(o),
           SameServer(o, ow), SameStop(o, ow), SameFailures(o, ow), SameCopy(o, ow),
           o.after = ow.after, o.faults \in 0..MaxFaults,
           o.files = ow.files \/ (ow.pc = "constructor" /\ o.files = "open")
    PROVE  ManagedInv'
<1>1. /\ IsOwner(ow') /\ SameServer(ow', ow) /\ SameStop(ow', ow) /\ SameCopy(ow', ow)
      /\ ow'.after = ow.after /\ ow'.files = o.files /\ ow'.reported = ow.reported
      /\ ow'.failures = {} /\ ow'.faults \in 0..MaxFaults
      /\ ow'.pc = IF o.files = "open" /\ ~ow.server THEN "init_failed" ELSE "close"
  BY RaisedIs
<1>2. \A a \in Tries : a # 0
  BY ManagedAssumption DEF Tries, ManagedAssumption
<1> QED
  BY <1>1, <1>2
     DEF Raising, WorldRests, ManagedInv, ManagedTypes, Placed, ServersAreKnown,
         KernelsAreFollowed, EventsFlow, BaselineComes, GroupsAreRecorded, StopsAdvance

LEMMA RaiseKeeps1 ==
    ASSUME ManagedInv, WorldRests, ow.pc \in Raising, ow' = Raised(ow) \/ CallFails
    PROVE  ManagedInv'
<1>1. IsOwner(ow) /\ ow.faults \in 0..MaxFaults
  BY DEF ManagedInv, ManagedTypes
<1>2. CASE ow' = Raised(ow)
  BY <1>1, <1>2, RaiseKeeps
<1>3. CASE CallFails
  <2> DEFINE o == [ow EXCEPT !.faults = @ + 1]
  <2>1. IsOwner(o)
    BY <1>1, Zenon DEF IsOwner
  <2>2. SameOwner(o, ow)
    BY <1>1 DEF IsOwner, OwnerFields, SameOwner
  <2>3. o.faults \in 0..MaxFaults
    BY <1>1, <1>3, ManagedAssumption DEF IsOwner, OwnerFields, CallFails, ManagedAssumption
  <2>4. ow' = Raised(o)
    BY <1>3 DEF CallFails, RaisedFault
  <2> HIDE DEF o
  <2> QED
    BY <2>1, <2>2, <2>3, <2>4, RaiseKeeps DEF SameOwner
<1> QED
  BY <1>2, <1>3

\* What a step of the owner starts from.
LEMMA OwnerKnown ==
    ASSUME ManagedInv
    PROVE  /\ IsOwner(ow) /\ ow.faults \in 0..MaxFaults /\ edits \in 0..MaxEdits
           /\ procs \in [Tries -> Processes] /\ ss \in Streams /\ SameOwner(ow, ow)
BY DEF ManagedInv, ManagedTypes, SameOwner

\* The owner goes on to pc, and may count an operation, a fault, an accepted event.
LEMMA GoesTo ==
    ASSUME ManagedInv, Rest, NEW pc, <<ow.pc, pc>> \in OwnerSteps \ {<<"init_failed", "sp_begin">>},
           \/ ow' = [ow EXCEPT !.pc = pc]
           \/ ow' = [ow EXCEPT !.pc = pc, !.ops = @ + 1]
           \/ ow' = [ow EXCEPT !.pc = pc, !.seen = ss.generation]
           \/ ow.faults < MaxFaults /\ ow' = [ow EXCEPT !.pc = pc, !.faults = @ + 1]
    PROVE  ManagedInv'
<1>1. IsOwner(ow) /\ ow.faults \in 0..MaxFaults
  BY OwnerKnown
<1>2. IsOwner(ow')
  BY <1>1, Zenon DEF IsOwner
<1> DEFINE Went == /\ SameServer(ow', ow) /\ SameStop(ow', ow) /\ SameFailures(ow', ow)
                   /\ SameCopy(ow', ow) /\ ow'.files = ow.files /\ ow'.after = ow.after
                   /\ ow'.pc = pc /\ ow'.faults \in 0..MaxFaults
<1>3. CASE ow' = [ow EXCEPT !.pc = pc]
  <2>1. Went
    BY <1>1, <1>3 DEF IsOwner, OwnerFields
  <2> QED
    BY <1>2, <2>1, OwnerMoves DEF Rest, OtherUnchanged, WorldRests
<1>4. CASE ow' = [ow EXCEPT !.pc = pc, !.ops = @ + 1]
  <2>1. Went
    BY <1>1, <1>4 DEF IsOwner, OwnerFields
  <2> QED
    BY <1>2, <2>1, OwnerMoves DEF Rest, OtherUnchanged, WorldRests
<1>5. CASE ow' = [ow EXCEPT !.pc = pc, !.seen = ss.generation]
  <2>1. Went
    BY <1>1, <1>5 DEF IsOwner, OwnerFields
  <2> QED
    BY <1>2, <2>1, OwnerMoves DEF Rest, OtherUnchanged, WorldRests
<1>6. CASE ow.faults < MaxFaults /\ ow' = [ow EXCEPT !.pc = pc, !.faults = @ + 1]
  <2>1. Went
    BY <1>1, <1>6, ManagedAssumption DEF IsOwner, OwnerFields, ManagedAssumption
  <2> QED
    BY <1>2, <2>1, OwnerMoves DEF Rest, OtherUnchanged, WorldRests
<1> QED
  BY <1>3, <1>4, <1>5, <1>6

LEMMA OperatesKeep == ASSUME ManagedInv, Operates PROVE ManagedInv'
<1>1. Rest /\ (Rest => WorldRests)
  BY SMTT(60) DEF Operates, ServerIsOpen, SourceStable, StartOperation, Compare, Operate, CompareAfter, Exit,
         Rest, OtherUnchanged, WorldRests
<1>2. ASSUME NEW pc, NEW next, SourceStable(pc, next),
             <<pc, next>> \in {<<"before", "open">>, <<"compare", "operate">>, <<"after", "open">>}
      PROVE  ManagedInv'
  <2>1. ow.pc = pc /\ (ow' = Raised(ow) \/ ow' = [ow EXCEPT !.pc = next])
    BY <1>2 DEF SourceStable, OwnerAt
  <2> QED
    BY <1>1, <1>2, <2>1, RaiseKeeps1, GoesTo DEF Raising, OwnerSteps
<1>3. CASE StartOperation
  <2>1. ow.pc = "open" /\ ow' = [ow EXCEPT !.pc = "compare", !.ops = @ + 1]
    BY SMTT(60), <1>3 DEF StartOperation, OwnerAt
  <2> QED
    BY <1>1, <2>1, GoesTo DEF OwnerSteps
<1>4. CASE Operate
  <2>1. /\ ow.pc = "operate"
        /\ ow' = [ow EXCEPT !.pc = "after"] \/ ow' = Raised(ow) \/ CallFails
    BY <1>4 DEF Operate, OwnerAt, Goto
  <2> QED
    BY <1>1, <2>1, RaiseKeeps1, GoesTo DEF Raising, OwnerSteps
<1>5. CASE Exit
  <2>1. ow.pc = "open" /\ ow' = [ow EXCEPT !.pc = "close"]
    BY <1>5 DEF Exit, OwnerAt, Goto
  <2> QED
    BY <1>1, <2>1, GoesTo DEF OwnerSteps
<1> QED
  BY <1>2, <1>3, <1>4, <1>5 DEF Operates, ServerIsOpen, Compare, CompareAfter

\* A server is made, or is not quite.
LEMMA SpawnKeeps == ASSUME ManagedInv, Spawn PROVE ManagedInv'
<1> DEFINE a == ow.attempt + 1
           G == IF posix THEN ow.groups \cup {<<a, "server">>} ELSE ow.groups
           o == [ow EXCEPT !.attempt = a, !.process = a, !.groups = G]
           P == [procs EXCEPT ![a].server = "live"]
           Q == [P EXCEPT ![a].server = "dead"]
<1>1. IsOwner(ow) /\ ow.faults \in 0..MaxFaults /\ procs \in [Tries -> Processes] /\ ow.pc = "spawn"
  BY OwnerKnown DEF Spawn, OwnerAt
<1>2. a \in Tries /\ a \in 0..Attempts /\ a # ow.attempt
  BY <1>1, ManagedAssumption DEF ManagedInv, ManagedTypes, Placed, Tries, ManagedAssumption
<1>3. IsOwner(o) /\ SameStop(o, ow) /\ SameFailures(o, ow) /\ SameCopy(o, ow) /\ o.files = ow.files
      /\ o.after = ow.after /\ o.attempt = a /\ o.process = a /\ o.server = ow.server
      /\ o.faults = ow.faults /\ o.job = ow.job
  <2>1. IsOwner(o)
    BY <1>1, Zenon DEF IsOwner
  <2> QED
    BY <1>1, <2>1 DEF IsOwner, OwnerFields
<1>4. /\ P \in [Tries -> Processes] /\ Q \in [Tries -> Processes]
      /\ \A b \in Tries : /\ P[b].kernel = procs[b].kernel /\ P[b].ran = procs[b].ran
                          /\ Q[b].kernel = procs[b].kernel /\ Q[b].ran = procs[b].ran
                          /\ b # a => P[b] = procs[b] /\ Q[b] = procs[b]
  BY ZenonT(60), <1>1, <1>2 DEF Processes
<1>5. UNCHANGED <<ss, wire, posix, edits>>
  BY DEF Spawn, OtherUnchanged
<1> HIDE DEF o, P, Q, a
<1>6. CASE CallFails /\ UNCHANGED procs
  BY <1>1, <1>5, <1>6, RaiseKeeps1 DEF Raising, WorldRests
<1>7. ASSUME procs' \in {P, Q}, IsOwner(ow'), SameStop(ow', ow), ow'.reported = ow.reported,
             ow'.failures \subseteq ow.failures, SameCopy(ow', ow), ow'.files = ow.files,
             ow'.attempt = a, ow'.process = a, ow'.server = ow.server, ow'.faults \in 0..MaxFaults,
             ow'.pc = "init_failed" \/ (ow'.pc = "token" /\ (ow'.job <=> ~posix))
      PROVE  ManagedInv'
  <2>1. /\ procs' \in [Tries -> Processes]
        /\ \A b \in Tries : /\ procs'[b].kernel = procs[b].kernel /\ procs'[b].ran = procs[b].ran
                            /\ b # a => procs'[b] = procs[b]
    BY <1>4, <1>7
  <2>2. ManagedTypes'
    BY <1>2, <1>5, <1>7, <2>1 DEF ManagedInv, ManagedTypes
  <2> QED
    BY <1>1, <1>2, <1>5, <1>7, <2>1, <2>2
       DEF ManagedInv, Placed, ServersAreKnown, KernelsAreFollowed, EventsFlow,
           BaselineComes, GroupsAreRecorded, StopsAdvance, Flow
<1>8. ~ow.server /\ ow.files = "open"
  BY <1>1 DEF ManagedInv, Placed
<1>9. CASE procs' = P /\ ow' = [o EXCEPT !.pc = "token", !.job = ~posix]
  <2>1. IsOwner(ow')
    BY <1>3, <1>9, Zenon DEF IsOwner
  <2>2. SameStop(ow', o) /\ SameFailures(ow', o) /\ SameCopy(ow', o) /\ ow'.files = o.files
        /\ ow'.attempt = a /\ ow'.process = a /\ ow'.server = o.server /\ ow'.faults = o.faults
        /\ ow'.pc = "token" /\ (ow'.job <=> ~posix)
    BY <1>3, <1>9 DEF IsOwner, OwnerFields
  <2> QED
    BY <1>1, <1>3, <1>7, <1>8, <1>9, <2>1, <2>2
<1>10. CASE ow.faults < MaxFaults /\ ow' = RaisedFault(o) /\ procs' \in {P, Q}
  <2> DEFINE f == [o EXCEPT !.faults = @ + 1]
  <2>1. IsOwner(f)
    BY <1>3, Zenon DEF IsOwner
  <2>2. SameStop(f, o) /\ SameFailures(f, o) /\ SameCopy(f, o) /\ f.files = o.files
        /\ f.attempt = a /\ f.process = a /\ f.server = o.server
    BY <1>3 DEF IsOwner, OwnerFields
  <2>3. f.faults \in 0..MaxFaults
    BY <1>1, <1>3, <1>10, ManagedAssumption DEF IsOwner, OwnerFields, ManagedAssumption
  <2>4. ow' = Raised(f)
    BY <1>10 DEF RaisedFault
  <2> HIDE DEF f
  <2>5. IsOwner(ow') /\ SameServer(ow', f) /\ SameStop(ow', f) /\ SameCopy(ow', f)
        /\ ow'.files = f.files /\ ow'.reported = f.reported /\ ow'.failures = {}
        /\ ow'.faults = f.faults /\ ow'.pc = "init_failed"
    BY <1>3, <1>8, <2>1, <2>2, <2>4, RaisedIs
  <2> QED
    BY <1>1, <1>3, <1>7, <1>8, <1>10, <2>2, <2>3, <2>5
<1> QED
  BY <1>6, <1>9, <1>10 DEF Spawn, a, o, P, Q

LEMMA StartsKeep == ASSUME ManagedInv, Starts PROVE ManagedInv'
<1>1. IsOwner(ow) /\ ow.faults \in 0..MaxFaults /\ edits \in 0..MaxEdits /\ SameOwner(ow, ow)
  BY OwnerKnown
<1>2. ASSUME Rest PROVE WorldRests
  BY <1>2 DEF Rest, OtherUnchanged, WorldRests
<1>3. CASE Enter
  <2>1. IsOwner(ow')
    BY <1>1, <1>3, Zenon DEF IsOwner, Enter
  <2>2. /\ ow.pc = "enter" /\ ow'.pc = "copy" /\ ow'.copied = ow.copied /\ ow'.copy = ow.copy
        /\ SameServer(ow', ow) /\ SameStop(ow', ow) /\ SameFailures(ow', ow)
        /\ ow'.after = ow.after /\ ow'.files = ow.files /\ ow'.faults = ow.faults
    BY <1>1, <1>3 DEF Enter, OwnerAt, IsOwner, OwnerFields
  <2> QED
    BY <1>1, <1>3, <2>1, <2>2
       DEF Enter, Rest, OtherUnchanged, ManagedInv, ManagedTypes,
           Placed, ServersAreKnown, KernelsAreFollowed, EventsFlow, BaselineComes,
           GroupsAreRecorded, StopsAdvance
<1>4. CASE CopyNotebook
  <2>1. ow.pc = "copy" /\ WorldRests
    BY <1>2, <1>4 DEF CopyNotebook, OwnerAt
  <2>2. CASE ow' = [ow EXCEPT !.pc = "constructor", !.copy = "kept", !.copied = edits]
             /\ edits = ow.first
    <3>1. IsOwner(ow')
      BY <1>1, <2>2, Zenon DEF IsOwner
    <3>2. /\ ow'.pc = "constructor" /\ ow'.copied = ow.first /\ ow'.first = ow.first
          /\ SameServer(ow', ow) /\ SameStop(ow', ow) /\ SameFailures(ow', ow)
          /\ ow'.after = ow.after /\ ow'.files = ow.files /\ ow'.faults = ow.faults
      BY <1>1, <2>2 DEF IsOwner, OwnerFields
    <3> QED
      BY <1>1, <2>1, <3>1, <3>2
         DEF WorldRests, ManagedInv, ManagedTypes, Placed,
             ServersAreKnown, KernelsAreFollowed, EventsFlow, BaselineComes,
             GroupsAreRecorded, StopsAdvance
  <2> QED
    BY <1>4, <2>1, <2>2, RaiseKeeps1 DEF CopyNotebook, Raising
<1>5. CASE Constructor
  <2> DEFINE o == [ow EXCEPT !.files = "open"]
  <2>1. ow.pc = "constructor" /\ WorldRests
    BY SMTT(60), <1>2, <1>5 DEF Constructor, OwnerAt
  <2>2. CASE ow' = [ow EXCEPT !.pc = "spawn", !.files = "open"]
    <3>1. IsOwner(ow')
      BY <1>1, <2>2, Zenon DEF IsOwner
    <3>2. 0 < Attempts /\ \A a \in Tries : a # 0
      BY ManagedAssumption DEF ManagedAssumption, Tries
    <3> QED
      <4>1. /\ SameServer(ow', ow) /\ SameStop(ow', ow) /\ SameFailures(ow', ow)
            /\ SameCopy(ow', ow) /\ ow'.pc = "spawn" /\ ow'.files = "open"
            /\ ow'.after = ow.after /\ ow'.faults = ow.faults
        BY <1>1, <2>2 DEF IsOwner, OwnerFields
      <4>2. ManagedTypes' /\ Placed'
        BY <1>1, <2>1, <3>1, <3>2, <4>1 DEF WorldRests, ManagedInv, ManagedTypes, Placed
      <4>3. ServersAreKnown' /\ KernelsAreFollowed' /\ EventsFlow'
        BY <1>1, <2>1, <3>2, <4>1
           DEF WorldRests, ManagedInv, Placed, ServersAreKnown, KernelsAreFollowed, EventsFlow
      <4>4. BaselineComes'
        BY <2>1, <4>1 DEF WorldRests, ManagedInv, BaselineComes
      <4>5. GroupsAreRecorded'
        BY <2>1, <4>1 DEF WorldRests, ManagedInv, Placed, GroupsAreRecorded
      <4>6. StopsAdvance'
        BY <2>1, <4>1 DEF WorldRests, ManagedInv, StopsAdvance
      <4> QED
        BY <4>2, <4>3, <4>4, <4>5, <4>6 DEF ManagedInv
  <2>3. CASE ow' = Raised(o)
    <3>1. IsOwner(o)
      BY <1>1, Zenon DEF IsOwner
    <3>2. SameServer(o, ow) /\ SameStop(o, ow) /\ SameFailures(o, ow) /\ SameCopy(o, ow)
          /\ o.after = ow.after /\ o.faults \in 0..MaxFaults /\ o.files = "open"
      BY SMTT(60), <1>1 DEF IsOwner, OwnerFields
    <3> HIDE DEF o
    <3> QED
      BY <2>1, <2>3, <3>1, <3>2, RaiseKeeps DEF Raising
  <2> QED
    BY <1>5, <2>1, <2>2, <2>3, RaiseKeeps1 DEF Constructor, Raising
<1>6. CASE SendToken
  <2>1. /\ ow.pc = "token" /\ Rest /\ WorldRests
        /\ \/ ow' = [ow EXCEPT !.pc = "wait_ready"]
           \/ ow' = [ow EXCEPT !.pc = "lost"]
           \/ ow.faults < MaxFaults /\ ow' = [ow EXCEPT !.pc = "lost", !.faults = @ + 1]
           \/ CallFails
    BY <1>2, <1>6 DEF SendToken, OwnerAt, Goto
  <2> QED
    BY <2>1, GoesTo, RaiseKeeps1 DEF Raising, OwnerSteps
<1>7. CASE WaitReady
  <2>1. ow.pc = "wait_ready" /\ Rest /\ WorldRests
    BY <1>2, <1>7 DEF WaitReady, OwnerAt
  <2>2. CASE ServerRuns /\ ow' = [ow EXCEPT !.pc = "stream", !.server = TRUE]
    <3>1. IsOwner(ow')
      BY <1>1, <2>2, Zenon DEF IsOwner
    <3>2. ow'.server /\ ow'.pc = "stream" /\ SameStop(ow', ow) /\ SameFailures(ow', ow)
          /\ SameCopy(ow', ow) /\ ow'.after = ow.after /\ ow'.files = ow.files
          /\ ow'.attempt = ow.attempt /\ ow'.process = ow.process /\ ow'.job = ow.job
          /\ ow'.groups = ow.groups /\ ow'.faults = ow.faults
      BY <1>1, <2>2 DEF IsOwner, OwnerFields
    <3>3. ow.job <=> ~posix
      BY <2>1 DEF ManagedInv, ServersAreKnown
    <3> QED
      BY <1>1, <2>1, <2>2, <3>1, <3>2, <3>3
         DEF WorldRests, ServerRuns, ManagedInv, ManagedTypes, Placed,
             ServersAreKnown, KernelsAreFollowed, EventsFlow, BaselineComes,
             GroupsAreRecorded, StopsAdvance
  <2>3. CASE ow' = [ow EXCEPT !.pc = "lost"]
    BY <2>1, <2>3, GoesTo DEF OwnerSteps
  <2> QED
    BY <1>7, <2>1, <2>2, <2>3, RaiseKeeps1 DEF WaitReady, Goto, Raising
<1>8. CASE StartFailed
  <2>1. ow.pc = "lost" /\ Rest /\ WorldRests
    BY <1>2, <1>8 DEF StartFailed, OwnerAt
  <2>2. CASE LostPort(ow) /\ ow' = [ow EXCEPT !.pc = "sp_begin", !.ret = "retry"]
    <3>1. IsOwner(ow')
      BY <1>1, <2>2, Zenon DEF IsOwner
    <3>2. ow'.pc = "sp_begin" /\ ow'.ret = "retry" /\ SameServer(ow', ow) /\ SameFailures(ow', ow)
          /\ SameCopy(ow', ow) /\ ow'.after = ow.after /\ ow'.files = ow.files
          /\ ow'.faults = ow.faults /\ ow'.known = ow.known /\ ow'.closing = ow.closing
          /\ ow'.target = ow.target
      BY <1>1, <2>2 DEF IsOwner, OwnerFields
    <3> QED
      BY <1>1, <2>1, <2>2, <3>1, <3>2
         DEF WorldRests, LostPort, ManagedInv, ManagedTypes, Placed,
             ServersAreKnown, KernelsAreFollowed, EventsFlow, BaselineComes,
             GroupsAreRecorded, StopsAdvance
  <2> QED
    BY <1>8, <2>1, <2>2, RaiseKeeps1 DEF StartFailed, Raising
<1>9. CASE Retry
  <2>1. ow.pc = "retry" /\ Rest /\ WorldRests
    BY <1>2, <1>9 DEF Retry, OwnerAt
  <2>2. CASE ow.failures = {} /\ ow' = [ow EXCEPT !.pc = "spawn", !.groups = {}]
    <3>1. IsOwner(ow')
      BY <1>1, <2>2, Zenon DEF IsOwner
    <3>2. ow'.pc = "spawn" /\ SameStop(ow', ow) /\ SameFailures(ow', ow)
          /\ SameCopy(ow', ow) /\ ow'.after = ow.after /\ ow'.files = ow.files
          /\ ow'.attempt = ow.attempt /\ ow'.process = ow.process /\ ow'.job = ow.job
          /\ ow'.server = ow.server /\ ow'.faults = ow.faults
      BY <1>1, <2>2 DEF IsOwner, OwnerFields
    <3> QED
      BY <1>1, <2>1, <2>2, <3>1, <3>2
         DEF WorldRests, ManagedInv, ManagedTypes, Placed,
             ServersAreKnown, KernelsAreFollowed, EventsFlow, BaselineComes,
             GroupsAreRecorded, StopsAdvance
  <2> QED
    BY <1>9, <2>1, <2>2, RaiseKeeps1 DEF Retry, Raising
<1>10. CASE InitFailed
  <2>1. /\ ow.pc = "init_failed" /\ WorldRests
        /\ ow' = [ow EXCEPT !.pc = "sp_begin", !.ret = "files"]
    BY <1>2, <1>10 DEF InitFailed, OwnerAt
  <2>2. IsOwner(ow')
    BY <1>1, <2>1, Zenon DEF IsOwner
  <2>3. SameServer(ow', ow) /\ SameFailures(ow', ow) /\ SameCopy(ow', ow) /\ ow'.files = ow.files
        /\ ow'.after = ow.after /\ ow'.pc = "sp_begin" /\ ow'.ret = "files"
        /\ ow'.known = ow.known /\ ow'.closing = ow.closing /\ ow'.faults = ow.faults
    BY <1>1, <2>1 DEF IsOwner, OwnerFields
  <2> QED
    BY <1>1, <2>1, <2>2, <2>3, OwnerMoves
<1> QED
  BY <1>3, <1>4, <1>5, <1>6, <1>7, <1>8, <1>9, <1>10, SpawnKeeps DEF Starts

\* A wait that goes on, or fails.
LEMMA WaitsOn ==
    ASSUME ManagedInv, Rest, ow.pc \in Raising,
           ow' = Raised(ow) \/ CallFails \/ ow' = [ow EXCEPT !.seen = ss.generation]
    PROVE  ManagedInv'
<1>1. IsOwner(ow) /\ ow.faults \in 0..MaxFaults /\ edits \in 0..MaxEdits /\ WorldRests
  BY OwnerKnown DEF Rest, OtherUnchanged, WorldRests
<1>2. CASE ow' = [ow EXCEPT !.seen = ss.generation]
  <2>1. IsOwner(ow')
    BY <1>1, <1>2, Zenon DEF IsOwner
  <2>2. SameServer(ow', ow) /\ SameStop(ow', ow) /\ SameFailures(ow', ow) /\ SameCopy(ow', ow)
        /\ ow'.files = ow.files /\ ow'.after = ow.after /\ ow'.pc = ow.pc
        /\ ow'.faults = ow.faults
    BY <1>1, <1>2 DEF IsOwner, OwnerFields
  <2> QED
    BY <1>1, <2>1, <2>2, OwnerMoves
<1> QED
  BY <1>1, <1>2, RaiseKeeps1

\* With the groups it sees, the owner has that of the kernel.
LEMMA GroupsSeen ==
    ASSUME NEW o, IsOwner(o)
    PROVE  /\ IsOwner(WithGroups(o)) /\ WithGroups(o).groups = o.groups \cup OwnedProcessGroups
           /\ SameStop(WithGroups(o), o) /\ SameFailures(WithGroups(o), o)
           /\ SameCopy(WithGroups(o), o) /\ WithGroups(o).files = o.files
           /\ WithGroups(o).after = o.after /\ WithGroups(o).pc = o.pc
           /\ WithGroups(o).attempt = o.attempt /\ WithGroups(o).process = o.process
           /\ WithGroups(o).job = o.job /\ WithGroups(o).server = o.server
           /\ WithGroups(o).faults = o.faults
<1>1. IsOwner(WithGroups(o))
  BY Zenon DEF IsOwner, WithGroups
<1> QED
  BY <1>1 DEF IsOwner, OwnerFields, WithGroups

LEMMA OpenStreamKeeps == ASSUME ManagedInv, OpenStream PROVE ManagedInv'
<1>1. /\ IsOwner(ow) /\ ow.faults \in 0..MaxFaults /\ edits \in 0..MaxEdits /\ ss \in Streams
      /\ ow.pc = "stream" /\ UNCHANGED <<posix, procs, wire, edits>>
  BY OwnerKnown DEF OpenStream, OwnerAt, OtherUnchanged
<1>2. CASE /\ ss' = [ss EXCEPT !.thread = "reads"]
           /\ ow' = [ow EXCEPT !.pc = "kernel", !.seen = 0]
  <2>1. IsOwner(ow')
    BY <1>1, <1>2, Zenon DEF IsOwner
  <2>2. /\ SameServer(ow', ow) /\ SameStop(ow', ow) /\ SameFailures(ow', ow)
        /\ SameCopy(ow', ow) /\ ow'.files = ow.files /\ ow'.after = ow.after
        /\ ow'.pc = "kernel" /\ ow'.faults = ow.faults
    BY <1>1, <1>2 DEF IsOwner, OwnerFields
  <2>3. /\ ss' \in Streams /\ ss'.thread = "reads" /\ ss'.completed = ss.completed
        /\ ss'.ready = ss.ready /\ ss'.active = ss.active
    BY <1>1, <1>2 DEF Streams
  <2> QED
    BY <1>1, <2>1, <2>2, <2>3
       DEF ManagedInv, ManagedTypes, Placed, ServersAreKnown, KernelsAreFollowed,
           EventsFlow, Flow, BaselineComes, GroupsAreRecorded, StopsAdvance
<1> QED
  BY <1>1, <1>2, RaiseKeeps1 DEF OpenStream, WorldRests, Raising

LEMMA WaitForKernelKeeps == ASSUME ManagedInv, WaitForKernel PROVE ManagedInv'
<1>1. /\ IsOwner(ow) /\ ow.faults \in 0..MaxFaults /\ edits \in 0..MaxEdits
      /\ ow.pc = "kernel" /\ Rest /\ WorldRests
  BY OwnerKnown DEF WaitForKernel, Wait, OwnerAt, Rest, OtherUnchanged, WorldRests
<1>2. CASE ss.ready /\ ow' = [WithGroups(ow) EXCEPT !.pc = "instantiate", !.after = ss.completed]
  <2> DEFINE o == WithGroups(ow)
  <2>1. /\ IsOwner(o) /\ o.groups = ow.groups \cup OwnedProcessGroups
        /\ SameStop(o, ow) /\ SameFailures(o, ow) /\ SameCopy(o, ow) /\ o.files = ow.files
        /\ o.attempt = ow.attempt /\ o.process = ow.process /\ o.job = ow.job
        /\ o.server = ow.server /\ o.faults = ow.faults
    BY <1>1, GroupsSeen
  <2> HIDE DEF o
  <2>2. ow' = [o EXCEPT !.pc = "instantiate", !.after = ss.completed]
    BY <1>2 DEF o
  <2>3. IsOwner(ow')
    BY <2>1, <2>2, Zenon DEF IsOwner
  <2>4. SameServer(ow', o) /\ SameStop(ow', o) /\ SameFailures(ow', o) /\ SameCopy(ow', o)
        /\ ow'.files = o.files /\ ow'.after = ss.completed /\ ow'.pc = "instantiate"
        /\ ow'.faults = o.faults
    BY <2>1, <2>2 DEF IsOwner, OwnerFields
  <2>5. \A a \in Tries : posix /\ Live(a) /\ procs[a].kernel = "live" =>
                            <<a, procs[a].group>> \in OwnedProcessGroups
    <3>1. \A a \in Tries : Live(a) => a = ow.process /\ a # 0
      BY ManagedAssumption DEF ManagedInv, ServersAreKnown, Tries, ManagedAssumption
    <3> QED
      BY <3>1 DEF OwnedProcessGroups, Members
  <2>6. \A a \in Tries : a = ow.attempt => ss.completed = 0
    BY SMTT(60), <1>1 DEF ManagedInv, BaselineComes, EventsFlow, Flow
  <2> QED
    BY <1>1, <1>2, <2>1, <2>3, <2>4, <2>5, <2>6
       DEF WorldRests, ManagedInv, ManagedTypes, Placed, ServersAreKnown, KernelsAreFollowed,
           EventsFlow, BaselineComes, GroupsAreRecorded, StopsAdvance
<1> QED
  BY <1>1, <1>2, WaitsOn DEF WaitForKernel, Wait, Raising

\* What a kernel that ran one request has run after the next.
LEMMA AppendOfOne ==
    ASSUME NEW S, NEW x \in S, NEW y \in S
    PROVE  Append(<<x>>, y) = <<x, y>>
<1> DEFINE s == <<x>>
           t == <<x, y>>
           u == Append(s, y)
<1>1. s \in Seq(S) /\ Len(s) = 1 /\ s[1] = x
  OBVIOUS
<1>2. t \in Seq(S) /\ Len(t) = 2 /\ t[1] = x /\ t[2] = y
  OBVIOUS
<1>3. \A q \in Seq(S), e \in S :
         /\ Append(q, e) \in Seq(S) /\ Len(Append(q, e)) = Len(q) + 1
         /\ Append(q, e)[Len(q) + 1] = e
  OBVIOUS
<1>4. \A q \in Seq(S), e \in S : \A i \in 1..Len(q) : Append(q, e)[i] = q[i]
  OBVIOUS
<1>5. \A p, q \in Seq(S) : Len(p) = Len(q) /\ (\A i \in 1..Len(p) : p[i] = q[i]) => p = q
  OBVIOUS
<1> HIDE DEF s, t
<1>6. u \in Seq(S) /\ Len(u) = Len(s) + 1 /\ u[Len(s) + 1] = y
  BY <1>1, <1>3, Zenon
<1>7. \A i \in 1..Len(s) : u[i] = s[i]
  BY <1>1, <1>4, Zenon
<1> HIDE DEF u
<1>8. \A i \in 1..2 : u[i] = t[i]
  BY <1>1, <1>2, <1>6, <1>7
<1>9. u = t
  BY <1>1, <1>2, <1>5, <1>6, <1>8
<1> QED
  BY <1>9 DEF s, t, u

\* The kernel is asked to run, and sends its events.
LEMMA PostKeeps ==
    ASSUME ManagedInv, UNCHANGED <<posix, ss, edits>>, ServerRuns,
           procs[ow.process].kernel = "live",
           NEW request, NEW next, NEW es \in Events(request), ow' = [ow EXCEPT !.pc = next],
           wire' = wire \o es,
           procs' = [procs EXCEPT ![ow.process].ran = Append(@, request)],
           <<ow.pc, request, next>> \in {<<"instantiate", "instantiate", "instantiating">>,
                                         <<"run", "run", "running">>}
    PROVE  ManagedInv'
<1> DEFINE a == ow.process
<1>1. /\ IsOwner(ow) /\ ow.faults \in 0..MaxFaults /\ edits \in 0..MaxEdits /\ ss \in Streams
      /\ procs \in [Tries -> Processes]
  BY OwnerKnown
<1>2. /\ a = ow.attempt /\ a \in Tries /\ Live(a) /\ procs[a].kernel = "live"
      /\ Flow(wire, ss, procs[a]) /\ procs[a] \in Processes
  BY <1>1, ManagedAssumption
     DEF ServerRuns, ManagedInv, ManagedTypes, ServersAreKnown, EventsFlow, Tries, ManagedAssumption
<1>3. IsOwner(ow')
  BY <1>1, Zenon DEF IsOwner
<1>4. SameServer(ow', ow) /\ SameStop(ow', ow) /\ SameFailures(ow', ow) /\ SameCopy(ow', ow)
      /\ ow'.files = ow.files /\ ow'.after = ow.after /\ ow'.pc = next /\ ow'.faults = ow.faults
  BY <1>1 DEF IsOwner, OwnerFields
<1> HIDE DEF a
<1>5. /\ procs'[a].ran = Append(procs[a].ran, request) /\ procs'[a].kernel = procs[a].kernel
      /\ procs'[a].group = procs[a].group /\ procs'[a].server = procs[a].server
      /\ \A b \in Tries : b # a => procs'[b] = procs[b]
      /\ procs'[a].port = procs[a].port
      /\ procs'[a] = [procs[a] EXCEPT !.ran = Append(@, request)]
      /\ procs' = [b \in Tries |-> procs'[b]]
  BY <1>1, <1>2 DEF Processes, a
<1>6. /\ request \in {"instantiate", "run"}
      /\ Append(procs[a].ran, request) \in Seq({"instantiate", "run"})
  BY <1>2 DEF Processes
<1>7. procs'[a] \in Processes /\ procs' \in [Tries -> Processes]
  <2>1. procs'[a] \in Processes
    BY <1>2, <1>5, <1>6 DEF Processes
  <2> QED
    BY SMTT(60), <1>1, <1>5, <2>1
<1>8. CASE ow.pc = "instantiate"
  <2>1. request = "instantiate" /\ next = "instantiating" /\ es = <<"done">>
    BY <1>8 DEF Events
  <2>2. procs[a].ran = <<>> /\ ss.ready
    BY <1>2, <1>8 DEF ManagedInv, BaselineComes
  <2>3. wire = <<>> /\ ss.completed = 0 /\ ~ss.active
    BY <1>2, <2>2 DEF Flow
  <2>4. wire' = <<"done">> /\ procs'[a].ran = <<"instantiate">>
    BY SMTT(60), <1>5, <2>1, <2>2, <2>3
  <2>5. Flow(wire', ss', procs'[a])
    BY <1>2, <1>5, <2>3, <2>4 DEF Flow
  <2>6. ManagedTypes' /\ Placed' /\ ServersAreKnown'
    <3>1. ow'.pc = next /\ next \in Activating
      BY <1>4, <2>1
    <3>2. ManagedTypes'
      BY <1>1, <1>3, <1>4, <1>7, Zenon DEF ManagedInv, ManagedTypes
    <3>3. Placed'
      BY <1>4, <1>8, <3>1 DEF ManagedInv, Placed
    <3>4. \A b \in Tries : procs'[b].server = procs[b].server
      BY <1>5
    <3>5. ServersAreKnown'
      <4>1. ow'.pc \notin {"spawn", "retry", "token", "wait_ready"}
        BY <3>1
      <4>2. ow.server => ow.process = ow.attempt /\ (ow.job <=> ~posix)
        BY <1>8 DEF ManagedInv, ServersAreKnown
      <4>3. ow.server => ow.attempt # 0
        BY DEF ManagedInv, ServersAreKnown
      <4>4. \A b \in Tries : Live(b)' => b = ow'.attempt /\ b = ow'.process
        BY <1>4, <3>4 DEF ManagedInv, ServersAreKnown
      <4> QED
        BY <1>4, <4>1, <4>2, <4>3, <4>4 DEF ServersAreKnown
    <3> QED
      BY <3>2, <3>3, <3>5
  <2>7. KernelsAreFollowed' /\ EventsFlow'
    <3>1. KernelsAreFollowed'
      BY ZenonT(60), <1>2, <1>4, <1>5, <1>8, <2>1 DEF ManagedInv, KernelsAreFollowed
    <3>2. EventsFlow'
      BY <1>2, <1>4, <2>5 DEF EventsFlow
    <3> QED
      BY <3>1, <3>2
  <2>8. BaselineComes'
    BY <1>2, <1>4, <1>8, <2>1, <2>4 DEF ManagedInv, BaselineComes
  <2>9. GroupsAreRecorded' /\ StopsAdvance'
    <3>1. \A b \in Tries : b # a => procs[b].ran = <<>> /\ procs'[b] = procs[b]
      BY <1>2, <1>5 DEF ManagedInv, KernelsAreFollowed
    <3>2. <<a, procs[a].group>> \in ow.groups \/ ~posix
      BY <1>2, <1>8 DEF ManagedInv, GroupsAreRecorded
    <3>3. posix' = posix /\ procs'[a].group = procs[a].group
          /\ \A b \in Tries : procs'[b].group = procs[b].group /\ procs'[b].kernel = procs[b].kernel
      BY <1>5
    <3>4. GroupsAreRecorded'
      <4>1. ASSUME posix', NEW b \in Tries,
                   procs'[b].ran # <<>> \/ (ow'.pc = "instantiate" /\ Live(b)'
                                            /\ procs'[b].kernel = "live")
            PROVE  <<b, procs'[b].group>> \in ow'.groups
        <5>1. ow'.pc # "instantiate"
          BY <1>4, <2>1
        <5>2. b = a
          BY <3>1, <4>1, <5>1
        <5>3. posix
          <6>1. posix \in BOOLEAN
            BY DEF ManagedInv, ManagedTypes
          <6> QED
            BY <3>3, <4>1, <6>1
        <5>4. <<a, procs[a].group>> \in ow.groups
          BY <3>2, <5>3, Zenon
        <5>5. procs'[a].group = procs[a].group /\ ow'.groups = ow.groups
          BY <1>4, <3>3, Zenon
        <5> QED
          BY <5>2, <5>4, <5>5, Zenon
      <4>2. ow'.pc \notin Stopping /\ ow'.pc # "shutdown"
        BY <1>4, <2>1
      <4>3. ow'.known => ow'.closing /\ ow'.groups \subseteq ow'.target
        BY <1>4, Zenon DEF ManagedInv, GroupsAreRecorded
      <4> QED
        BY <4>1, <4>2, <4>3, Zenon DEF GroupsAreRecorded
    <3>5. StopsAdvance'
      BY <1>4, <2>1 DEF StopsAdvance
    <3> QED
      BY <3>4, <3>5
  <2> QED
    BY <2>6, <2>7, <2>8, <2>9 DEF ManagedInv
<1>9. CASE ow.pc = "run"
  <2>1. request = "run" /\ next = "running"
        /\ es \in {<<"active", "idle", "done">>, <<"active", "done">>}
    BY <1>9 DEF Events
  <2>2. procs[a].ran = <<"instantiate">> /\ ss.completed >= 1
    BY <1>2, <1>9 DEF ManagedInv, BaselineComes
  <2>3. wire = <<>> /\ ss.completed = 1 /\ ~ss.active
    BY SMTT(60), <1>2, <2>2 DEF Flow
  <2>4. wire' = es /\ procs'[a].ran = <<"instantiate", "run">>
    <3>1. \A t \in Seq({"active", "idle", "done"}) : <<>> \o t = t
      OBVIOUS
    <3>2. es \in Seq({"active", "idle", "done"})
      <4>1. <<"active", "idle", "done">> \in Seq({"active", "idle", "done"})
        OBVIOUS
      <4>2. <<"active", "done">> \in Seq({"active", "idle", "done"})
        OBVIOUS
      <4> QED
        BY <2>1, <4>1, <4>2
    <3>3. Append(<<"instantiate">>, "run") = <<"instantiate", "run">>
      <4>1. \A S : \A x \in S, y \in S : Append(<<x>>, y) = <<x, y>>
        BY AppendOfOne, Zenon
      <4>2. "instantiate" \in {"instantiate", "run"} /\ "run" \in {"instantiate", "run"}
        BY Zenon
      <4> QED
        BY <4>1, <4>2, Zenon
    <3> QED
      BY <1>5, <2>1, <2>2, <2>3, <3>1, <3>2, <3>3
  <2>5. Flow(wire', ss', procs'[a])
    BY <1>2, <1>5, <2>1, <2>3, <2>4 DEF Flow
  <2>6. ManagedTypes' /\ Placed' /\ ServersAreKnown'
    <3>1. ow'.pc = next /\ next \in Activating
      BY <1>4, <2>1
    <3>2. ManagedTypes'
      BY <1>1, <1>3, <1>4, <1>7, Zenon DEF ManagedInv, ManagedTypes
    <3>3. Placed'
      BY <1>4, <1>9, <3>1 DEF ManagedInv, Placed
    <3>4. \A b \in Tries : procs'[b].server = procs[b].server
      BY <1>5
    <3>5. ServersAreKnown'
      <4>1. ow'.pc \notin {"spawn", "retry", "token", "wait_ready"}
        BY <3>1
      <4>2. ow.server => ow.process = ow.attempt /\ (ow.job <=> ~posix)
        BY <1>9 DEF ManagedInv, ServersAreKnown
      <4>3. ow.server => ow.attempt # 0
        BY DEF ManagedInv, ServersAreKnown
      <4>4. \A b \in Tries : Live(b)' => b = ow'.attempt /\ b = ow'.process
        BY <1>4, <3>4 DEF ManagedInv, ServersAreKnown
      <4> QED
        BY <1>4, <4>1, <4>2, <4>3, <4>4 DEF ServersAreKnown
    <3> QED
      BY <3>2, <3>3, <3>5
  <2>7. KernelsAreFollowed' /\ EventsFlow'
    <3>1. KernelsAreFollowed'
      BY ZenonT(60), <1>2, <1>4, <1>5, <1>9, <2>1 DEF ManagedInv, KernelsAreFollowed
    <3>2. EventsFlow'
      BY <1>2, <1>4, <2>5 DEF EventsFlow
    <3> QED
      BY <3>1, <3>2
  <2>8. BaselineComes'
    BY <1>2, <1>4, <1>9, <2>1, <2>2, <2>4 DEF ManagedInv, BaselineComes
  <2>9. GroupsAreRecorded' /\ StopsAdvance'
    <3>1. \A b \in Tries : b # a => procs[b].ran = <<>> /\ procs'[b] = procs[b]
      BY <1>2, <1>5 DEF ManagedInv, KernelsAreFollowed
    <3>2. <<a, procs[a].group>> \in ow.groups \/ ~posix
      <4>1. procs[a].ran # <<>>
        BY <2>2
      <4> QED
        BY <1>2, <4>1, Zenon DEF ManagedInv, GroupsAreRecorded
    <3>3. posix' = posix /\ procs'[a].group = procs[a].group
          /\ \A b \in Tries : procs'[b].group = procs[b].group /\ procs'[b].kernel = procs[b].kernel
      BY <1>5
    <3>4. GroupsAreRecorded'
      <4>1. ASSUME posix', NEW b \in Tries,
                   procs'[b].ran # <<>> \/ (ow'.pc = "instantiate" /\ Live(b)'
                                            /\ procs'[b].kernel = "live")
            PROVE  <<b, procs'[b].group>> \in ow'.groups
        <5>1. ow'.pc # "instantiate"
          BY <1>4, <2>1
        <5>2. b = a
          BY <3>1, <4>1, <5>1
        <5>3. posix
          <6>1. posix \in BOOLEAN
            BY DEF ManagedInv, ManagedTypes
          <6> QED
            BY <3>3, <4>1, <6>1
        <5>4. <<a, procs[a].group>> \in ow.groups
          BY <3>2, <5>3, Zenon
        <5>5. procs'[a].group = procs[a].group /\ ow'.groups = ow.groups
          BY <1>4, <3>3, Zenon
        <5> QED
          BY <5>2, <5>4, <5>5, Zenon
      <4>2. ow'.pc \notin Stopping /\ ow'.pc # "shutdown"
        BY <1>4, <2>1
      <4>3. ow'.known => ow'.closing /\ ow'.groups \subseteq ow'.target
        BY <1>4, Zenon DEF ManagedInv, GroupsAreRecorded
      <4> QED
        BY <4>1, <4>2, <4>3, Zenon DEF GroupsAreRecorded
    <3>5. StopsAdvance'
      BY <1>4, <2>1 DEF StopsAdvance
    <3> QED
      BY <3>4, <3>5
  <2> QED
    BY <2>6, <2>7, <2>8, <2>9 DEF ManagedInv
<1> QED
  BY <1>8, <1>9

LEMMA ActivatesKeep == ASSUME ManagedInv, Activates PROVE ManagedInv'
<1>1. /\ IsOwner(ow) /\ ow.faults \in 0..MaxFaults /\ edits \in 0..MaxEdits /\ ss \in Streams
      /\ (Rest => WorldRests)
  BY OwnerKnown DEF Rest, OtherUnchanged, WorldRests
<1>2. ASSUME NEW pc, NEW request, NEW next, Post(pc, request, next),
             <<pc, request, next>> \in {<<"instantiate", "instantiate", "instantiating">>,
                                        <<"run", "run", "running">>}
      PROVE  ManagedInv'
  <2>1. ow.pc = pc /\ UNCHANGED <<posix, ss, edits>>
    BY <1>2 DEF Post, OwnerAt, OtherUnchanged
  <2>2. \/ /\ ServerRuns /\ procs[ow.process].kernel = "live"
           /\ \E es \in Events(request) : wire' = wire \o es
           /\ procs' = [procs EXCEPT ![ow.process].ran = Append(@, request)]
           /\ ow' = [ow EXCEPT !.pc = next]
        \/ (ow' = Raised(ow) \/ CallFails) /\ WorldRests
    BY <1>2, <2>1 DEF Post, Goto, WorldRests
  <2> QED
    BY <1>2, <2>1, <2>2, PostKeeps, RaiseKeeps1 DEF Raising
<1>3. CASE Instantiating \/ RunReplied
  <2>1. Rest /\ WorldRests /\ ow.pc \in {"instantiating", "running"}
    BY <1>1, <1>3 DEF Instantiating, RunReplied, Replied, OwnerAt
  <2>2. \/ /\ ow.pc = "instantiating"
           /\ ow' = [ow EXCEPT !.pc = "instantiated", !.seen = ss.generation]
        \/ ow.pc = "running" /\ ow' = [ow EXCEPT !.pc = "ran", !.seen = ss.generation]
        \/ CallFails
    BY <1>3 DEF Instantiating, RunReplied, Replied, OwnerAt
  <2> QED
    BY <2>1, <2>2, GoesTo, RaiseKeeps1 DEF OwnerSteps, Raising
<1>4. CASE RecordFails \/ CacheInactive
  <2>1. Rest /\ WorldRests /\ CallFails /\ ow.pc \in {"kernel", "instantiated"}
    BY <1>1, <1>4 DEF RecordFails, CacheInactive, OwnerAt
  <2> QED
    BY <2>1, RaiseKeeps1 DEF Raising
<1>5. CASE WaitInstantiated
  <2>1. ow.pc = "instantiated" /\ Rest /\ WorldRests
    BY <1>1, <1>5 DEF WaitInstantiated, RunIsOver, Wait, OwnerAt
  <2>2. CASE CompletedAfter(ow) /\ ow' = [ow EXCEPT !.pc = "run", !.after = ss.completed]
    <3>1. IsOwner(ow')
      BY <1>1, <2>2, Zenon DEF IsOwner
    <3>2. SameServer(ow', ow) /\ SameStop(ow', ow) /\ SameFailures(ow', ow)
          /\ SameCopy(ow', ow) /\ ow'.files = ow.files /\ ow'.after = ss.completed
          /\ ow'.pc = "run" /\ ow'.faults = ow.faults
      BY <1>1, <2>2 DEF IsOwner, OwnerFields
    <3>3. \A a \in Tries : a = ow.attempt => ss.completed = 1
      <4>1. SUFFICES ASSUME NEW a \in Tries, a = ow.attempt PROVE ss.completed = 1
        OBVIOUS
      <4>2. procs[a].ran = <<"instantiate">> /\ ow.after = 0
        BY <2>1, <4>1 DEF ManagedInv, BaselineComes
      <4>3. procs[a].ran # <<>> /\ procs[a].ran # <<"instantiate", "run">>
        BY <4>2
      <4>4. Flow(wire, ss, procs[a])
        BY <4>1 DEF ManagedInv, EventsFlow
      <4>5. ss.completed = 0 \/ ss.completed = 1
        BY <4>3, <4>4 DEF Flow
      <4> QED
        BY <2>2, <4>2, <4>5 DEF CompletedAfter
    <3> QED
      BY <1>1, <2>1, <2>2, <3>1, <3>2, <3>3
         DEF WorldRests, ManagedInv, ManagedTypes, Placed, ServersAreKnown, KernelsAreFollowed,
             EventsFlow, BaselineComes, GroupsAreRecorded, StopsAdvance
  <2> QED
    BY <1>5, <2>1, <2>2, WaitsOn DEF WaitInstantiated, RunIsOver, Wait, Raising
<1>6. CASE WaitRun
  <2>1. ow.pc = "ran" /\ Rest /\ WorldRests
    BY <1>1, <1>6 DEF WaitRun, RunIsOver, Wait, OwnerAt
  <2>2. CASE CompletedAfter(ow) /\ ~ss.active /\ ow' = [ow EXCEPT !.pc = "validate"]
    <3>1. IsOwner(ow')
      BY <1>1, <2>2, Zenon DEF IsOwner
    <3>2. SameServer(ow', ow) /\ SameStop(ow', ow) /\ SameFailures(ow', ow)
          /\ SameCopy(ow', ow) /\ ow'.files = ow.files /\ ow'.after = ow.after
          /\ ow'.pc = "validate" /\ ow'.faults = ow.faults
      BY <1>1, <2>2 DEF IsOwner, OwnerFields
    <3>3. \A a \in Tries : a = ow.attempt => ss.completed = 2 /\ wire = <<>>
      <4>1. SUFFICES ASSUME NEW a \in Tries, a = ow.attempt
                     PROVE  ss.completed = 2 /\ wire = <<>>
        OBVIOUS
      <4>2. procs[a].ran = <<"instantiate", "run">> /\ ow.after = 1
        BY <2>1, <4>1 DEF ManagedInv, BaselineComes
      <4>3. procs[a].ran # <<>> /\ procs[a].ran # <<"instantiate">>
        BY <4>2
      <4>4. Flow(wire, ss, procs[a])
        BY <4>1 DEF ManagedInv, EventsFlow
      <4>5. ss.completed = 1 \/ (ss.completed = 2 /\ wire = <<>>)
        BY <4>3, <4>4 DEF Flow
      <4> QED
        BY <2>2, <4>2, <4>5 DEF CompletedAfter
    <3> QED
      BY <1>1, <2>1, <2>2, <3>1, <3>2, <3>3
         DEF WorldRests, ManagedInv, ManagedTypes, Placed, ServersAreKnown, KernelsAreFollowed,
             EventsFlow, BaselineComes, GroupsAreRecorded, StopsAdvance
  <2> QED
    BY <1>6, <2>1, <2>2, WaitsOn DEF WaitRun, RunIsOver, Wait, Raising
<1>7. CASE Validate
  <2>1. ow.pc = "validate" /\ Rest /\ WorldRests
    BY <1>1, <1>7 DEF Validate, OwnerAt
  <2>2. CASE ow' = [WithGroups(ow) EXCEPT !.pc = "before", !.client = TRUE]
    <3> DEFINE o == WithGroups(ow)
    <3>1. /\ IsOwner(o) /\ o.groups = ow.groups \cup OwnedProcessGroups
          /\ SameStop(o, ow) /\ SameFailures(o, ow) /\ SameCopy(o, ow) /\ o.files = ow.files
          /\ o.attempt = ow.attempt /\ o.process = ow.process /\ o.job = ow.job
          /\ o.server = ow.server /\ o.faults = ow.faults
      BY <1>1, GroupsSeen
    <3> HIDE DEF o
    <3>2. ow' = [o EXCEPT !.pc = "before", !.client = TRUE]
      BY <2>2 DEF o
    <3>3. IsOwner(ow')
      BY <3>1, <3>2, Zenon DEF IsOwner
    <3>4. SameServer(ow', o) /\ SameStop(ow', o) /\ SameFailures(ow', o) /\ SameCopy(ow', o)
          /\ ow'.files = o.files /\ ow'.pc = "before" /\ ow'.faults = o.faults
      BY <3>1, <3>2 DEF IsOwner, OwnerFields
    <3> QED
      BY <1>1, <2>1, <3>1, <3>3, <3>4
         DEF WorldRests, ManagedInv, ManagedTypes, Placed, ServersAreKnown, KernelsAreFollowed,
             EventsFlow, BaselineComes, GroupsAreRecorded, StopsAdvance
  <2> QED
    BY <1>7, <2>1, <2>2, RaiseKeeps1 DEF Validate, Raising
<1> QED
  BY <1>2, <1>3, <1>4, <1>5, <1>6, <1>7, OpenStreamKeeps, WaitForKernelKeeps
     DEF Activates, PostInstantiate, PostRun

\* The reader thread takes the events one by one, and ends.
LEMMA EventHandled ==
    ASSUME NEW K, NEW S \in Streams, NEW W, Flow(W, S, K), W # <<>>, NEW T \in Streams,
           LET event == Head(W) IN
           \/ event = "ready" /\ T.ready /\ T.completed = S.completed /\ T.active = S.active
           \/ /\ event = "bad_ready" /\ T.ready = S.ready
              /\ T.completed = S.completed /\ T.active = S.active
           \/ event = "active" /\ T.active /\ T.completed = S.completed
           \/ event = "idle" /\ ~T.active /\ T.completed = S.completed
           \/ event = "done" /\ T.completed = S.completed + 1 /\ T.active = S.active
    PROVE  Flow(Tail(W), T, K)
<1>1. /\ Head(<<"ready">>) = "ready" /\ Tail(<<"ready">>) = <<>>
      /\ Head(<<"bad_ready">>) = "bad_ready" /\ Tail(<<"bad_ready">>) = <<>>
      /\ Head(<<"done">>) = "done" /\ Tail(<<"done">>) = <<>>
  OBVIOUS
<1>2. /\ Head(<<"active", "done">>) = "active" /\ Tail(<<"active", "done">>) = <<"done">>
      /\ Head(<<"idle", "done">>) = "idle" /\ Tail(<<"idle", "done">>) = <<"done">>
  OBVIOUS
<1>3. /\ Head(<<"active", "idle", "done">>) = "active"
      /\ Tail(<<"active", "idle", "done">>) = <<"idle", "done">>
  OBVIOUS
<1>4. S.completed \in Nat /\ T.completed \in Nat
  BY DEF Streams
<1>5. CASE K.ran = <<>>
  <2>1. W \in {<<"ready">>, <<"bad_ready">>} /\ S.completed = 0 /\ ~S.active
        /\ K.kernel # "none" /\ ~S.ready
    BY <1>5 DEF Flow
  <2>2. Tail(W) = <<>> /\ Head(W) \in {"ready", "bad_ready"}
    BY <1>1, <2>1
  <2>3. T.completed = 0 /\ ~T.active
    BY <2>1, <2>2
  <2> QED
    BY <1>5, <2>1, <2>2, <2>3 DEF Flow
<1>6. CASE K.ran = <<"instantiate">>
  <2>1. W = <<"done">> /\ S.completed = 0 /\ ~S.active /\ K.kernel # "none"
    BY <1>6 DEF Flow
  <2>2. Tail(W) = <<>> /\ Head(W) = "done"
    BY <1>1, <2>1
  <2>3. T.completed = 1 /\ ~T.active
    BY <2>1, <2>2
  <2> QED
    BY <1>6, <2>1, <2>2, <2>3 DEF Flow
<1>7. CASE K.ran = <<"instantiate", "run">>
  <2>1. CASE W \in {<<"active", "idle", "done">>, <<"active", "done">>}
    <3>1. S.completed = 1 /\ ~S.active /\ K.kernel # "none"
      BY <1>7, <2>1 DEF Flow
    <3>2. Head(W) = "active" /\ Tail(W) \in {<<"idle", "done">>, <<"done">>}
      BY <1>2, <1>3, <2>1
    <3>3. T.completed = 1 /\ T.active
      BY <3>1, <3>2
    <3> QED
      BY <1>7, <3>1, <3>2, <3>3 DEF Flow
  <2>2. CASE W = <<"idle", "done">>
    <3>1. S.completed = 1 /\ S.active /\ K.kernel # "none"
      BY <1>7, <2>2 DEF Flow
    <3>2. Head(W) = "idle" /\ Tail(W) = <<"done">>
      BY <1>2, <2>2
    <3>3. T.completed = 1 /\ ~T.active
      BY <3>1, <3>2
    <3> QED
      BY <1>7, <3>1, <3>2, <3>3 DEF Flow
  <2>3. CASE W = <<"done">>
    <3>1. S.completed = 1 /\ K.kernel # "none"
      BY <1>7, <2>3 DEF Flow
    <3>2. Head(W) = "done" /\ Tail(W) = <<>>
      BY <1>1, <2>3
    <3>3. T.completed = 2
      BY <3>1, <3>2
    <3> QED
      BY <1>7, <3>1, <3>2, <3>3 DEF Flow
  <2> QED
    BY <1>7, <2>1, <2>2, <2>3 DEF Flow
<1> QED
  BY <1>5, <1>6, <1>7 DEF Flow

LEMMA ReadsKeep == ASSUME ManagedInv, Reads PROVE ManagedInv'
<1>1. /\ IsOwner(ow) /\ ow.faults \in 0..MaxFaults /\ edits \in 0..MaxEdits /\ ss \in Streams
      /\ procs \in [Tries -> Processes]
  BY OwnerKnown
<1>2. ss.thread = "reads"
  BY DEF Reads, ReadEvent, ReadEnds, ReadStops
<1>3. ow.server /\ ow.attempt \in Tries /\ Flow(wire, ss, procs[ow.attempt])
  BY <1>2, ManagedAssumption
     DEF ManagedInv, KernelsAreFollowed, ManagedTypes, ServersAreKnown, EventsFlow, Tries,
         ManagedAssumption
<1>4. CASE ReadEvent
  <2>1. wire # <<>> /\ ss' = Handled(Head(wire)) /\ wire' = Tail(wire)
        /\ UNCHANGED <<ow, procs, posix, edits>>
    BY <1>4 DEF ReadEvent, ReadUnchanged, OtherUnchanged
  <2>2. Head(wire) \in {"ready", "bad_ready", "active", "idle", "done"}
    <3>1. wire \in {<<"ready">>, <<"bad_ready">>, <<"done">>, <<"active", "idle", "done">>,
                    <<"active", "done">>, <<"idle", "done">>}
      BY <1>3, <2>1 DEF Flow
    <3>2. /\ Head(<<"ready">>) = "ready" /\ Head(<<"bad_ready">>) = "bad_ready"
          /\ Head(<<"done">>) = "done"
      OBVIOUS
    <3>3. /\ Head(<<"active", "done">>) = "active" /\ Head(<<"idle", "done">>) = "idle"
          /\ Head(<<"active", "idle", "done">>) = "active"
      OBVIOUS
    <3> QED
      BY <3>1, <3>2, <3>3
  <2> DEFINE event == Head(wire)
  <2> HIDE DEF event
  <2>3. event \in {"ready", "bad_ready", "active", "idle", "done"} /\ ss' = Handled(event)
    BY <2>1, <2>2 DEF event
  <2> DEFINE EventTaken ==
        \/ event = "ready" /\ ss'.ready /\ ss'.completed = ss.completed /\ ss'.active = ss.active
        \/ event = "bad_ready" /\ ss'.ready = ss.ready /\ ss'.completed = ss.completed
           /\ ss'.active = ss.active
        \/ event = "active" /\ ss'.active /\ ss'.completed = ss.completed
        \/ event = "idle" /\ ~ss'.active /\ ss'.completed = ss.completed
        \/ event = "done" /\ ss'.completed = ss.completed + 1 /\ ss'.active = ss.active
      StreamKept ==
        /\ ss' \in Streams /\ ss'.thread = ss.thread /\ (ss.ready => ss'.ready)
        /\ ss'.completed \in {ss.completed, ss.completed + 1}
  <2>4. EventTaken /\ StreamKept
    <3>0. ss.generation + 1 \in Nat /\ ss.completed + 1 \in Nat
      BY <1>1 DEF Streams
    <3>1. CASE event = "ready"
      <4>1. ss' = [ss EXCEPT !.ready = TRUE, !.generation = @ + 1]
        BY <2>3, <3>1 DEF Handled
      <4>2. ss' \in Streams
        BY <1>1, <3>0, <4>1, Zenon DEF Streams
      <4>3. ss'.ready /\ ss'.completed = ss.completed /\ ss'.active = ss.active
            /\ ss'.thread = ss.thread
        BY <1>1, <4>1 DEF Streams
      <4> QED
        BY <3>1, <4>2, <4>3
    <3>2. CASE event = "bad_ready"
      <4>1. ss' = [ss EXCEPT !.failed = TRUE]
        BY <2>3, <3>2 DEF Handled
      <4> QED
        BY <1>1, <3>2, <4>1 DEF Streams
    <3>3. CASE event = "active"
      <4>1. ss' = [ss EXCEPT !.active = TRUE, !.generation = @ + 1]
        BY <2>3, <3>3 DEF Handled
      <4>2. ss' \in Streams
        BY <1>1, <3>0, <4>1, Zenon DEF Streams
      <4>3. ss'.active /\ ss'.completed = ss.completed /\ ss'.ready = ss.ready
            /\ ss'.thread = ss.thread
        BY <1>1, <4>1 DEF Streams
      <4> QED
        BY <3>3, <4>2, <4>3
    <3>4. CASE event = "idle"
      <4>1. ss' = [ss EXCEPT !.active = FALSE, !.generation = @ + 1]
        BY <2>3, <3>4 DEF Handled
      <4>2. ss' \in Streams
        BY <1>1, <3>0, <4>1, Zenon DEF Streams
      <4>3. ~ss'.active /\ ss'.completed = ss.completed /\ ss'.ready = ss.ready
            /\ ss'.thread = ss.thread
        BY <1>1, <4>1 DEF Streams
      <4> QED
        BY <3>4, <4>2, <4>3
    <3>5. CASE event = "done"
      <4>1. ss' = [ss EXCEPT !.completed = @ + 1, !.generation = @ + 1]
        BY <2>3, <3>5 DEF Handled
      <4>2. ss' \in Streams
        BY <1>1, <3>0, <4>1, Zenon DEF Streams
      <4>3. ss'.completed = ss.completed + 1 /\ ss'.active = ss.active /\ ss'.ready = ss.ready
            /\ ss'.thread = ss.thread
        BY <1>1, <4>1 DEF Streams
      <4> QED
        BY <3>5, <4>2, <4>3
    <3> QED
      BY <2>3, <3>1, <3>2, <3>3, <3>4, <3>5
  <2>5. Flow(wire', ss', procs[ow.attempt])
    BY <1>1, <1>3, <2>1, <2>4, EventHandled DEF event
  <2>6. ManagedTypes' /\ Placed' /\ ServersAreKnown' /\ KernelsAreFollowed'
    BY <1>2, <2>1, <2>4
       DEF ManagedInv, ManagedTypes, Placed, ServersAreKnown, KernelsAreFollowed
  <2>7. EventsFlow'
    BY <2>1, <2>5 DEF EventsFlow
  <2>8. BaselineComes'
    <3>1. ss.completed \in Nat
      BY <1>1 DEF Streams
    <3>2. ow.pc \notin Session
      BY <1>3, <2>1 DEF ManagedInv, BaselineComes
    <3> QED
      BY <1>3, <2>1, <2>4, <3>1, <3>2 DEF ManagedInv, BaselineComes
  <2>9. GroupsAreRecorded' /\ StopsAdvance'
    BY <2>1, <2>4 DEF ManagedInv, GroupsAreRecorded, StopsAdvance
  <2> QED
    BY <2>6, <2>7, <2>8, <2>9 DEF ManagedInv
<1>5. ASSUME UNCHANGED <<procs, wire, posix, edits>>, ow' = ow \/ ReadEnds,
             \E failed \in BOOLEAN : ss' = [ss EXCEPT !.thread = "ended", !.failed = failed]
      PROVE  ManagedInv'
  <2>1. /\ ss' \in Streams /\ ss'.thread = "ended" /\ ss'.ready = ss.ready
        /\ ss'.completed = ss.completed /\ ss'.active = ss.active
    BY <1>1, <1>5 DEF Streams
  <2>2. ow' = ow \/ (ow.faults < MaxFaults /\ ow' = [ow EXCEPT !.faults = @ + 1])
    BY <1>5 DEF ReadEnds
  <2>3. IsOwner(ow')
    BY <1>1, <2>2, Zenon DEF IsOwner
  <2>4. SameOwner(ow', ow) /\ ow'.faults \in 0..MaxFaults
    BY <1>1, <2>2, ManagedAssumption DEF IsOwner, OwnerFields, SameOwner, ManagedAssumption
  <2>5. EventsFlow'
    BY <1>5, <2>1, <2>4 DEF ManagedInv, EventsFlow, Flow, SameOwner
  <2> QED
    BY <1>2, <1>5, <2>1, <2>3, <2>4, <2>5
       DEF SameOwner, ManagedInv, ManagedTypes, Placed, ServersAreKnown, KernelsAreFollowed,
           BaselineComes, GroupsAreRecorded, StopsAdvance
<1>6. CASE ReadEnds
  <2>1. (~ss.closed \/ ss.failed) \in BOOLEAN
    OBVIOUS
  <2>2. UNCHANGED <<procs, wire, posix, edits>>
        /\ ss' = [ss EXCEPT !.thread = "ended", !.failed = ~ss.closed \/ ss.failed]
    BY <1>6 DEF ReadEnds, OtherUnchanged
  <2> QED
    BY <1>5, <1>6, <2>1, <2>2
<1>7. CASE ReadStops
  <2>1. UNCHANGED <<ow, procs, wire, posix, edits>> /\ ss' = [ss EXCEPT !.thread = "ended"]
    BY <1>7 DEF ReadStops, ReadUnchanged, OtherUnchanged
  <2>2. ss.failed \in BOOLEAN /\ ss' = [ss EXCEPT !.thread = "ended", !.failed = ss.failed]
    BY <1>1, <2>1 DEF Streams
  <2> QED
    BY <1>5, <2>1, <2>2
<1> QED
  BY <1>4, <1>6, <1>7 DEF Reads

\* Processes end and none starts, whatever becomes of the port.
FewerRun ==
    /\ procs' \in [Tries -> Processes]
    /\ \A a \in Tries :
          /\ procs'[a].ran = procs[a].ran /\ procs'[a].group = procs[a].group
          /\ procs'[a].server = "live" => procs[a].server = "live"
          /\ procs'[a].kernel = "live" => procs[a].kernel = "live"
          /\ procs'[a].kernel = "none" <=> procs[a].kernel = "none"

LEMMA SameRun == ASSUME ManagedInv, procs' = procs PROVE FewerRun
BY DEF ManagedInv, ManagedTypes, FewerRun

LEMMA KillsFewer ==
    ASSUME ManagedInv, NEW groups, procs' = KillGroups(groups)
    PROVE  /\ FewerRun
           /\ \A a \in Tries :
                 /\ <<a, "server">> \in groups => procs'[a].server # "live"
                 /\ <<a, procs[a].group>> \in groups => procs'[a].kernel # "live"
<1>1. procs \in [Tries -> Processes]
  BY OwnerKnown
<1>2. ASSUME NEW a \in Tries
      PROVE  /\ procs'[a] \in Processes
             /\ procs'[a].ran = procs[a].ran /\ procs'[a].group = procs[a].group
             /\ procs'[a].server = Killed(procs[a].server, <<a, "server">> \in groups)
             /\ procs'[a].kernel = Killed(procs[a].kernel, <<a, procs[a].group>> \in groups)
  <2>1. procs'[a] = [procs[a] EXCEPT
              !.server = Killed(@, <<a, "server">> \in groups),
              !.kernel = Killed(@, <<a, procs[a].group>> \in groups)]
    BY DEF KillGroups
  <2>2. procs[a] \in Processes
    BY <1>1
  <2>3. /\ Killed(procs[a].server, <<a, "server">> \in groups) \in {"none", "live", "dead"}
        /\ Killed(procs[a].kernel, <<a, procs[a].group>> \in groups) \in {"none", "live", "dead"}
    BY <2>2 DEF Killed, Processes
  <2> QED
    BY <2>1, <2>2, <2>3 DEF Processes
<1>3. procs' \in [Tries -> Processes]
  <2>1. procs' = [a \in Tries |-> procs'[a]]
    BY DEF KillGroups
  <2> QED
    BY <1>2, <2>1
<1> QED
  BY <1>1, <1>2, <1>3 DEF FewerRun, Killed

\* An end of one process.
LEMMA OneFewer ==
    ASSUME ManagedInv, NEW a \in Tries, NEW p \in Processes, procs' = [procs EXCEPT ![a] = p],
           p.ran = procs[a].ran, p.group = procs[a].group,
           p.server = "live" => procs[a].server = "live",
           p.kernel = "live" => procs[a].kernel = "live",
           p.kernel = "none" <=> procs[a].kernel = "none"
    PROVE  FewerRun
BY OwnerKnown DEF FewerRun

\* Only the server the owner knows of can run.
LEMMA NoServerRuns ==
    ASSUME ManagedInv, ~ServerRuns
    PROVE  \A a \in Tries : ~Live(a)
BY ManagedAssumption
   DEF ServerRuns, ManagedInv, ManagedTypes, ServersAreKnown, Tries, ManagedAssumption

\* Where no process is known there is nothing to stop.
LEMMA NoProcessRan ==
    ASSUME ManagedInv, ow.pc \in Stopping, ow.process = 0
    PROVE  \A a \in Tries : procs[a].ran = <<>> /\ ~Live(a)
<1>1. ~ServerRuns
  BY DEF ServerRuns
<1>2. ~ow.server
  BY DEF ManagedInv, ServersAreKnown
<1> QED
  BY <1>1, <1>2, NoServerRuns DEF ManagedInv, KernelsAreFollowed

LEMMA SignalsFewer ==
    ASSUME ManagedInv, ServerRuns, procs' = SignalGroup
    PROVE  FewerRun /\ \A a \in Tries : procs'[a].server # "live"
<1>1. /\ ow.process \in Tries /\ procs \in [Tries -> Processes]
      /\ \A a \in Tries : Live(a) => a = ow.process
  BY SMTT(60), OwnerKnown, ManagedAssumption
     DEF ServerRuns, ManagedInv, ManagedTypes, ServersAreKnown, Tries, ManagedAssumption
<1>2. CASE posix
  <2>1. procs' = KillGroups({<<ow.process, "server">>})
    BY <1>2 DEF SignalGroup
  <2>2. FewerRun /\ procs'[ow.process].server # "live"
    BY <1>1, <2>1, KillsFewer
  <2> QED
    BY <1>1, <2>2 DEF FewerRun
<1>3. CASE ~posix
  <2>1. procs' = [procs EXCEPT ![ow.process].server = "dead"]
    BY <1>1, <1>3 DEF SignalGroup, Killed, ServerRuns, Processes
  <2> DEFINE p == [procs[ow.process] EXCEPT !.server = "dead"]
  <2>2. p \in Processes /\ p.ran = procs[ow.process].ran /\ p.group = procs[ow.process].group
        /\ p.kernel = procs[ow.process].kernel /\ p.server = "dead"
    BY <1>1 DEF Processes
  <2>3. procs' = [procs EXCEPT ![ow.process] = p]
    BY <2>1
  <2> HIDE DEF p
  <2>4. FewerRun
    BY <1>1, <2>2, <2>3, OneFewer
  <2>5. procs'[ow.process] = p
    BY <1>1, <2>3
  <2> QED
    BY <1>1, <2>2, <2>4, <2>5 DEF FewerRun
<1> QED
  BY <1>2, <1>3

\* Processes end by themselves.
LEMMA EndsKeep ==
    ASSUME ManagedInv, FewerRun, UNCHANGED <<posix, ow, ss, wire, edits>>
    PROVE  ManagedInv'
<1>1. EventsFlow'
  <2>1. ASSUME NEW a \in Tries, a = ow.attempt
        PROVE  Flow(wire, ss, procs'[a])
    <3>1. Flow(wire, ss, procs[a])
      BY <2>1 DEF ManagedInv, EventsFlow
    <3>2. /\ procs'[a].ran = procs[a].ran
          /\ procs'[a].kernel = "none" <=> procs[a].kernel = "none"
      BY DEF FewerRun
    <3> QED
      BY <3>1, <3>2 DEF Flow
  <2> QED
    BY <2>1 DEF EventsFlow
<1> QED
  BY <1>1 DEF FewerRun, ManagedInv, ManagedTypes, Placed, ServersAreKnown, KernelsAreFollowed,
          BaselineComes, GroupsAreRecorded, StopsAdvance

\* A step within a stop.
LEMMA StopMoves ==
    ASSUME ManagedInv, FewerRun, UNCHANGED <<posix, ss, wire, edits>>, ow.pc \in Stopping,
           IsOwner(ow'), ow'.pc \in Stopping \ {"sp_begin"}, SameServer(ow', ow),
           SameCopy(ow', ow), ow'.files = ow.files, ow'.ret = ow.ret, ow'.known = ow.known,
           ow'.closing = ow.closing, ow'.reported = ow.reported, ow'.faults \in 0..MaxFaults,
           ow'.failures \subseteq {"error", "cancel"}, ow'.refused \in {ow.refused, TRUE},
           ow.groups \subseteq ow'.target,
           ow'.pc \in {"sp_groups", "sp_end"} => NoneLive',
           ow'.pc = "sp_end" /\ posix => NoneRuns'
    PROVE  ManagedInv'
<1>1. EventsFlow'
  BY DEF ManagedInv, EventsFlow, Flow, FewerRun, ManagedTypes
<1> QED
  BY <1>1 DEF FewerRun, ManagedInv, ManagedTypes, Placed, ServersAreKnown, KernelsAreFollowed,
          BaselineComes, GroupsAreRecorded, StopsAdvance

LEMMA StopsKeep == ASSUME ManagedInv, Stops PROVE ManagedInv'
<1>1. /\ IsOwner(ow) /\ ow.faults \in 0..MaxFaults /\ procs \in [Tries -> Processes]
      /\ ow.failures \subseteq {"error", "cancel"}
  BY OwnerKnown DEF ManagedInv, ManagedTypes
<1>2. UNCHANGED <<posix, ss, wire, edits>> /\ ow.pc \in Stopping
  BY DEF Stops, StopBegins, StopJob, StopTerm, StopKill, StopGroups, StopEnds, StopUnchanged,
         OtherUnchanged, OwnerAt
<1> DEFINE Same == /\ IsOwner(ow') /\ SameServer(ow', ow) /\ SameCopy(ow', ow)
                   /\ ow'.files = ow.files /\ ow'.ret = ow.ret /\ ow'.known = ow.known
                   /\ ow'.closing = ow.closing /\ ow'.reported = ow.reported
                   /\ ow'.faults \in 0..MaxFaults /\ ow'.failures \subseteq {"error", "cancel"}
<1>3. ASSUME NEW pc, ow' = [ow EXCEPT !.pc = pc]
      PROVE  Same /\ ow'.pc = pc /\ ow'.target = ow.target /\ ow'.refused = ow.refused
  <2>1. IsOwner(ow')
    BY <1>1, <1>3, Zenon DEF IsOwner
  <2> QED
    BY <1>1, <1>3, <2>1 DEF IsOwner, OwnerFields
<1>4. ASSUME NEW pc, NEW kind, Fault(kind), ow' = [Failing(ow, kind) EXCEPT !.pc = pc]
      PROVE  Same /\ ow'.pc = pc /\ ow'.target = ow.target /\ ow'.refused = ow.refused
  <2>1. IsOwner(ow')
    BY <1>1, <1>4, Zenon DEF IsOwner, Failing
  <2>2. ow.faults + 1 \in 0..MaxFaults /\ kind \in {"error", "cancel"}
    BY <1>1, <1>4, ManagedAssumption DEF Fault, ManagedAssumption
  <2> QED
    BY <1>1, <1>4, <2>1, <2>2 DEF IsOwner, OwnerFields, Failing
<1>5. ASSUME NEW pc, NEW kind, Fault(kind),
             ow' = [Failing(ow, kind) EXCEPT !.pc = pc, !.refused = TRUE]
      PROVE  Same /\ ow'.pc = pc /\ ow'.target = ow.target /\ ow'.refused = TRUE
  <2>1. IsOwner(ow')
    BY <1>1, <1>5, Zenon DEF IsOwner, Failing
  <2>2. ow.faults + 1 \in 0..MaxFaults /\ kind \in {"error", "cancel"}
    BY <1>1, <1>5, ManagedAssumption DEF Fault, ManagedAssumption
  <2> QED
    BY <1>1, <1>5, <2>1, <2>2 DEF IsOwner, OwnerFields, Failing
<1>6. ow.pc # "sp_begin" => ow.groups \subseteq ow.target
  BY <1>2 DEF ManagedInv, GroupsAreRecorded
<1>7. CASE StopJob
  <2>1. FewerRun
    BY <1>7, KillsFewer, SameRun DEF StopJob, KillTree
  <2>2. Same /\ ow'.pc = "sp_term" /\ ow'.target = ow.target /\ ow'.refused = ow.refused
    BY <1>3, <1>4, <1>7 DEF StopJob, Goto
  <2>3. ow.pc = "sp_job"
    BY <1>7 DEF StopJob, OwnerAt
  <2> HIDE DEF Same
  <2> QED
    BY <1>2, <1>6, <2>1, <2>2, <2>3, StopMoves DEF Same
<1>8. CASE StopTerm
  <2>1. FewerRun
    BY <1>8, SignalsFewer, SameRun DEF StopTerm
  <2>2. Same /\ ow'.pc = "sp_kill" /\ ow'.target = ow.target /\ ow'.refused = ow.refused
    BY <1>3, <1>4, <1>8 DEF StopTerm, Goto
  <2>3. ow.pc = "sp_term"
    BY <1>8 DEF StopTerm, OwnerAt
  <2> HIDE DEF Same
  <2> QED
    BY <1>2, <1>6, <2>1, <2>2, <2>3, StopMoves DEF Same
<1>9. CASE StopKill
  <2>1. Same /\ ow'.pc = "sp_groups" /\ ow'.target = ow.target
        /\ ow'.refused \in {ow.refused, TRUE}
    BY <1>3, <1>4, <1>5, <1>9 DEF StopKill, Goto
  <2>2. FewerRun /\ NoneLive'
    <3>1. CASE ~ServerRuns /\ UNCHANGED procs
      BY <3>1, NoServerRuns, SameRun
    <3>2. CASE ServerRuns /\ procs' = SignalGroup
      BY <3>2, SignalsFewer
    <3>3. CASE \E kind \in {"error", "cancel"} : Fault(kind)
                /\ ow' = [Failing(ow, kind) EXCEPT !.pc = "sp_groups", !.refused = TRUE]
                /\ UNCHANGED procs
      BY <1>5, <3>3, SameRun
    <3> QED
      BY <1>9, <3>1, <3>2, <3>3 DEF StopKill
  <2>3. ow.pc = "sp_kill"
    BY <1>9 DEF StopKill, OwnerAt
  <2> HIDE DEF Same
  <2> QED
    BY <1>2, <1>6, <2>1, <2>2, <2>3, StopMoves DEF Same
<1>10. CASE StopGroups
  <2>1. ow.pc = "sp_groups" /\ NoneLive /\ ow.groups \subseteq ow.target
    BY <1>10 DEF StopGroups, OwnerAt, ManagedInv, StopsAdvance, GroupsAreRecorded
  <2>2. posix => \A a \in Tries : procs[a].ran # <<>> => <<a, procs[a].group>> \in ow.target
    BY SMTT(60), <2>1 DEF ManagedInv, GroupsAreRecorded
  <2>3. Same /\ ow'.pc = "sp_end" /\ ow'.target = ow.target
        /\ ow'.refused \in {ow.refused, TRUE}
    BY <1>3, <1>4, <1>5, <1>10 DEF StopGroups, Goto
  <2>4. FewerRun /\ (posix => NoneRuns')
    <3>1. CASE ~(posix /\ ow.process # 0) /\ UNCHANGED procs
      BY <1>2, <3>1, NoProcessRan, SameRun DEF FewerRun
    <3>2. CASE procs' = KillGroups(ow.target)
      BY <2>2, <3>2, KillsFewer DEF FewerRun
    <3>3. CASE Fault("error") /\ (\E g \in ow.target : procs' = KillGroups(ow.target \ {g}))
               /\ ow' = [Failing(ow, "error") EXCEPT !.pc = "sp_end", !.refused = TRUE]
      BY <1>5, <3>3, KillsFewer
    <3> QED
      BY <1>10, <3>1, <3>2, <3>3 DEF StopGroups
  <2>5. NoneLive'
    BY <2>1, <2>3, <2>4 DEF FewerRun
  <2> HIDE DEF Same
  <2> QED
    BY <1>2, <2>1, <2>3, <2>4, <2>5, StopMoves DEF Same
<1>11. CASE StopBegins
  <2>1. ow.pc = "sp_begin" /\ UNCHANGED procs
    BY <1>11 DEF StopBegins, OwnerAt
  <2>2. CASE ow.process = 0 /\ ow' = [ow EXCEPT !.pc = ow.ret]
    <3>1. Same /\ ow'.pc = ow.ret /\ ow'.target = ow.target /\ ow'.refused = ow.refused
      BY <1>3, <2>2
    <3>2. \A a \in Tries : procs[a].ran = <<>> /\ ~Live(a)
      BY <1>2, <2>2, NoProcessRan
    <3>3. ~ow.server
      BY <1>2, <2>2 DEF ManagedInv, ServersAreKnown
    <3>4. ow.ret \in {"retry", "files"}
      BY <1>2, <3>3 DEF ManagedInv, Placed
    <3> HIDE DEF Same
    <3> QED
      BY <1>2, <2>1, <3>1, <3>2, <3>3, <3>4
         DEF Same, ManagedInv, ManagedTypes, Placed, ServersAreKnown, KernelsAreFollowed,
             EventsFlow, BaselineComes, GroupsAreRecorded, StopsAdvance
  <2>3. CASE ow' = [ow EXCEPT !.pc = IF ow.job THEN "sp_job" ELSE "sp_term",
                        !.target = IF ow.known THEN @ ELSE ow.groups \cup OwnedProcessGroups]
    <3>1. IsOwner(ow')
      BY <1>1, <2>3, Zenon DEF IsOwner
    <3>2. Same /\ ow'.pc \in {"sp_job", "sp_term"} /\ ow'.refused = ow.refused
          /\ ow'.target = IF ow.known THEN ow.target ELSE ow.groups \cup OwnedProcessGroups
      BY <1>1, <2>3, <3>1 DEF IsOwner, OwnerFields
    <3>3. ow.groups \subseteq ow'.target
      BY <3>2 DEF ManagedInv, GroupsAreRecorded
    <3> HIDE DEF Same
    <3> QED
      BY <1>2, <2>1, <3>2, <3>3, SameRun, StopMoves DEF Same
  <2>4. CASE \E kind \in {"error", "cancel"} : Fault(kind)
             /\ ow' = [Failing(ow, kind) EXCEPT !.pc = "sp_term", !.target =
                          ow.groups \cup {<<ow.process, "server">>}]
    <3>1. PICK kind \in {"error", "cancel"} : Fault(kind)
             /\ ow' = [Failing(ow, kind) EXCEPT !.pc = "sp_term", !.target =
                          ow.groups \cup {<<ow.process, "server">>}]
      BY <2>4
    <3>2. IsOwner(ow')
      BY <1>1, <3>1, Zenon DEF IsOwner, Failing
    <3>3. ow.faults + 1 \in 0..MaxFaults
      BY <1>1, <3>1, ManagedAssumption DEF Fault, ManagedAssumption
    <3>4. Same /\ ow'.pc = "sp_term" /\ ow'.refused = ow.refused
          /\ ow'.target = ow.groups \cup {<<ow.process, "server">>}
      BY <1>1, <3>1, <3>2, <3>3 DEF IsOwner, OwnerFields, Failing
    <3> HIDE DEF Same
    <3> QED
      BY <1>2, <2>1, <3>4, SameRun, StopMoves DEF Same
  <2> QED
    BY <1>11, <2>2, <2>3, <2>4 DEF StopBegins, Goto
<1>12. CASE StopEnds
  <2> DEFINE o == [ow EXCEPT !.pc = ow.ret, !.process = IF ServerRuns THEN @ ELSE 0,
                             !.failures = IF ServerRuns THEN @ \cup {"error"} ELSE @]
  <2>1. IsOwner(o)
    BY <1>1, Zenon DEF IsOwner
  <2>2. /\ SameStop(o, ow) /\ SameCopy(o, ow) /\ o.pc = ow.ret /\ o.attempt = ow.attempt
        /\ o.groups = ow.groups /\ o.server = ow.server /\ o.files = ow.files
        /\ o.reported = ow.reported /\ o.faults = ow.faults /\ o.job = ow.job
        /\ o.process = (IF ServerRuns THEN ow.process ELSE 0)
        /\ o.failures = (IF ServerRuns THEN ow.failures \cup {"error"} ELSE ow.failures)
    BY <1>1 DEF IsOwner, OwnerFields
  <2>3. \/ ow' = [o EXCEPT !.job = FALSE] /\ procs' = IF ow.job THEN KillTree(ow.attempt) ELSE procs
        \/ /\ ow.faults < MaxFaults /\ procs' = procs
           /\ ow' = [Failing(o, "error") EXCEPT !.refused = TRUE]
    BY <1>12 DEF StopEnds
  <2> HIDE DEF o
  <2>4. IsOwner(ow')
    BY <2>1, <2>3, Zenon DEF IsOwner, Failing
  <2>5. ow.faults < MaxFaults => ow.faults + 1 \in 0..MaxFaults
    BY <1>1, ManagedAssumption DEF ManagedAssumption
  <2>6. /\ SameCopy(ow', o) /\ ow'.pc = ow.ret /\ ow'.attempt = ow.attempt /\ ow'.ret = ow.ret
        /\ ow'.target = ow.target /\ ow'.known = ow.known /\ ow'.closing = ow.closing
        /\ ow'.groups = ow.groups /\ ow'.server = ow.server /\ ow'.files = ow.files
        /\ ow'.reported = ow.reported /\ ow'.faults \in 0..MaxFaults
        /\ ow'.process = o.process /\ ow'.failures \in {o.failures, o.failures \cup {"error"}}
        /\ \/ ow'.refused = TRUE
           \/ ow'.refused = ow.refused /\ procs' = IF ow.job THEN KillTree(ow.attempt) ELSE procs
    <3>1. CASE ow' = [o EXCEPT !.job = FALSE]
               /\ procs' = IF ow.job THEN KillTree(ow.attempt) ELSE procs
      BY <1>1, <2>1, <2>2, <3>1 DEF IsOwner, OwnerFields
    <3>2. CASE ow.faults < MaxFaults /\ ow' = [Failing(o, "error") EXCEPT !.refused = TRUE]
      BY <1>1, <2>1, <2>2, <2>5, <3>2 DEF IsOwner, OwnerFields, Failing
    <3> QED
      BY <2>3, <3>1, <3>2
  <2>7. FewerRun
    BY <2>3, KillsFewer, SameRun DEF KillTree
  <2>8. ow.pc = "sp_end" /\ NoneLive /\ (posix => NoneRuns) /\ (ow.refused => ow'.refused)
    BY <1>12, <2>6 DEF StopEnds, OwnerAt, ManagedInv, StopsAdvance
  <2>9. NoneLive'
    BY <2>7, <2>8 DEF FewerRun
  <2>10. NoneRuns'
    <3>1. CASE posix \/ ow.refused \/ ow'.refused
      BY <2>7, <2>8, <3>1 DEF FewerRun
    <3>2. CASE ~ow.server
      BY <2>7, <3>2 DEF FewerRun, ManagedInv, KernelsAreFollowed
    <3>3. CASE ~posix /\ ow.server /\ ~ow'.refused
      <4>1. ow.job /\ procs' = KillTree(ow.attempt)
        BY <2>6, <2>8, <3>3 DEF ManagedInv, ServersAreKnown
      <4>2. \A a \in Tries : a = ow.attempt => procs'[a].kernel # "live"
        <5> DEFINE groups == {<<ow.attempt, "server">>, <<ow.attempt, "kernel">>}
        <5>1. \A a \in Tries : a = ow.attempt => <<a, procs[a].group>> \in groups
          BY <1>1 DEF Processes
        <5>2. procs' = KillGroups(groups)
          BY <4>1 DEF KillTree
        <5> HIDE DEF groups
        <5> QED
          BY <5>1, <5>2, KillsFewer
      <4>3. \A a \in Tries : a # ow.attempt => procs'[a].ran = <<>>
        BY <2>7 DEF FewerRun, ManagedInv, KernelsAreFollowed
      <4> QED
        BY <4>2, <4>3
    <3> QED
      BY <3>1, <3>2, <3>3
  <2>11. EventsFlow'
    BY <1>2, <2>6, <2>7 DEF ManagedInv, EventsFlow, Flow, FewerRun, ManagedTypes
  <2>12. \A a \in Tries : procs'[a].server = "live" => ServerRuns
    BY <2>7, NoServerRuns DEF FewerRun
  <2> HIDE DEF Same
  <2>13. ManagedTypes' /\ Placed'
    <3>1. ow'.process \in {0, ow'.attempt} /\ ow'.failures \subseteq {"error", "cancel"}
      BY <1>1, <2>2, <2>6 DEF ManagedInv, ManagedTypes
    <3> QED
      BY <1>2, <2>2, <2>4, <2>6, <2>7, <2>8, <3>1
         DEF FewerRun, ManagedInv, ManagedTypes, Placed
  <2>14. ServersAreKnown'
    <3>1. ow'.failures = {} => ~ServerRuns
      BY <2>2, <2>6
    <3>2. ServerRuns => ow'.process = ow.process
      BY <2>2, <2>6
    <3>3. ow.ret \in {"retry", "files", "join"}
      BY <2>8 DEF ManagedInv, Placed
    <3>4. \A a \in Tries : procs'[a].server = "live" => a = ow.attempt /\ a = ow.process
      BY <2>7 DEF FewerRun, ManagedInv, ServersAreKnown
    <3> QED
      BY <2>6, <2>12, <3>1, <3>2, <3>3, <3>4 DEF ManagedInv, ServersAreKnown
  <2>15. KernelsAreFollowed' /\ BaselineComes' /\ GroupsAreRecorded' /\ StopsAdvance'
    <3>1. (ow.ret \in {"retry", "files"} /\ ~ow.closing) \/ ow.ret = "join"
      BY <2>8 DEF ManagedInv, Placed
    <3> QED
      BY <1>2, <2>6, <2>7, <2>8, <2>9, <2>10, <3>1
         DEF FewerRun, ManagedInv, KernelsAreFollowed, BaselineComes, GroupsAreRecorded,
             StopsAdvance
  <2> QED
    BY <2>11, <2>13, <2>14, <2>15 DEF ManagedInv
<1> QED
  BY <1>7, <1>8, <1>9, <1>10, <1>11, <1>12 DEF Stops

\* What a call of the close reports, and what it has still failed.
LEMMA ReportIs ==
    ASSUME NEW o, IsOwner(o)
    PROVE  /\ IsOwner(Report(o)) /\ SameServer(Report(o), o) /\ SameStop(Report(o), o)
           /\ SameCopy(Report(o), o) /\ Report(o).files = o.files /\ Report(o).pc = o.pc
           /\ Report(o).after = o.after /\ Report(o).faults = o.faults
           /\ Report(o).failures = {} /\ Report(o).reported = o.reported \cup o.failures
<1>1. IsOwner(Report(o))
  BY Zenon DEF IsOwner, Report
<1> QED
  BY <1>1 DEF IsOwner, OwnerFields, Report

LEMMA FailureReported ==
    ASSUME ManagedInv, NEW o, IsOwner(o), NEW kind, Fault(kind), o.faults = ow.faults
    PROVE  LET r == Report(Failing(o, kind)) IN
           /\ IsOwner(r) /\ SameServer(r, o) /\ SameStop(r, o) /\ SameCopy(r, o)
           /\ r.files = o.files /\ r.pc = o.pc /\ r.after = o.after
           /\ r.faults \in 0..MaxFaults /\ r.failures = {} /\ kind \in {"error", "cancel"}
           /\ r.reported = o.reported \cup o.failures \cup {kind}
<1>1. ow.faults \in 0..MaxFaults /\ ow.faults < MaxFaults /\ kind \in {"error", "cancel"}
  BY OwnerKnown DEF Fault
<1> DEFINE p == Failing(o, kind)
<1>2. IsOwner(p)
  BY Zenon DEF IsOwner, Failing
<1>3. /\ SameServer(p, o) /\ SameStop(p, o) /\ SameCopy(p, o) /\ p.files = o.files
      /\ p.pc = o.pc /\ p.after = o.after /\ p.faults = ow.faults + 1
      /\ p.failures = o.failures \cup {kind} /\ p.reported = o.reported
  BY DEF IsOwner, OwnerFields, Failing
<1>4. ow.faults + 1 \in 0..MaxFaults
  BY <1>1, ManagedAssumption DEF ManagedAssumption
<1> HIDE DEF p
<1>5. LET r == Report(p) IN
      /\ IsOwner(r) /\ SameServer(r, o) /\ SameStop(r, o) /\ SameCopy(r, o)
      /\ r.files = o.files /\ r.pc = o.pc /\ r.after = o.after
      /\ r.faults \in 0..MaxFaults /\ r.failures = {}
      /\ r.reported = o.reported \cup (o.failures \cup {kind})
  BY <1>2, <1>3, <1>4, ReportIs
<1> QED
  BY <1>1, <1>5 DEF p

LEMMA CloseKeeps == ASSUME ManagedInv, Close PROVE ManagedInv'
<1>1. IsOwner(ow) /\ ow.faults \in 0..MaxFaults /\ ss \in Streams /\ ow.server \in BOOLEAN
      /\ ow.failures \subseteq {"error", "cancel"} /\ ow.reported \subseteq {"error", "cancel"}
  BY OwnerKnown DEF ManagedInv, ManagedTypes
<1> DEFINE o == [ow EXCEPT !.closing = TRUE, !.pc = IF ow.server THEN "snapshot" ELSE "unlink",
                           !.client = FALSE]
<1>2. IsOwner(o)
  BY <1>1, Zenon DEF IsOwner
<1>3. /\ SameServer(o, ow) /\ SameFailures(o, ow) /\ SameCopy(o, ow) /\ o.files = ow.files
      /\ o.closing = TRUE /\ o.known = ow.known /\ o.target = ow.target /\ o.refused = ow.refused
      /\ o.pc = (IF ow.server THEN "snapshot" ELSE "unlink") /\ o.faults = ow.faults
  BY <1>1 DEF IsOwner, OwnerFields
<1>4. /\ ow.pc = "close" /\ UNCHANGED <<procs, wire, posix, edits>>
      /\ ss' = [ss EXCEPT !.closed = ow.server]
      /\ ow' = o \/ (Fault("error") /\ ow' = Report(Failing(o, "error")))
  BY DEF Close, OtherUnchanged, OwnerAt
<1> HIDE DEF o
<1>5. /\ ss' \in Streams /\ ss'.thread = ss.thread /\ ss'.ready = ss.ready
      /\ ss'.completed = ss.completed /\ ss'.active = ss.active
  BY <1>1, <1>4 DEF Streams
<1>6. /\ IsOwner(ow') /\ SameServer(ow', o) /\ SameStop(ow', o) /\ SameCopy(ow', o)
      /\ ow'.files = o.files /\ ow'.pc = o.pc /\ ow'.faults \in 0..MaxFaults
      /\ ow'.failures \subseteq {"error", "cancel"} /\ ow'.reported \subseteq {"error", "cancel"}
  <2>1. CASE ow' = o
    BY <1>1, <1>2, <1>3, <2>1
  <2>2. CASE Fault("error") /\ ow' = Report(Failing(o, "error"))
    BY <1>1, <1>2, <1>3, <2>2, FailureReported
  <2> QED
    BY <1>4, <2>1, <2>2
<1>7. EventsFlow'
  BY <1>3, <1>4, <1>5, <1>6 DEF ManagedInv, EventsFlow, Flow
<1> QED
  BY <1>3, <1>4, <1>5, <1>6, <1>7
     DEF ManagedInv, ManagedTypes, Placed, ServersAreKnown, KernelsAreFollowed,
         BaselineComes, GroupsAreRecorded, StopsAdvance

LEMMA SnapshotKeeps == ASSUME ManagedInv, SnapshotGroups PROVE ManagedInv'
<1>1. IsOwner(ow) /\ ow.faults \in 0..MaxFaults
      /\ ow.failures \subseteq {"error", "cancel"} /\ ow.reported \subseteq {"error", "cancel"}
  BY OwnerKnown DEF ManagedInv, ManagedTypes
<1> DEFINE o == [ow EXCEPT !.pc = "shutdown", !.known = TRUE, !.target = ow.groups]
<1>2. IsOwner(o)
  BY <1>1, Zenon DEF IsOwner
<1>3. /\ SameServer(o, ow) /\ SameFailures(o, ow) /\ SameCopy(o, ow) /\ o.files = ow.files
      /\ o.closing = ow.closing /\ o.known = TRUE /\ o.target = ow.groups
      /\ o.refused = ow.refused /\ o.pc = "shutdown" /\ o.faults = ow.faults
  BY <1>1 DEF IsOwner, OwnerFields
<1>4. /\ ow.pc = "snapshot" /\ WorldRests
      /\ \/ ow' = [o EXCEPT !.target = @ \cup OwnedProcessGroups]
         \/ \E kind \in {"error", "cancel"} :
               Fault(kind) /\ ow' = Report(Failing(o, kind))
  BY DEF SnapshotGroups, Rest, OtherUnchanged, OwnerAt, GoesOn, WorldRests
<1> HIDE DEF o
<1>5. /\ IsOwner(ow') /\ SameServer(ow', o) /\ SameCopy(ow', o) /\ ow'.known = TRUE
      /\ ow'.closing = ow.closing /\ ow'.refused = ow.refused /\ ow.groups \subseteq ow'.target
      /\ ow'.files = o.files /\ ow'.pc = "shutdown" /\ ow'.faults \in 0..MaxFaults
      /\ ow'.failures \subseteq {"error", "cancel"} /\ ow'.reported \subseteq {"error", "cancel"}
  <2>1. CASE ow' = [o EXCEPT !.target = @ \cup OwnedProcessGroups]
    <3>1. IsOwner(ow')
      BY <1>2, <2>1, Zenon DEF IsOwner
    <3> QED
      BY <1>1, <1>2, <1>3, <2>1, <3>1 DEF IsOwner, OwnerFields
  <2>2. CASE \E kind \in {"error", "cancel"} : Fault(kind) /\ ow' = Report(Failing(o, kind))
    BY <1>1, <1>2, <1>3, <2>2, FailureReported
  <2> QED
    BY <1>4, <2>1, <2>2
<1> QED
  BY <1>3, <1>4, <1>5
     DEF WorldRests, ManagedInv, ManagedTypes, Placed, ServersAreKnown, KernelsAreFollowed,
         EventsFlow, BaselineComes, GroupsAreRecorded, StopsAdvance

LEMMA ShutdownKeeps == ASSUME ManagedInv, Shutdown PROVE ManagedInv'
<1>1. IsOwner(ow) /\ ow.faults \in 0..MaxFaults /\ procs \in [Tries -> Processes]
      /\ ow.failures \subseteq {"error", "cancel"} /\ ow.reported \subseteq {"error", "cancel"}
  BY OwnerKnown DEF ManagedInv, ManagedTypes
<1> DEFINE o == [ow EXCEPT !.pc = "sp_begin", !.ret = "join"]
           asked == [procs EXCEPT ![ow.process].kernel = Killed(@, TRUE)]
<1>2. IsOwner(o)
  BY <1>1, Zenon DEF IsOwner
<1>3. /\ SameServer(o, ow) /\ SameFailures(o, ow) /\ SameCopy(o, ow) /\ o.files = ow.files
      /\ o.closing = ow.closing /\ o.known = ow.known /\ o.target = ow.target
      /\ o.refused = ow.refused /\ o.pc = "sp_begin" /\ o.ret = "join" /\ o.faults = ow.faults
  BY <1>1 DEF IsOwner, OwnerFields
<1>4. /\ ow.pc = "shutdown" /\ UNCHANGED <<ss, wire, posix, edits>>
      /\ procs' = procs \/ (ServerRuns /\ procs' = asked)
      /\ \/ ow' = o
         \/ \E kind \in {"error", "cancel"} : Fault(kind) /\ ow' = Report(Failing(o, kind))
  BY DEF Shutdown, StopUnchanged, OtherUnchanged, OwnerAt, GoesOn
<1> HIDE DEF o
<1>5. /\ IsOwner(ow') /\ SameServer(ow', o) /\ SameStop(ow', o) /\ SameCopy(ow', o)
      /\ ow'.files = o.files /\ ow'.pc = o.pc /\ ow'.faults \in 0..MaxFaults
      /\ ow'.failures \subseteq {"error", "cancel"} /\ ow'.reported \subseteq {"error", "cancel"}
  <2>1. CASE ow' = o
    BY <1>1, <1>2, <1>3, <2>1
  <2>2. CASE \E kind \in {"error", "cancel"} : Fault(kind) /\ ow' = Report(Failing(o, kind))
    BY <1>1, <1>2, <1>3, <2>2, FailureReported
  <2> QED
    BY <1>4, <2>1, <2>2
<1>6. FewerRun
  <2>1. CASE ServerRuns /\ procs' = asked
    <3> DEFINE p == [procs[ow.process] EXCEPT !.kernel = Killed(@, TRUE)]
    <3>1. ow.process \in Tries
      BY <2>1, ManagedAssumption
         DEF ServerRuns, ManagedInv, ManagedTypes, Tries, ManagedAssumption
    <3>2. p \in Processes /\ p.ran = procs[ow.process].ran /\ p.group = procs[ow.process].group
          /\ p.server = procs[ow.process].server
          /\ p.kernel = Killed(procs[ow.process].kernel, TRUE)
      <4>1. procs[ow.process] \in Processes
        BY <1>1, <3>1
      <4>2. Killed(procs[ow.process].kernel, TRUE) \in {"none", "live", "dead"}
        BY <4>1 DEF Killed, Processes
      <4> QED
        BY <4>1, <4>2 DEF Processes
    <3>3. procs' = [procs EXCEPT ![ow.process] = p]
      BY <2>1
    <3> HIDE DEF p
    <3> QED
      BY <3>1, <3>2, <3>3, OneFewer DEF Killed
  <2> QED
    BY <1>4, <2>1, SameRun
<1>7. EventsFlow'
  <2>1. ASSUME NEW a \in Tries, a = ow.attempt
        PROVE  Flow(wire, ss, procs'[a])
    <3>1. Flow(wire, ss, procs[a])
      BY <2>1 DEF ManagedInv, EventsFlow
    <3>2. /\ procs'[a].ran = procs[a].ran
          /\ procs'[a].kernel = "none" <=> procs[a].kernel = "none"
      BY <1>6 DEF FewerRun
    <3> QED
      BY <3>1, <3>2 DEF Flow
  <2> QED
    BY <1>3, <1>4, <1>5, <2>1 DEF EventsFlow
<1> HIDE DEF asked
<1> QED
  BY <1>3, <1>4, <1>5, <1>6, <1>7
     DEF FewerRun, ManagedInv, ManagedTypes, Placed, ServersAreKnown, KernelsAreFollowed,
         BaselineComes, GroupsAreRecorded, StopsAdvance

LEMMA JoinKeeps == ASSUME ManagedInv, Join PROVE ManagedInv'
<1>1. IsOwner(ow) /\ ow.faults \in 0..MaxFaults /\ ss \in Streams
      /\ ow.failures \subseteq {"error", "cancel"} /\ ow.reported \subseteq {"error", "cancel"}
  BY OwnerKnown DEF ManagedInv, ManagedTypes
<1> DEFINE r == Report(ow)
           o == [r EXCEPT !.pc = "files"]
<1>2. /\ IsOwner(r) /\ SameServer(r, ow) /\ SameStop(r, ow) /\ SameCopy(r, ow)
      /\ r.files = ow.files /\ r.faults = ow.faults /\ r.failures = {}
      /\ r.reported = ow.reported \cup ow.failures
  BY <1>1, ReportIs
<1> HIDE DEF r
<1>3. IsOwner(o)
  BY <1>2, Zenon DEF IsOwner
<1>4. /\ SameServer(o, r) /\ SameStop(o, r) /\ SameCopy(o, r) /\ SameFailures(o, r)
      /\ o.files = r.files /\ o.faults = r.faults /\ o.pc = "files"
  BY <1>2 DEF IsOwner, OwnerFields
<1>5. /\ ow.pc = "join" /\ UNCHANGED <<procs, wire, posix, edits>>
      /\ \/ ss.thread # "reads" /\ ow' = o /\ ss' = ss
         \/ ow' = o /\ ss' = [ss EXCEPT !.thread = "ended"]
         \/ ow' = [o EXCEPT !.reported = @ \cup {"error"}] /\ ss' = ss
  BY DEF Join, OtherUnchanged, OwnerAt, r
<1> HIDE DEF o
<1>6. /\ IsOwner(ow') /\ SameServer(ow', ow) /\ SameStop(ow', ow) /\ SameCopy(ow', ow)
      /\ ow'.files = ow.files /\ ow'.pc = "files" /\ ow'.faults = ow.faults
      /\ ow'.failures = {} /\ ow'.reported \subseteq {"error", "cancel"}
      /\ ss' = ss /\ ss.thread = "reads" => ow'.reported # {}
  <2>1. CASE ow' = o /\ (ss.thread # "reads" \/ ss' = [ss EXCEPT !.thread = "ended"])
    <3>1. ~(ss' = ss /\ ss.thread = "reads")
      BY <1>1, <2>1 DEF Streams
    <3> QED
      BY <1>1, <1>2, <1>3, <1>4, <2>1, <3>1
  <2>2. CASE ow' = [o EXCEPT !.reported = @ \cup {"error"}]
    <3>1. IsOwner(ow')
      BY <1>3, <2>2, Zenon DEF IsOwner
    <3> QED
      BY <1>1, <1>2, <1>3, <1>4, <2>2, <3>1 DEF IsOwner, OwnerFields
  <2> QED
    BY <1>5, <2>1, <2>2
<1>7. /\ ss' \in Streams /\ ss'.ready = ss.ready /\ ss'.completed = ss.completed
      /\ ss'.active = ss.active /\ (ss.thread = "none" => ss'.thread # "reads")
      /\ ss'.thread = "reads" => ss' = ss /\ ss.thread = "reads"
      /\ ss'.thread = "none" => ss.thread = "none"
      /\ ss.thread # "reads" => ss'.thread = ss.thread \/ ss'.thread = "ended"
  BY <1>1, <1>5 DEF Streams
<1>8. EventsFlow'
  BY <1>5, <1>6, <1>7 DEF ManagedInv, EventsFlow, Flow
<1>9. ow.server
  BY <1>5 DEF ManagedInv, Placed
<1> QED
  BY <1>1, <1>5, <1>6, <1>7, <1>8, <1>9
     DEF ManagedInv, ManagedTypes, Placed, ServersAreKnown, KernelsAreFollowed,
         BaselineComes, GroupsAreRecorded, StopsAdvance

LEMMA FilesKeep == ASSUME ManagedInv, CloseFiles PROVE ManagedInv'
<1>1. IsOwner(ow) /\ ow.faults \in 0..MaxFaults
      /\ ow.failures \subseteq {"error", "cancel"} /\ ow.reported \subseteq {"error", "cancel"}
  BY OwnerKnown DEF ManagedInv, ManagedTypes
<1> DEFINE r == Report(ow)
           o == [r EXCEPT !.pc = IF ow.closing THEN "unlink" ELSE "close"]
<1>2. /\ IsOwner(r) /\ SameServer(r, ow) /\ SameStop(r, ow) /\ SameCopy(r, ow)
      /\ r.files = ow.files /\ r.faults = ow.faults /\ r.failures = {}
      /\ r.reported = ow.reported \cup ow.failures
  BY <1>1, ReportIs
<1> HIDE DEF r
<1>3. IsOwner(o)
  BY <1>2, Zenon DEF IsOwner
<1>4. /\ SameServer(o, r) /\ SameStop(o, r) /\ SameCopy(o, r) /\ SameFailures(o, r)
      /\ o.faults = r.faults /\ o.pc = IF ow.closing THEN "unlink" ELSE "close"
  BY <1>2 DEF IsOwner, OwnerFields
<1>5. /\ ow.pc = "files" /\ WorldRests
      /\ \/ ow' = [o EXCEPT !.files = "removed"]
         \/ Fault("error") /\ ow' = [Report(Failing(o, "error")) EXCEPT !.files = "left"]
  BY DEF CloseFiles, Rest, OtherUnchanged, OwnerAt, r, WorldRests
<1> HIDE DEF o
<1>6. /\ IsOwner(ow') /\ SameServer(ow', ow) /\ SameStop(ow', ow) /\ SameCopy(ow', ow)
      /\ ow'.files # "open" /\ ow'.pc = (IF ow.closing THEN "unlink" ELSE "close")
      /\ ow'.faults \in 0..MaxFaults /\ ow'.failures = {}
      /\ ow'.reported \subseteq {"error", "cancel"} /\ ow.reported \subseteq ow'.reported
  <2>1. CASE ow' = [o EXCEPT !.files = "removed"]
    <3>1. IsOwner(ow')
      BY <1>3, <2>1, Zenon DEF IsOwner
    <3> QED
      BY <1>1, <1>2, <1>3, <1>4, <2>1, <3>1 DEF IsOwner, OwnerFields
  <2>2. CASE Fault("error") /\ ow' = [Report(Failing(o, "error")) EXCEPT !.files = "left"]
    <3> DEFINE f == Report(Failing(o, "error"))
    <3>1. /\ IsOwner(f) /\ SameServer(f, o) /\ SameStop(f, o) /\ SameCopy(f, o)
          /\ f.pc = o.pc /\ f.faults \in 0..MaxFaults /\ f.failures = {}
          /\ f.reported = o.reported \cup o.failures \cup {"error"}
      BY <1>2, <1>3, <1>4, <2>2, FailureReported
    <3>2. ow' = [f EXCEPT !.files = "left"]
      BY <2>2
    <3> HIDE DEF f
    <3>3. IsOwner(ow')
      BY <3>1, <3>2, Zenon DEF IsOwner
    <3> QED
      BY <1>1, <1>2, <1>4, <3>1, <3>2, <3>3 DEF IsOwner, OwnerFields
  <2> QED
    BY <1>5, <2>1, <2>2
<1> QED
  BY <1>5, <1>6
     DEF WorldRests, ManagedInv, ManagedTypes, Placed, ServersAreKnown, KernelsAreFollowed,
         EventsFlow, BaselineComes, GroupsAreRecorded, StopsAdvance

LEMMA UnlinkKeeps == ASSUME ManagedInv, Unlink PROVE ManagedInv'
<1>1. IsOwner(ow) /\ ow.faults \in 0..MaxFaults
      /\ ow.failures \subseteq {"error", "cancel"} /\ ow.reported \subseteq {"error", "cancel"}
  BY OwnerKnown DEF ManagedInv, ManagedTypes
<1>2. /\ ow.pc = "unlink" /\ WorldRests
      /\ \/ ow' = [ow EXCEPT !.pc = "over", !.copy = IF @ = "kept" THEN "removed" ELSE @]
         \/ /\ Fault("error")
            /\ ow' = [Report(Failing(ow, "error")) EXCEPT !.pc = "over", !.unremoved = TRUE]
  BY DEF Unlink, Rest, OtherUnchanged, OwnerAt, WorldRests
<1>3. /\ IsOwner(ow') /\ SameServer(ow', ow) /\ SameStop(ow', ow) /\ ow'.files = ow.files
      /\ ow'.pc = "over" /\ ow'.faults \in 0..MaxFaults
      /\ ow'.failures \subseteq {"error", "cancel"} /\ ow'.reported \subseteq {"error", "cancel"}
      /\ ow.reported \subseteq ow'.reported /\ (ow'.copy = "kept" => ow'.unremoved)
  <2>1. CASE ow' = [ow EXCEPT !.pc = "over", !.copy = IF @ = "kept" THEN "removed" ELSE @]
    <3>1. IsOwner(ow')
      BY <1>1, <2>1, Zenon DEF IsOwner
    <3> QED
      BY <1>1, <2>1, <3>1 DEF IsOwner, OwnerFields
  <2>2. CASE /\ Fault("error")
             /\ ow' = [Report(Failing(ow, "error")) EXCEPT !.pc = "over", !.unremoved = TRUE]
    <3> DEFINE f == Report(Failing(ow, "error"))
    <3>1. /\ IsOwner(f) /\ SameServer(f, ow) /\ SameStop(f, ow) /\ SameCopy(f, ow)
          /\ f.files = ow.files /\ f.faults \in 0..MaxFaults /\ f.failures = {}
          /\ f.reported = ow.reported \cup ow.failures \cup {"error"}
      BY <1>1, <2>2, FailureReported
    <3>2. ow' = [f EXCEPT !.pc = "over", !.unremoved = TRUE]
      BY <2>2
    <3> HIDE DEF f
    <3>3. IsOwner(ow')
      BY <3>1, <3>2, Zenon DEF IsOwner
    <3> QED
      BY <1>1, <3>1, <3>2, <3>3 DEF IsOwner, OwnerFields
  <2> QED
    BY <1>2, <2>1, <2>2
<1> QED
  BY <1>2, <1>3
     DEF WorldRests, ManagedInv, ManagedTypes, Placed, ServersAreKnown, KernelsAreFollowed,
         EventsFlow, BaselineComes, GroupsAreRecorded, StopsAdvance

\* A kernel is forked by a server that is followed, and its first event is on the wire.
LEMMA ForkKeeps ==
    ASSUME ManagedInv, NEW a \in Tries, ForkKernel(a)
    PROVE  ManagedInv'
<1>1. PICK g \in {"server", "kernel"}, e \in {"ready", "bad_ready"} :
          /\ procs' = [procs EXCEPT ![a].kernel = "live", ![a].group = g]
          /\ wire' = Append(wire, e)
  BY DEF ForkKernel
<1>2. /\ Live(a) /\ procs[a].kernel = "none" /\ ss.thread = "reads"
      /\ UNCHANGED <<posix, ow, ss, edits>>
  BY DEF ForkKernel, WorldUnchanged
<1>3. a = ow.attempt /\ procs \in [Tries -> Processes] /\ procs[a] \in Processes
  BY <1>2, OwnerKnown DEF ManagedInv, ServersAreKnown
<1>4. Flow(wire, ss, procs[a])
  BY <1>3 DEF ManagedInv, EventsFlow
<1>5. procs[a].ran = <<>> /\ wire = <<>> /\ ~ss.ready /\ ss.completed = 0 /\ ~ss.active
  BY <1>2, <1>4 DEF Flow
<1>6. wire' \in {<<"ready">>, <<"bad_ready">>}
  <2>1. Append(<<>>, "ready") = <<"ready">> /\ Append(<<>>, "bad_ready") = <<"bad_ready">>
    OBVIOUS
  <2> QED
    BY <1>1, <1>5, <2>1
<1>7. /\ procs' \in [Tries -> Processes] /\ procs'[a].ran = <<>> /\ procs'[a].kernel = "live"
      /\ procs'[a].server = procs[a].server
      /\ \A b \in Tries : b # a => procs'[b] = procs[b]
  <2> DEFINE p == [procs[a] EXCEPT !.kernel = "live", !.group = g]
  <2>1. p \in Processes /\ p.ran = <<>> /\ p.kernel = "live" /\ p.server = procs[a].server
    BY <1>1, <1>3, <1>5 DEF Processes
  <2>2. procs' = [procs EXCEPT ![a] = p]
    BY <1>1
  <2> HIDE DEF p
  <2> QED
    BY <1>3, <2>1, <2>2
<1>8. EventsFlow'
  BY <1>2, <1>3, <1>5, <1>6, <1>7 DEF EventsFlow, Flow
<1>9. BaselineComes'
  <2>1. ow.pc \notin {"instantiate", "instantiating", "instantiated", "run", "running", "ran"}
                     \cup Session
    BY <1>3, <1>5 DEF ManagedInv, BaselineComes
  <2> QED
    BY <1>2, <1>3, <1>7, <2>1 DEF BaselineComes
<1>10. ow.pc # "instantiate"
  BY <1>3, <1>5 DEF ManagedInv, BaselineComes
<1> QED
  BY <1>2, <1>3, <1>5, <1>7, <1>8, <1>9, <1>10
     DEF ManagedInv, ManagedTypes, Placed, ServersAreKnown, KernelsAreFollowed,
         GroupsAreRecorded, StopsAdvance

LEMMA WorldKeeps == ASSUME ManagedInv, World PROVE ManagedInv'
<1>1. IsOwner(ow) /\ ow.faults \in 0..MaxFaults /\ procs \in [Tries -> Processes]
      /\ edits \in 0..MaxEdits
  BY OwnerKnown
<1>2. CASE Edit
  <2>1. UNCHANGED <<posix, ow, ss, procs, wire>> /\ edits' \in 0..MaxEdits
    BY <1>1, <1>2, ManagedAssumption DEF Edit, WorldUnchanged, ManagedAssumption
  <2> QED
    BY <2>1
       DEF ManagedInv, ManagedTypes, Placed, ServersAreKnown, KernelsAreFollowed,
           EventsFlow, BaselineComes, GroupsAreRecorded, StopsAdvance
<1>3. CASE StartTimesOut
  <2>1. ow' = [ow EXCEPT !.late = TRUE] /\ WorldRests
    BY <1>3 DEF StartTimesOut, WorldRests
  <2>2. IsOwner(ow')
    BY <1>1, <2>1, Zenon DEF IsOwner
  <2>3. /\ SameServer(ow', ow) /\ SameStop(ow', ow) /\ SameFailures(ow', ow)
        /\ SameCopy(ow', ow) /\ ow'.files = ow.files /\ ow'.after = ow.after
        /\ ow'.pc = ow.pc /\ ow'.faults = ow.faults
    BY <1>1, <2>1 DEF IsOwner, OwnerFields
  <2> QED
    BY <1>1, <2>1, <2>2, <2>3, OwnerMoves
<1>4. ASSUME NEW a \in Tries, Bind(a) \/ Dies(a)
      PROVE  ManagedInv'
  <2>1. UNCHANGED <<posix, ow, ss, wire, edits>>
    BY <1>4 DEF Bind, Dies, WorldUnchanged
  <2>2. procs[a] \in Processes
    BY <1>1
  <2> DEFINE bound == [procs[a] EXCEPT !.port = "bound"]
             lost == [procs[a] EXCEPT !.port = "lost", !.server = "dead"]
             ended == [procs[a] EXCEPT !.server = "dead"]
             killed == [procs[a] EXCEPT !.kernel = "dead"]
             Less(p) == /\ p \in Processes
                        /\ p.ran = procs[a].ran /\ p.group = procs[a].group
                        /\ p.server = "live" => procs[a].server = "live"
                        /\ p.kernel = "live" => procs[a].kernel = "live"
                        /\ p.kernel = "none" <=> procs[a].kernel = "none"
  <2>3. Less(bound) /\ Less(lost) /\ Less(ended) /\ (procs[a].kernel = "live" => Less(killed))
    <3>1. Less(bound)
      BY <2>2 DEF Processes
    <3>2. Less(lost)
      BY <2>2 DEF Processes
    <3>3. Less(ended)
      BY <2>2 DEF Processes
    <3>4. procs[a].kernel = "live" => Less(killed)
      BY <2>2 DEF Processes
    <3> QED
      BY <3>1, <3>2, <3>3, <3>4
  <2>4. \/ procs' = [procs EXCEPT ![a] = bound]
        \/ procs' = [procs EXCEPT ![a] = lost]
        \/ procs' = [procs EXCEPT ![a] = ended]
        \/ procs[a].kernel = "live" /\ procs' = [procs EXCEPT ![a] = killed]
    BY <1>4 DEF Bind, Dies
  <2> HIDE DEF bound, lost, ended, killed
  <2>5. FewerRun
    BY <2>3, <2>4, OneFewer
  <2> QED
    BY <2>1, <2>5, EndsKeep
<1> QED
  BY <1>2, <1>3, <1>4, ForkKeeps DEF World

LEMMA ManagedInvStep == ManagedInv /\ [ManagedNext]_managedVars => ManagedInv'
<1> SUFFICES ASSUME ManagedInv, [ManagedNext]_managedVars PROVE ManagedInv'
  OBVIOUS
<1>1. CASE UNCHANGED managedVars
  BY <1>1
     DEF managedVars, ManagedInv, ManagedTypes, Placed, ServersAreKnown, KernelsAreFollowed,
         EventsFlow, BaselineComes, GroupsAreRecorded, StopsAdvance
<1>2. CASE Closes
  BY <1>2, CloseKeeps, SnapshotKeeps, ShutdownKeeps, JoinKeeps, FilesKeep, UnlinkKeeps
     DEF Closes
<1>3. CASE ManagedNext
  BY <1>2, <1>3, StartsKeep, ActivatesKeep, OperatesKeep, ReadsKeep, StopsKeep, WorldKeeps
     DEF ManagedNext
<1> QED
  BY <1>1, <1>3

\* The parts of the invariant hold of every build: where the owner is, which server and which
\* groups it knows, how far the baseline and a stop have come (ManagedServer of managed.py).
THEOREM ManagedInvariant == ManagedSpec => []ManagedInv
BY ManagedInvInit, ManagedInvStep, PTL DEF ManagedSpec

\* The values that the state of a build takes.
THEOREM ManagedTypesHold == ManagedSpec => []ManagedTypeOK
<1>1. ManagedInv => ManagedTypeOK
  <2> SUFFICES ASSUME ManagedInv PROVE ManagedTypeOK
    OBVIOUS
  <2>1. /\ posix \in BOOLEAN /\ edits \in 0..MaxEdits /\ ow.faults \in 0..MaxFaults
        /\ ow.attempt \in 0..Attempts /\ ow.process \in 0..Attempts
        /\ ow.failures \cup ow.reported \subseteq {"error", "cancel"}
        /\ procs \in [Tries -> Processes] /\ ss \in Streams
    BY ManagedAssumption DEF ManagedInv, ManagedTypes, ManagedAssumption
  <2>2. Len(wire) <= 4
    <3>1. wire \in {<<>>, <<"ready">>, <<"bad_ready">>, <<"done">>, <<"active", "idle", "done">>,
                    <<"active", "done">>, <<"idle", "done">>}
      <4>1. CASE ow.attempt \in Tries
        BY <4>1 DEF ManagedInv, EventsFlow, Flow
      <4>2. CASE ow.attempt \notin Tries
        BY <2>1, <4>2, ManagedAssumption
           DEF Tries, ManagedInv, ServersAreKnown, KernelsAreFollowed, ManagedAssumption
      <4> QED
        BY <4>1, <4>2
    <3> QED
      <4>1. CASE wire = <<>>
        BY <4>1
      <4>2. CASE wire = <<"ready">>
        BY <4>2
      <4>3. CASE wire = <<"bad_ready">>
        BY <4>3
      <4>4. CASE wire = <<"done">>
        BY <4>4
      <4>5. CASE wire = <<"active", "done">>
        BY <4>5
      <4>6. CASE wire = <<"idle", "done">>
        BY <4>6
      <4>7. CASE wire = <<"active", "idle", "done">>
        BY <4>7
      <4> QED
        BY <3>1, <4>1, <4>2, <4>3, <4>4, <4>5, <4>6, <4>7
  <2>3. /\ \A a \in Tries : procs[a].server \in {"none", "live", "dead"}
                            /\ procs[a].kernel \in {"none", "live", "dead"}
        /\ ss.thread \in {"none", "reads", "ended"}
    BY <2>1 DEF Processes, Streams
  <2> QED
    BY <2>1, <2>2, <2>3 DEF ManagedTypeOK
<1> QED
  BY <1>1, ManagedInvariant, PTL

\* A build never has two servers; its session ran the notebook once, to the end, of the revision
\* that was read first; and whatever failed, a context that is over left no server, no kernel
\* that ran, no thread and no copy that the system let it remove (OwnedNotebook.__exit__).
THEOREM ManagedNotebookHolds == ManagedSpec => []ManagedNotebookIsOwned
<1>1. ManagedInv => ManagedNotebookIsOwned
  <2> SUFFICES ASSUME ManagedInv PROVE ManagedNotebookIsOwned
    OBVIOUS
  <2>1. OneServer
    BY DEF OneServer, ManagedInv, ServersAreKnown
  <2>2. NothingIsLeftBehind
    BY DEF NothingIsLeftBehind, ManagedInv, Placed, StopsAdvance
  <2>3. BaselineIsComplete
    <3>1. ow.pc \in Session => ow.attempt \in Tries
      BY ManagedAssumption
         DEF ManagedInv, ManagedTypes, Placed, ServersAreKnown, Tries, ManagedAssumption
    <3> QED
      BY <3>1 DEF BaselineIsComplete, ManagedInv, BaselineComes, Placed
  <2> QED
    BY <2>1, <2>2, <2>3 DEF ManagedNotebookIsOwned
<1> QED
  BY <1>1, ManagedInvariant, PTL
=============================================================================
