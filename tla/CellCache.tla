------------------------------ MODULE CellCache ------------------------------
(***************************************************************************)
(* Cells through marimo's cell cache: the process-global patches of        *)
(* compat/cache/patch.py and host.py, the scopes and attempts of           *)
(* attempts.py and lifecycle.py, the write barrier, and the receipts that  *)
(* receipts.py reads back.                                                 *)
(*                                                                         *)
(* One process holds several kernels.  State runs borrow a kernel one at a *)
(* time, managed kernels hold the patch for their lifespan, interactive    *)
(* hosts hold a patch of their own, and a third party may patch the same   *)
(* globals and take its patch out again, in any order.  The cache itself   *)
(* is shared with other processes.                                         *)
(***************************************************************************)
EXTENDS Integers, FiniteSets, TLC

CONSTANTS
    Borrowers, Kernels, Hosts,  \* state runs, managed kernels, interactive hosts
    Cached,                     \* the cells of a state run, cached by all of them
    OutputCells,                \* those of them that are outputs
    Contents,                   \* what their entries may hold: Plain or more of Kinds
    MaxThirdParty,              \* replacements by the third party (model bounds)
    MaxRewrites                 \* changes to the cache by other processes

Kinds == {"plain", "inline", "session", "unrestorable"}

ASSUME CellCacheAssumption ==
    /\ OutputCells \subseteq Cached /\ Contents \subseteq Kinds
    /\ MaxThirdParty \in Nat /\ MaxRewrites \in Nat

Users == Borrowers \union Kernels \union Hosts

\* The globals, and who put there what they hold: marimo (0), the third party (-1)
\* or the n-th installation of ours.
CacheGlobals == {"loader", "lifecycle", "attempt"}
HostGlobals  == {"ui", "tensor"}
Native == 0
Theirs == -1

VARIABLES
    globals,    \* the patched globals
    patches,    \* the two coordinators: their tokens, what they put where, what was there
    third,      \* what the third party found where it patched, where it ever did
    borrowed,   \* _BORROWED_RUN_LOCK
    users,      \* where each user is
    scope,      \* _SCOPES and the activity of each state run
    store       \* the cell cache

cacheVars == <<globals, patches, third, borrowed, users, scope, store>>

NoScope == [forced |-> {}, disposition |-> << >>, attempts |-> {}, ran |-> {},
            live |-> << >>, read |-> << >>, receipts |-> << >>, refused |-> {}]

Idle == [tokens |-> {}, original |-> << >>, mine |-> << >>, count |-> 0]

CacheInit ==
    /\ globals = [g \in CacheGlobals \union HostGlobals |-> Native]
    /\ patches = [cache |-> Idle, host |-> Idle]
    /\ third = [found |-> << >>, touched |-> {}, count |-> 0]
    /\ borrowed = {}
    /\ users = [u \in Users |-> "idle"]
    /\ scope = [b \in Borrowers |-> NoScope]
    /\ \E kinds \in [Cached -> Contents], there \in SUBSET Cached :
         store = [kind    |-> kinds, changes |-> 0,
                  entry   |-> [c \in Cached |-> IF c \in there THEN 1 ELSE 0],
                  payload |-> [c \in Cached |-> IF c \in there THEN 1 ELSE 0]]

-----------------------------------------------------------------------------
(* The two coordinators                                                    *)

GlobalsOf(k) == IF k = "cache" THEN CacheGlobals ELSE HostGlobals
\* The host's patch is found through whatever lifecycle is in place.
Installed(k) ==
    /\ \A g \in GlobalsOf(k) : globals[g] = patches[k].mine[g]
    /\ k = "host" => globals["lifecycle"] # Theirs

\* open: the first token installs, a later one requires what was installed, and
\* the host's patch goes over the native lifecycle the cache's own patch hides.
CanOpen(k) ==
    /\ patches[k].tokens # {} => Installed(k)
    /\ k = "host" /\ patches["host"].tokens = {} =>
           (patches["cache"].tokens # {} => Installed("cache"))
Opened(k, u) ==
    IF patches[k].tokens # {}
    THEN /\ patches' = [patches EXCEPT ![k].tokens = @ \union {u}] /\ UNCHANGED globals
    ELSE LET ours == [g \in GlobalsOf(k) |-> patches[k].count + 1] IN
         /\ patches' = [patches EXCEPT ![k] =
                [tokens |-> {u}, original |-> [g \in GlobalsOf(k) |-> globals[g]],
                 mine |-> ours, count |-> patches[k].count + 1]]
         /\ globals' = ours @@ globals

\* Mutation of GivenBack: what another put there since is overwritten too.
AllGivenBack(k) == patches[k].original @@ globals

\* _release: the last token puts back what is still ours.
GivenBack(k) ==
    [g \in DOMAIN globals |->
        IF g \in GlobalsOf(k) /\ globals[g] = patches[k].mine[g]
        THEN patches[k].original[g] ELSE globals[g]]

GlobalReleased(k, u) ==
    LET left == patches[k].tokens \ {u} IN
    IF left # {}
    THEN /\ patches' = [patches EXCEPT ![k].tokens = left] /\ UNCHANGED globals
    ELSE /\ globals' = GivenBack(k)
         /\ patches' = [patches EXCEPT ![k] =
                [tokens |-> {}, original |-> << >>, mine |-> << >>, count |-> patches[k].count]]

\* native_contract: the globals under the patches, which require_cache_capabilities
\* finds to be marimo's own.
Under(g) ==
    LET k == IF g \in CacheGlobals THEN "cache" ELSE "host"
    IN  IF patches[k].tokens = {} THEN globals[g] ELSE patches[k].original[g]
Capable ==
    /\ \A k \in {"cache", "host"} : patches[k].tokens # {} => Installed(k)
    /\ \A g \in DOMAIN globals : Under(g) = Native

Goes(u, pc) == users' = [users EXCEPT ![u] = pc]

\* managed_cache_compat and keep_cached_cells_compatible; a probe that finds drift,
\* or a patch replaced since, refuses.
OpensHeld(u, k) ==
    /\ users[u] = "idle"
    /\ IF Capable /\ CanOpen(k) THEN Opened(k, u) /\ Goes(u, "open")
       ELSE Goes(u, "over") /\ UNCHANGED <<globals, patches>>
    /\ UNCHANGED <<third, borrowed, scope, store>>

\* _CloseHandle.close, once whatever it is called.
ClosesHeld(u, k) ==
    /\ users[u] = "open" /\ GlobalReleased(k, u) /\ Goes(u, "over")
    /\ UNCHANGED <<third, borrowed, scope, store>>

ManagedKernel == \E u \in Kernels : OpensHeld(u, "cache") \/ ClosesHeld(u, "cache")
InteractiveHost == \E u \in Hosts : OpensHeld(u, "host") \/ ClosesHeld(u, "host")

\* The third party: patches over what it finds, and puts that back.
Replaces ==
    \E g \in DOMAIN globals \ DOMAIN third.found :
        /\ third.count < MaxThirdParty
        /\ third' = [found |-> third.found @@ (g :> globals[g]),
                     touched |-> third.touched \union {g}, count |-> third.count + 1]
        /\ globals' = [globals EXCEPT ![g] = Theirs]
        /\ UNCHANGED <<patches, borrowed, users, scope, store>>
PutsBack ==
    \E g \in DOMAIN third.found :
        /\ globals[g] = Theirs
        /\ globals' = [globals EXCEPT ![g] = third.found[g]]
        /\ third' = [third EXCEPT !.found = [h \in DOMAIN @ \ {g} |-> @[h]]]
        /\ UNCHANGED <<patches, borrowed, users, scope, store>>

-----------------------------------------------------------------------------
(* A state run                                                             *)

\* track_notebook_cache, and the cells the plan has to run live.
Tracks(b) ==
    /\ users[b] = "idle" /\ Goes(b, "waiting")
    /\ \E forced \in SUBSET Cached : scope' = [scope EXCEPT ![b].forced = forced]
    /\ UNCHANGED <<globals, patches, third, borrowed, store>>

\* sequential_cache_loader: the lock by polling, then the patch.
Borrows(b) ==
    /\ users[b] = "waiting" /\ borrowed = {}
    /\ borrowed' = {b} /\ Goes(b, "borrowed")
    /\ UNCHANGED <<globals, patches, third, scope, store>>

OpensBorrowed(b) ==
    /\ users[b] = "borrowed"
    /\ IF CanOpen("cache") THEN Opened("cache", b) /\ Goes(b, "running") /\ UNCHANGED borrowed
       ELSE Goes(b, "over") /\ borrowed' = borrowed \ {b} /\ UNCHANGED <<globals, patches>>
    /\ UNCHANGED <<third, store>>
    /\ IF CanOpen("cache") THEN UNCHANGED scope ELSE scope' = [scope EXCEPT ![b] = NoScope]

\* cache_attempt_wrapper: a hit that restores to something unavailable, or that
\* is forced to run, becomes a miss.
Hit(b, c) ==
    /\ store.entry[c] # 0 /\ store.payload[c] # 0
    /\ store.kind[c] # "unrestorable" /\ c \notin scope[b].forced

\* CompleteCachedLifecycle.setup: a restored hit that the live session cannot use is
\* run after all.
Restorable(c) == store.kind[c] \notin {"session", "unrestorable"}

\* A cell is attempted, then run or restored; a run is written to the cache, and
\* the barrier waits for that.  Where a third party's attempt is in place the graph
\* is not tracked: nothing is recorded before the lifecycle, which records a miss;
\* with a lifecycle of theirs a hit stays a hit.
Attempt(b, c) ==
    /\ users[b] = "running" /\ c \notin DOMAIN scope[b].live
    /\ LET tracked == globals["attempt"] # Theirs
           checked == globals["lifecycle"] # Theirs
           native  == store.entry[c] # 0 /\ store.payload[c] # 0
           hit     == IF tracked THEN Hit(b, c) ELSE native
           stays   == hit /\ (checked => Restorable(c))
           records == [scope[b] EXCEPT
                         !.attempts = IF tracked /\ c \in OutputCells THEN @ \union {c} ELSE @]
       IN  IF stays
           THEN /\ scope' = [scope EXCEPT ![b] = [records EXCEPT
                       !.disposition = IF tracked THEN (c :> "hit") @@ @ ELSE @,
                       !.live = (c :> store.payload[c]) @@ @]]
                /\ UNCHANGED store
           ELSE \E v \in {1, 2} :
                /\ scope' = [scope EXCEPT ![b] = [records EXCEPT
                       !.disposition = IF tracked \/ checked THEN (c :> "miss") @@ @ ELSE @,
                       !.ran = @ \union {c}, !.live = (c :> v) @@ @]]
                /\ store' = [store EXCEPT !.entry[c] = v, !.payload[c] = v]
    /\ UNCHANGED <<globals, patches, third, borrowed, users>>

\* The borrowed run ends: the patch is released, then the lock, whatever the
\* release says of a conflict, which fails the run.
ClosesBorrowed(b) ==
    /\ users[b] = "running" /\ DOMAIN scope[b].live = Cached
    /\ GlobalReleased("cache", b) /\ borrowed' = borrowed \ {b}
    /\ IF Installed("cache") THEN Goes(b, "reading") /\ UNCHANGED scope
       ELSE Goes(b, "over") /\ scope' = [scope EXCEPT ![b] = NoScope]
    /\ UNCHANGED <<third, store>>

\* A run that fails or is cancelled between two cells.
Abandons(b) ==
    /\ users[b] = "running"
    /\ GlobalReleased("cache", b) /\ borrowed' = borrowed \ {b} /\ Goes(b, "over")
    /\ scope' = [scope EXCEPT ![b] = NoScope]
    /\ UNCHANGED <<third, store>>

-----------------------------------------------------------------------------
(* Receipts                                                                *)

Pending(b) == OutputCells \ (DOMAIN scope[b].receipts \union scope[b].refused)

\* read_cached_return reads the manifest; an output with no recorded attempt, or
\* whose manifest is gone, has no receipt.
ReadsManifest(b) ==
    /\ users[b] = "reading"
    /\ \E c \in Pending(b) \ DOMAIN scope[b].read :
         scope' = [scope EXCEPT ![b] =
             IF c \in scope[b].attempts /\ c \in DOMAIN scope[b].disposition /\ store.entry[c] # 0
             THEN [@ EXCEPT !.read = (c :> store.entry[c]) @@ @]
             ELSE [@ EXCEPT !.refused = @ \union {c}]]
    /\ UNCHANGED <<globals, patches, third, borrowed, users, store>>

\* Then the value: inline in the manifest, where it has to be the one the run
\* holds, or an asset, where it has to be the one the manifest is signed for.
Verified(manifest, payload) == payload # 0 /\ payload = manifest
ReadsValue(b) ==
    /\ users[b] = "reading"
    /\ \E c \in DOMAIN scope[b].read \intersect Pending(b) :
         LET m == scope[b].read[c]
             v == IF store.kind[c] = "inline" THEN scope[b].live[c] ELSE store.payload[c]
         IN  scope' = [scope EXCEPT ![b] =
                 IF Verified(m, v) THEN [@ EXCEPT !.receipts = (c :> v) @@ @]
                 ELSE [@ EXCEPT !.refused = @ \union {c}]]
    /\ UNCHANGED <<globals, patches, third, borrowed, users, store>>

\* The scope ends with the run.
Untracks(b) ==
    /\ users[b] = "reading" /\ Pending(b) = {}
    /\ Goes(b, "over") /\ scope' = [scope EXCEPT ![b] = NoScope]
    /\ UNCHANGED <<globals, patches, third, borrowed, store>>

\* Other processes evict and rewrite entries.
OthersRewrite ==
    /\ store.changes < MaxRewrites
    /\ \E c \in Cached, part \in {"entry", "payload"}, v \in 0..2 :
         /\ store[part][c] # v
         /\ store' = [store EXCEPT ![part][c] = v, !.changes = @ + 1]
    /\ UNCHANGED <<globals, patches, third, borrowed, users, scope>>

CacheOver == (\A u \in Users : users[u] = "over") /\ UNCHANGED cacheVars

CacheNext ==
    \/ ManagedKernel \/ InteractiveHost \/ Replaces \/ PutsBack \/ OthersRewrite
    \/ \E b \in Borrowers :
         \/ Tracks(b) \/ Borrows(b) \/ OpensBorrowed(b) \/ \E c \in Cached : Attempt(b, c)
         \/ ClosesBorrowed(b) \/ Abandons(b)
         \/ ReadsManifest(b) \/ ReadsValue(b) \/ Untracks(b)
    \/ CacheOver

CacheSpec == CacheInit /\ [][CacheNext]_cacheVars

-----------------------------------------------------------------------------
(* Properties                                                              *)

\* Every variable stays within its type.
CacheTypeOK ==
    /\ \A g \in DOMAIN globals : globals[g] \in Int
    /\ \A k \in {"cache", "host"} : patches[k].tokens \subseteq Users
    /\ borrowed \subseteq Borrowers
    /\ \A b \in Borrowers : scope[b].forced \subseteq Cached

\* The globals are given back: with no user left, one that no third party ever
\* touched is marimo's own, whoever opened first and closed last; and while a host
\* or a run holds its patch, so is what is under it.
GlobalsAreGivenBack ==
    \A k \in {"cache", "host"}, g \in DOMAIN globals :
        g \in GlobalsOf(k) \ third.touched =>
            /\ patches[k].tokens = {} => globals[g] = Native
            /\ patches[k].tokens # {} =>
                   globals[g] = patches[k].mine[g] /\ patches[k].original[g] = Native

\* What a third party put in place stays until it takes it out, unless one of ours
\* goes over it, and then it comes back.
TheirsIsKept ==
    \A g \in DOMAIN third.found :
        globals[g] = Theirs \/ Under(g) = Theirs

\* The activity of a run says what happened: a cell that had to run live ran, no
\* value the session cannot hold was restored, unless by a lifecycle of a third
\* party, and a receipt is the value that the run itself holds or a whole entry of
\* the cache, recorded by this run.
ActivityIsTrue ==
    \A b \in Borrowers :
        LET s == scope[b] IN
        /\ \A c \in DOMAIN s.disposition :
             /\ s.disposition[c] = "miss" <=> c \in s.ran
             /\ s.disposition[c] = "hit" =>
                    /\ c \notin s.forced /\ store.kind[c] # "unrestorable"
                    /\ "lifecycle" \in third.touched \/ store.kind[c] # "session"
        /\ \A c \in DOMAIN s.receipts :
             /\ c \in s.attempts
             /\ s.receipts[c] = s.read[c]
             /\ store.kind[c] = "inline" => s.receipts[c] = s.live[c]

CellCacheIsSound == GlobalsAreGivenBack /\ TheirsIsKept /\ ActivityIsTrue
===============================================================================
