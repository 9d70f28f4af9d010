# Verification of the marimo-export repository

marimo-export prepares a notebook for a set of input states, stores the result
as immutable artifacts in a repository that several processes share, serves the
prepared publications, and replays them in a page. This directory holds TLA+
specifications of its stateful parts, the TLC configurations that check them on
small instances, and TLAPS proofs of what matters most.

Every module is translated from the source. Unless a path starts with `src/` or
`packages/`, it is under `src/packages/python/src/marimo_export/`. `PROJECT.json`
names, for every definition, the lines it stands for; lists the hazards of the
code at the line where they bite, with the property that would notice; and holds,
for every checked property, plausible bugs (`mutants`) that the property catches.

    tlc -workers 2 -config ReservationFence.cfg MCReservationFence
    tlapm ReservationFence_proofs.tla

## 1. Inventory

| Component | State | Operations | Interacts with |
|---|---|---|---|
| Lease manager (`_repository/leases.py`) | reservations and their confirmed deadlines, counts of handles, pending releases, a failure, a heartbeat thread | claim, acquire, retain, release, flush, close; the heartbeat releases, renews and confirms | catalog (transactions), every handle (calls, finalizers) |
| Preparation (`_repository/preparation.py`, `artifact_commit.py`) | a claim lock per identity, the reservation in use | reserve, reuse, stage, commit, replace | lease manager, catalog, trees, maintenance lock |
| Preparation services (`_services/`) | one call: identity, plan, leased states, reservation, repository | prepare, capture_session, plan, plan_session | notebook (file or session), repository, progress callbacks |
| Planning (`_execution/plan.py`, `_marimo/compat/inputs.py`) | none | select the control roots, complete the rows, join aliases, plan a state again for its run | the live values of a notebook |
| State execution (`_marimo/compat/execution.py`, `child_run.py`, `receipts.py`) | a child kernel: what each cell did, which are stale, what stopped | construct, apply each input, run the rest, receipts, release | marimo's runner, the cell cache |
| Cell cache (`_marimo/compat/cache/`) | globals of the process that several users patch; scopes and attempts of a run | borrow, install, restore, load, save, flush | marimo's cache, other processes, third parties |
| Managed server (`producer.py`, `_remote/managed.py`, `windows_job.py`) | a copy of the notebook, processes, a session stream in a thread | open, retry, run, compare, stop, close | a foreign program, ports, process groups |
| Remote capture (`client.py`, `_remote/client.py`, `sse.py`, `_marimo/bridge.py`, `transfer.py`) | the tickets of a kernel, their files and one timer; the stream of an execution | inspect, capture, download, release, sweep | the kernel's queue, virtual files, a client that gives up |
| Catalog (`_repository/sqlite/`) | tables of reservations, leases, states, generations, retired trees, producers and observations | one transaction per call; opening and replacing a broken catalog | all processes; busy while another one writes |
| Artifact store (`_repository/artifact_*.py`, `files.py`) | trees, trees set aside, staging | open, commit, prune, recover | maintenance lock, catalog, leases |
| Maintenance lock (`_repository/sqlite/maintenance.py`) | a file that is found by its name | lock, replace a corrupt file | other processes, whoever damages the file |
| Retention (`_repository/sqlite/retention.py`) | none: a policy over the catalog | choose and remove artifacts, then producers; admit | leases and fences pin, limits bound |
| Directory delivery (`_directory.py`) | staging tree, recovery sibling, destination | exchange or rename, compare, roll back | file system, other owners |
| Publication controller (`_publication.py`) | works, desired and current publications, route grace, refreshes, one timer | prepare, poll, asset, release, close | event loop, worker threads, callbacks of the application |
| Observation ledger (`_observations/`) | two bounded queues, a worker thread, a failure | record, deferred record, flush, close | observation tables, retried when busy |
| Observation tables (`_repository/sqlite/observations.py`) | revision, vectors and events of each producer | record, advance, clear, snapshot | retention of producers, commits of states and generations |
| Prepared handles (`prepared.py`, `_repository/handles.py`) | lease and closure of an export | open, retain, detach, close | lease manager |
| Browser controller (`packages/browser/src/prepared/`) | publication, target, pending inputs, operations of the port | update, follow a query, replace, refresh, cancel, restore, dispose | server manifest, the page's view and controls |
| Browser export (`packages/browser/src/export.ts`, `transport.ts`, `index*.ts`, `replay*.ts`) | index, reads of a call, totals, aborts; a merge of snapshots | open, load, verify, resolve, merge | a server that may answer anything |
| AnyWidget loader (`packages/loader-anywidget/src/runtime/`) | mounts, bindings, views, modules, cleanups | mount, bind, render, child view, dispose | code of widgets, which may answer late or never |
| Reader, index, values, exporters | none | parse, validate, convert, serialise | files |
| Command line, examples, site | - | - | - |

What makes these components correct, and what is hard about them:

* **Reservations.** Two processes must not both believe that they may prepare an
  identity, and a commit must be refused once another claim was granted. Hard:
  the row, the owner's memory and the heartbeat's snapshot are three copies of
  one fact, changed in different threads, with a clock between them.
* **Artifact leases.** What an open handle reads must stay. Hard: the expiry of
  an opening is read before its transaction and counted after its verification;
  releases run in the background, race renewals, and are put back when the
  catalog is busy; finalizers call them at any moment.
* **Trees, lock and delivery.** Between the file system and the catalog nothing
  is atomic: a crash, an error or another owner in between must be survived
  without a loss, a leak or somebody else's tree removed.
* **Retention.** Two transactions choose and remove, with leases ending and
  coming in between; limits of four kinds interact through what generations
  contain.
* **Preparation.** The notebook, the session and its inputs change while states
  are captured; an export must hold one version, a failed call must hold nothing.
* **State execution.** A cell may run several times on the way to a state, be
  stopped once and not the next time, and be interrupted; the answer must be that
  of a run from scratch.
* **Cell cache.** Users open and close in any order around globals that others
  patch too; each must get back what it found.
* **Managed server and remote capture.** Ports are lost, processes fork and die,
  a client gives up while the kernel goes on working, a stream is cut anywhere.
* **Publications.** A group of keys shows the last good result of its latest
  intent; every prepared export is closed once and not under a reader; close
  ends. Hard: every await is a point at which an application supersedes,
  releases, cancels or closes.
* **Observations.** Each accepted vector is counted once and in order; flush and
  close say so when one was lost; a publication notices evidence that is newer
  than its plan. Hard: one condition variable for several kinds of waiters,
  coalescing and eviction while the worker retries, and retention of producers
  under plans that are only captured.
* **Pages.** Answers arrive out of order, and a replacement, an abort or a
  disposal may come before an answer; what the user asked for last must stay.

## 2. Plan

| Order | Module | Abstract specification or reference | State |
|---|---|---|---|
| 1 | `ReservationFence`: claims, heartbeat, commit pipeline, crashes | `FencedPointer` | safety and refinement proved |
| 2 | `ArtifactLeases`: handles, heartbeat, prune, recovery, crashes | `PinnedArtifacts` | safety and refinement proved |
| 3 | `PublicationController` | `LastGood` | safety and refinement proved |
| 4 | `ObservationLedger`: queues, worker, flush, close; `Sums`: their counters | the vectors accepted, in order | safety proved |
| 5 | `ObservationHistory`: tables, plans, retention of producers | - | safety proved |
| 6 | `ArtifactStore`, `MaintenanceFile`, `CatalogReset`: files and rows, with a crash between any two steps | rows, trees and account agree after recovery | safety proved |
| 7 | `Retention`: choice and second look, admission | what is protected stays, what is needed leaves room | safety proved |
| 8 | `DirectoryCommit`: exchange, rename, roll back | the destination is the old or the new export | safety proved |
| 9 | `PrepareExport`: the calls that turn a spec into an export | one version, nothing kept | safety proved |
| 9 | `ExportPlanning`, `StateExecution`, `CellCache`: the states of an export | a complete plan; a run from scratch | checked |
| 10 | `BrowserPrepared`, `BrowserExport`, `AnywidgetRuntime`, `ReplayMerge`: the page | last accepted intent; a merge every snapshot accepts | checked |
| 11 | `ManagedServer`, `RemoteCapture`: the foreign kernel | - | safety proved |
| 12 | `ScratchpadStream`: the answers of the foreign kernel | the text of the whole stream | checked |

`ArtifactLeases`, `ArtifactStore` and `Retention` are three views of the life of
an artifact: the first leaves file operations atomic, the second leaves the
leases abstract and the third leaves both out and has the policy. Likewise
`PrepareExport` leaves the fence to `ReservationFence` and the run of a state to
`StateExecution`, which leaves the cache to `CellCache`.

Section 6 says what is proved. What would come next is `CellCacheIsSound` of `CellCache`,
the largest property of one part that has neither recursion nor folds.

## 3. The modules and the code

Each component has a module with one action per operation or per atomic part of
it, an `MC` module that gives the constants their values, and a configuration
per question. The operators whose comment begins "Mutation of X" are bugs put in X's
place to see that a property breaks, several for a property with several parts;
`mutants` in `PROJECT.json` names at least one per property. No specification
uses them.

Modules whose parts share no state are checked in one run by a sum:
`MCObservations`, `MCFlushLiveness`, `MCStorage` and `MCServices` extend several
modules, choose one of them with the variable `part` in the initial state, and let
only that one move. A behaviour of a sum is a behaviour of one part; the
fairness of a part is stated for the steps it takes when it is chosen.

### ReservationFence and FencedPointer

Each opened repository is an element of `Owners`, with its own lease manager
(`status`, `held`, `pending`), heartbeat thread (`beat`) and preparation of each
identity (`prep`). The catalog is `rows`, `counter` and `current`; a transaction
is one step. `lock` is the maintenance lock shared by all processes. The pc of
`prep` follows `reserve_preparation`: claim, record, look up, plan, stage, wait
for the lock, admit, check, commit, close the reservation, flush. `beat` follows
`_maintain`: snapshot, release, renew, update, confirm.

* Time is relative: a deadline is the time left until it, and a transaction that
  reads the clock before it gets the catalog keeps the age of that reading.
  `Tick` lets a unit pass, so the model has no horizon. `MaxWait` bounds the age:
  a transaction gives up (`RepositoryBusyError`) first.
* `flush_releases` waits at most ten seconds and `reserve_preparation` suppresses
  its failure: that is `FlushCanStop = TRUE`. `FALSE` describes a heartbeat that
  answers in time; section 5 says what the difference is worth.
* A process that crashes keeps its rows in the catalog and loses the rest.
* `_lost_reservations`, which only words an error, is left out.
* `granted` and `committed` are history variables for `FencedPointer`, the
  abstract promise: fences grow, and a pointer is set only under the latest
  fence of its identity, or emptied by retention and recovery.

### ArtifactLeases and PinnedArtifacts

`lease` is the table `artifact_leases`; `handles` the counts of the manager,
where base and retained handles are "attached" (they end with their manager) and
detached ones outlive it; `confirmed`, `pending` and `beat` are those of the
manager and its thread; `op` is the operation that holds the maintenance lock
(one at a time, `_repository/artifacts.py:150`); `indexed` and `trees` say which
artifacts have a catalog row and a directory.

* Only the order of the expiry readings that are still in use matters, so a
  reading is one more than the latest of those and 0 is expired. This is exact
  up to the order of the readings.
* Which unleased artifacts retention gives up is left open.
* Trees that a prune has put into quarantine come back in `Recover`.
* A renewal of a row that has expired but is still in the table is left out: the
  transaction deletes expired rows first, by the reading it came with.
* `ReleaseWhileOpening = TRUE` is the code: another thread or a finalizer may
  release the last other handle while an artifact opens. `FALSE` describes
  clients of one thread that keep no handle for the collector.
* `CatalogBusy = TRUE` is the code; `FALSE` describes heartbeats that are never
  refused by the catalog.
* `abandoned` is a history of rows of openings and commits that failed after
  they had acquired one; these rows stay until they expire, by design.

`PinnedArtifacts` promises that an artifact that a working handle has open is
neither evicted nor lost; `available` maps to `indexed \cap trees`, `pins` to the
handles of managers that have not failed.

### PublicationController and LastGood

All operations run on one event loop, so a step is the code between two awaits.
A publication is named by the token of the work that produced it. A work goes
through `queued`, `thread` (the preparation callback), `answered` and
`admission`, and may be cancelled or interrupted in each; a refresh goes through
its predicate and its preparation. Deadlines of route grace are in the order of
retirement, since the grace is a constant, so the `deadline` of a retired
publication is its place in that order: the number of different deadlines that pass
before its own does. `timer` is the place of the deadline that the one timer was
started for. Whether a work has an admission is a
choice at every work. `asset` changes state only by pruning what has expired,
which is `Look`; closing a prepared export is assumed not to raise. A poll while
the controller closes is allowed, as in the code. Publications that are closed
and works that have returned are normalised, which keeps the state space small
and forgets nothing that is read later. `outdated` is a history flag of a
refresh: the application has decided something since the poll.

`LastGood` is the promise for each group: the group shows what it showed until
its latest intent produced something, and never a superseded or released one.

### ObservationLedger

A step is one section under the lock of the ledger, or one call that the worker
makes outside of it. A channel is a producer (vectors recorded directly) or a
scope (candidates of the kernel hook). `waiters` are the threads that wait on the
one condition variable; `notify` wakes any of them. `settled` counts, for each
channel, what was written or refused for good, and `accepted` is the history of
what was accepted. The matching of a saved source with the cells that ran is a
choice between `ProducerResolved` and `ProducerUnknown`. The advances that
eviction leaves behind are taken in any order of the producers, where the code
takes the first one: an over-approximation. A vector above `observation_bytes`
only advances the revision. `WorkerInterrupted` says whether a call of the worker
may raise a `BaseException`.

`Sums` is arithmetic and models no code: sums over a sequence, which the byte counters of
the queues and the order of their items are stated with, and over a set, for the budgets. An item of a queue stands for the
vectors of its channel from a place on (`StandsFor`), and a queue is `LinedUp` when its
items follow each other up to the last one accepted.

### ObservationHistory

The tables `producers` (in the order of their last touch), `observations` and
`observation_events`, the plans that capture a revision, commit states under a
lease and publish a generation, and `Retain`, which removes artifacts that no one
leases and then the producers that nothing holds. `evidence` and `pruned` are
histories of a plan: something was observed since its capture; its producer was
removed since.

A table is a set of rows, each with its order and its vector. Every record is made by
a handle with `Limits` of its own (`observation_bytes`, `observations_per_producer`,
`observation_relation_bytes`): the catalog does not keep them, so a repository that is
reopened prunes what others wrote by other numbers. `StaysAfterPrune` is
`_prune_observation_table`, by count and by bytes, on each table alone, and
`RemoveCorrupt` the deletion of rows that fail their validation, which something outside
the program damaged.

* `disturbed` is a history that says when the two tables may keep different rows: since
  a record last fitted the byte limit, one did not and met rows that do not fit it
  either (a larger limit had let them in), or corrupt rows were removed.
* The rows of a producer are one relation: how they are divided among the tuples of
  input names of a specification is left out.

### ArtifactStore, MaintenanceFile and CatalogReset

`ArtifactStore` has, for each artifact, the tree in its place and up to
`MaxSiblings` trees of each kind beside it (`side`), its row, the account of
retired bytes (`retired`), the staging directories and the one task that holds
the maintenance lock (`task`). A step is one move or removal of a tree or one
transaction. Between any two steps the task may crash or a call raise
(`mishaps`), and a tree may be damaged from outside; its artifact is in `hurt` until a
commit of a whole tree is published, and not only installed: a commit that is refused
takes its tree away again. `Recover` is
`recover_repository`, step by step, and is interrupted like any other task.

* `remove_tree` ignores errors (`files.py:307`). What a recovery deletes beside an
  indexed artifact may stay in part or whole, and the recovery goes on to its end: the
  promise is that it tried each such tree (`task.tried`), and the next one tries again.
* The staging lease of a live preparation may expire too (`ExpireStaging`, a mishap), and
  the staging directory is promised only while the lease lasts.
* The code names each tree set aside by a fresh uuid; here a free one of `MaxSiblings`
  names is taken, and with `MaxMishaps` mishaps `MaxMishaps + 1` names always leave one.

`MaintenanceFile` is the lock file: a process opens the node that has the name,
tries to lock it, replaces it when it is corrupt, and compares the node with the
name again. `swapped` records that a file was replaced between its last comparison
and its move; the gap is that of `_replace_maintenance_file`.

`CatalogReset` is `open_catalog` on a catalog that is missing, unusable or of
another schema: rename, make a new one, list what the old one indexed, remove
the trees and the snapshot, while other processes work on either.

* Artifacts are opened, verified and leased in `ArtifactLeases`; contents and
  digests of files are "whole" or "hurt".
* `unfinished` records that a reset was left halfway. The trees it leaves are collected by
  the next reset or recovery. A catalog that was renamed and not yet accounted stays:
  no later step looks for it.
* SQLite's `-wal` and `-shm` files are not modelled. The code renames them one by one
  after the catalog (`open.py:56`), and does so too when one of them is all there is
  (`open.py:57`).

### Retention

`generations`, `states` and `touched` are the tables in the order of their last
use, `current` the pointers, `prune` the operation: select, move aside, commit,
admit. `Victims` follows `_select_retention` limit by limit. Leases begin, end and
are renewed between the two transactions, identities are reserved, and a
candidate brings its own bytes. `disturbed` says that leases or reservations
changed during the prune: then room is not promised, and the admission refuses.
The candidate's own size selects victims, for content and metadata as for the budgets of
an identity. Two pages of the documentation say otherwise (section 5).

### DirectoryCommit

One destination, several writers and owners who know nothing of them. A step is
one call of the file system. `platform` is one of the three ways to install:
exchange, rename without replacement, rename. A tree is its name and revision,
which is what `directory_identity` sees of it. Failures (`MaxFailures`) may hit any
call, also those of the rollback.

* An asynchronous interrupt between an installation and the next statement, and
  an identity that cannot be read while swapping back, are left out.

### BrowserPrepared

The controller (`ctl`), the queue of the application's port (`portOps`), the page
(`page`: view, controls), the refresh (`refreshing`) and the server's manifest.
`wish` is a history variable: the vector the user asked for last and has not
seen. `Cancel` may come at any time: without a transition in flight it still takes the
authority of a restore that is queued. The port may raise an `AbortError` of its own,
that nobody asked for. Queries are formatted and parsed by what they do to the values: `WebTexts`
gives two values the same text, which is why a query may be ambiguous.

* An update that the target publication cannot resolve cancels the replacement in
  flight and stays pending; one that equals an aborted target waits for it and
  gets the abort of the other caller. Both are the code's behaviour
  (`controller.ts:55-94`) and part of the model.
* A vector that was asked for, superseded and asked for again is cleared by value
  when the superseded request fails for good (`pendingInputsAfterFailure`);
  `wish` follows this.
* The DOM of the controls is what the port shows.

### BrowserExport and ReplayMerge

`BrowserExport` opens an index, loads outputs and verifies an export. The reads of
a call run side by side, share one abort and one total; the server answers any
of `Responses` (status, declared length, size, intact or not, which forms of
content it has) for any of `WireIndexes`. A body grows in a buffer that doubles,
and the limits are checked where the code does. Decoding a value is the
outcome of a read. A request or a body that rejects with an `AbortError` counts as
aborted, whether or not a signal of the call was (`throwReadError`,
`transport.ts:233`); `asked` says that one of the two happened, and `AbortIsAskedFor`
that no other failure is reported as an abort.

`ReplayMerge` is a function: the state is the merge in progress, snapshot by
snapshot and notification by notification, and the reference is the union of the
orders of the snapshots (`Before`): the result extends it, and a merge that gives up
was asked for an order with a cycle.

### AnywidgetRuntime

Mounts of an element, bindings and views of the root and its child, the module
cache and the cleanups. A widget's code answers, throws, or never answers; the
page disposes at any await and mounts again. Payloads, values and callbacks of
models are left out, and so is the loader of native values.

### ManagedServer

The owner of a build's notebook (`ow`), the processes it started (`procs`, each
with a group), the port, the stream (`wire`, `ss`) and the notebook file. Any call
may fail or be cancelled (`MaxFaults`).

* A stranger on the port is there or not, and does not answer 200 to
  `/api/sessions`.
* Process ids that are reused, signals between two calls, and kernels forked after
  the last look at the tree are left out. `refused` records that the system
  did not end a group.

### RemoteCapture and ScratchpadStream

`RemoteCapture`: each capture is a caller (`caller`) with a ticket (`leases`); the
kernel works its queue one request at a time (`remote`), virtual files are
`registry`, the sweeping timer is `timer`. A client may give up on any call while
the kernel goes on with it; the notebook may be edited at any moment.
Authentication and the wire forms of requests are left out.

`ScratchpadStream` reads one of `Wires` in chunks cut anywhere. Parser, marker
extractor and dispatch keep the code's state between chunks; the reference is
`Printed`, which reads the whole stream at once. A symbol is a piece that no two
chunks of interest divide.

### StateExecution

`book` is the notebook and state, `cell` what each cell did and saw, `stopping` the
attribution of stops, `staterun` the run and `kernelChild` the child. A cell runs,
stops or raises, always or only before or after it has seen the inputs. The
reference is `FromScratch`. Interruptions and failing cleanups come anywhere.

* Callbacks of UI elements that set `mo.state`, outputs that depend on earlier runs
  of their own descendants, and sensitive controls are left out.
* Whether the kernel also runs the descendants of what it was asked for (`eager`, the
  notebook's own setting) is a choice in the initial state.
* Compiling projections is data: what an output cell returns is part of `book`.

### CellCache

`globals` are the patched names and who put there what they hold, `patches` the
two patches with their users, `third` a third party that replaces some of the
globals and takes its replacement out again, `scope` the run of a borrower and
`store` the shared cache.

* The globals of the cache are the lazy loader's entry, `CachedLifecycle` and
  `cache_attempt_from_hash`. A
  third party that replaces the lifecycle takes the check of a hit with it: whatever the
  coordinator then restores is not judged (`ActivityIsTrue` says so).
* A coordinator's steps are atomic under its lock; the rollback of an
  interrupted installation is left out. The signed cache is assumed; hashing a cell is not modelled.
* The run has one borrower: borrowed runs exclude each other.

### PrepareExport

`calls` are the calls step by step, `shared` the repository (states, exports, who
reserved an identity), `notebook` the saved and live versions and the live input.
A version stands for the document and its producer identity. The notebook has one
input; a state is its value.

* A progress callback that raises while states are leased leaves their handles to
  the finalizers of the frame (`loose`).
* What reservations promise is `ReservationFence`: here a lost reservation is one
  under which nothing commits.
* A specification names at least one state: `plan.py` refuses an empty one, and
  `PrepareAssumption` assumes it.

### ExportPlanning

A behaviour plans one case of `NotebookPlans`: roots, rows, states, and for each
state the plan of its own run. An input value is a function of its fields, so
that a patch of an AnyWidget is not the same as replacing it.

## 4. What the runs check

| Run | Instance | What it shows |
|---|---|---|
| `reservation_fence` | 2 owners, 1 identity, TTL 2, 2 fences, 1 crash or close | a reservation that its owner believes in is backed by its row, and two owners never believe in one (`ReservationsHold`); fences are unique; `FencedPointer` is implemented |
| `reservation_liveness` | 2 owners, TTL 1, 1 crash or close, fairness | rows of owners that are gone are reclaimed, and closing a reservation ends |
| `artifact_leases` | 2 owners, 1 artifact, 1 crash, close or failed manager (besides those that lose a lease), busy catalog | working handles have their lease, row and tree; `PinnedArtifacts` is implemented |
| `flush_liveness` | the leases of 1 owner that may close, with a catalog that is not busy for the heartbeat; a ledger with 2 flushes, 1 producer, 1 scope and an interrupted worker; fairness | flushed releases leave no row, no wake-up is lost, every flush and the close of the ledger end |
| `publication_controller` | 2 keys of one group at 2 routes, 3 works, owned repository | exports are open exactly while they are needed and the repository closes last, no address is taken away, refreshes yield, `LastGood` is implemented |
| `publication_liveness` | 1 key, 2 exports, 3 works, fairness | retired publications are closed without a request, and close ends |
| `observations` | a queue: 2 producers and 1 scope, room for 2 vectors, 3 bytes and 1 producer, 3 occurrences; tables: 2 producers, 1 retained place, vectors of 1 and 2 bytes, 1 plan, revisions to 3, corrupt rows of order 2, two handles that keep 2 rows, in 3 bytes and in 1 | occurrences are counted once and in order, bounds do not leak, flush and close tell the truth; evidence is detected, the revision of a producer in use stays, the tables agree on the newest vector, but where different limits or damage part them |
| `storage` | 9 parts, see below | rows, trees and account survive crashes; protected artifacts stay and room is made; the lock is exclusive; deliveries are atomic; a replaced catalog leaves no tree; states are those of a run from scratch; an export is what was planned |
| `services` | 7 parts, see below, fairness | the page shows what it settled on and keeps the last wish; reads respect limits and aborts; merges keep every order; the server of a build is its own; captures and answers are whole; what was given up ends |

The parts of `storage`: one state in one generation with three siblings and two
mishaps; six artifacts of two identities at the edge of every limit; two
processes, four files and two corruptions at the lock's name; two writers, one
outside step and one failure on three platforms; two processes, three catalogs and
one break; 4-cell notebooks, a chain and a fork, in which two of the cells are of
each of six kinds, and eleven odd ones; one borrower, one kernel, one host and a third party
at the cell cache; a file and a session call (or two plans) with two edits and one
failure; 3144 cases of planning. Its parts run to their ends, so deadlock is not
checked; the same holds for `services`.

The parts of `services`: three publications of two exports with three requests,
one cancellation and one failure; six indexes, seven kinds of response and two
calls; one mount with a root and a child and two modules; every sequence of up to
three of seven snapshots; two attempts, one fault, one edit and one operation; two
captures of two and one assets with two tickets, three bytes and one trouble; nine
streams.

The bounds are chosen so that the interesting case happens and one step beyond
it. Two owners are enough for a race for one identity, and the protocol treats
identities independently except for the counter of the fences (proved for all of
them). Two fences allow a claim after a claim that was lost; a TTL of two ticks
puts renewal and expiry into different ticks. Leases of different artifacts do
not meet either, except in one snapshot of the heartbeat and one prune, which
treat them one by one. Two expiry readings in use at once are a renewal and an
opening that overlap, and `flush_liveness` has four. Three works are the shown
one, the superseded one and the latest. Two vectors in the queue and three
occurrences reach coalescing, eviction and an advance; in the tables, two
rows and three revisions reach a pruned row and a vector that comes back, and one of two
vectors fits the limit of one of two handles: the least that lets a record prune what
another handle let in. The rows that are damaged are those of order 2 (`Corruptible`): the
newest at one revision and an older one at the next. The theorem has no such bound. In `storage`, two
mishaps are a crash and a crash of the recovery from it, and with three siblings a name
is always free; four cells have an input,
a cell between, another input and a cell below both, the least in which a cell
runs stale; a version of each kind of edit before and after a capture needs two
edits. In `services`, three requests are an update, a replacement that supersedes
it and an update that supersedes that; two captures are needed for a full
registry, and one trouble each because captures recover independently. That no
bound hides the case is what the mutants are for: each property fails, in its own
run, under a plausible bug.

Deadlock is checked in the runs of the reservations and in `artifact_leases`. A
controller or a ledger that has been closed stops for good, so do the only owner of
`flush_liveness` and the parts of `storage` and `services`: these runs do not check
it, and where stopping early would be wrong a liveness property says so.

### Fairness

* Threads that can run do run (weak fairness of the heartbeat, the worker, the
  loop and worker threads), and time passes.
* A catalog is busy now and then and not always: transactions of a thread that
  keeps trying are strongly fair. `LeaseManager._run` retries for ever; the
  ledger retries a bounded number of times and then fails, so it needs no such
  assumption.
* Callbacks of the application return, and an admission ends when it is
  cancelled: the code awaits both without a timeout.
* `ReservationsEnd` also assumes that the application goes on preparing the
  identity: an expired row is removed by the next claim, not by a timer.
* The end of the ledger's flush is for recording that pauses (`MaxAccepted` is
  finite). Under recording that never pauses a flush may wait for ever, since it
  waits for a moment at which nothing is queued or in hand.
* In `services` only what does not depend on others is fair: a page's reads
  unwind once they are aborted, the loader's own continuations run, the owner of a
  managed server that began to close goes on (its waits have timeouts), and in
  the kernel the timer fires and tickets expire. Servers, widgets, clients and
  users may do nothing for ever.

## 5. Findings

Three runs check a property that a document, a comment or a test states, and show
a behaviour of the code that contradicts it. `PROJECT.json` quotes the lines.

| Run | Behaviour |
|---|---|
| `release_race` | The last other handle of an artifact is released while the artifact opens and its row is renewed: the release is raised to the renewed expiry and deletes the row that the new handle relies on. |
| `busy_flush` | A busy round puts back the release of an artifact that is open again; until that handle closes, every flush of the manager waits its ten seconds and raises. |
| `missed_evidence` | Retention removes the producer of a plan before its first state is committed; the revision starts over, and the publication misses what was observed since. |

More are known and have no run of their own. Four show up when one constant
of a passing run is changed to what the code also allows, which is why the constant
is there, or when one property is added to it:

* `flush_liveness` with `CatalogBusy = TRUE`: `FlushedReleasesLeaveNoLease` fails.
  `_maintain` puts an old release back over a newer one (`_repository/leases.py:548`),
  whose row then stays until it expires.
* `reservation_fence` with `FlushCanStop = TRUE`: the exclusive part of
  `ReservationsHold` fails. The flush of a reservation gives up after ten seconds
  (`leases.py:312`, `preparation.py:196`); the same process claims again under the
  same row and fence; the late release deletes the row; a second process prepares
  the identity while the first still believes in its reservation. Its commits are
  refused: `FencesUnique` and `CommitsAreFenced` are proved for
  `FlushCanStop = TRUE` too.
* `reservation_fence` with the property `CommitsBeforeExpiry`: the clock is read
  before the commit waits for the catalog (`artifact_commit.py:215`), so a commit
  may go through after its reservation expired. The fence keeps this harmless.
* `observations` with `WorkerInterrupted = TRUE`: `FlushMeansCounted` fails.
  A flush that looks between the two sections in which the worker handles a
  `BaseException` (`_observations/ledger.py:176` and 183) returns although a
  vector is lost.

The others are properties that a module states and no run lists; TLC finds them
violated when they are added to `storage`:

* `FileBuildsUseAutorun` (`PrepareExport`): `src/docs/guide/choose-states.md:109` says
  that a file build takes its baseline from the initial autorun. A capture of a live
  session whose input was moved leaves an export under the same identity, and a later
  file build of the same spec reuses it, with the session's baseline in the rows that
  omit the input (17 steps).
* `MaintenanceSerialized` (`MaintenanceFile`): "Serialize artifact filesystem
  mutations" (`maintenance.py:29`). Between the comparison of a corrupt lock file
  and its move another process may put a sound one there, which is moved away under
  its holder; `LockIsExclusive` holds when that gap is not hit (`swapped`).
* `TreesWithRowsStay` (`CatalogReset`): a reset lists the rows of the new catalog before it
  removes trees of the old one, and a process may commit in between.

A run with one of these constants at `FALSE` covers a hazard only in part: the flush that
gives up, the release while an artifact opens, the busy catalog and the interrupted
worker are what these paragraphs, `release_race` and `busy_flush` show, and not what the
passing runs do. Two more are out of a recovery's reach, and no property says otherwise: a
tree set aside beside an artifact that is not indexed, and a tree whose deletion fails
each time.
* `SizeSelectsNoVictims` (`Retention`): `src/docs/guide/manage-repository.md:167-171` and
  `src/docs/reference/python/repository-and-observations.md:149-154` say that the size of a
  candidate selects no victims for the limits on content and metadata. The code spends it
  before it chooses (`retention.py:292`), so a candidate that does not fit evicts
  what is not protected until it does; `src/development_docs/architecture/repository.md:297`
  says so too, and `AdmissionMakesRoom` checks it. For `repository_bytes` alone the two
  pages are right. TLC needs a few seconds to contradict them.

## 6. Proofs

Each theorem holds for every value of the constants that the assumptions of its module
allow. These are named, stand in the module that declares the constants, and are as weak
as the code justifies: bounds are natural numbers, the placeholder for "nobody" is not one
of the values, and for the ledger a vector has a size and fits the queue alone (`add`
refuses what exceeds `MAX_OBSERVATION_BYTES`, which is less than `MAX_PENDING_BYTES`).
TLC evaluates them in every run of these modules. Every inductive invariant below was
first checked by TLC on the model of the run of its component, that of the artifact store
with three mishaps (`Storage` has two, to stay within minutes).

| Module | Theorems |
|---|---|
| `ReservationFence_proofs` | `TypeCorrect`, `FencesUnique`, `CommitsAreFenced`, `ReservationsAreHeld` |
| `ArtifactLeases_proofs` | `TypeCorrect`, `LeasesPinHandles`, `ArtifactsStayPinned`, `ReleasesLeaveNoLease` |
| `Exports_proofs` on `Sums_proofs`, about `PrepareExport` | `PrepareInvariant`, `PrepareTypesHold`, `PreparedExportHolds` |
| `Exports_proofs`, about `PublicationController` | `TypeCorrect`, `ResourcesAreAccounted`, `RefreshYields`, `ReplacementKeeps`, `ShowsLastGood` |
| `Observations_proofs` on `Sums_proofs`, about `ObservationLedger` | `LedgerTypes`, `WorkerIsWoken`, `FlushIsWoken`, `OccurrencesStayInOrder`, `QueuesStayDrained`, `FlushesCount` |
| `Observations_proofs`, about `ObservationHistory` | `EvidenceIsDetected`, `RevisionIsKept`, `NewestIsAgreed` |
| `ArtifactStore_proofs` | `StoreTypeCorrect`, `StoreSurvives` |
| `Repository_proofs`, about `MaintenanceFile`, `CatalogReset` and `DirectoryCommit` | `LockTypeCorrect`, `LocksAreExclusive`, `ResetTypeCorrect`, `ResetsLeaveTheIndexed`, `CommitTypeCorrect`, `DeliveriesStayAtomic` |
| `Repository_proofs` on `Sums_proofs`, about `Retention` | `RetentionTypeCorrect`, `PruneMakesRoom`, `ProtectedRowsStay` |
| `Services_proofs` on `Sums_proofs`, about `RemoteCapture` | `RemoteInvariant`, `RemoteTypesHold`, `RemoteCaptureHolds` |
| `Services_proofs`, about `ManagedServer` | `ManagedInvariant`, `ManagedTypesHold`, `ManagedNotebookHolds` |

Four theorems have a hypothesis on a constant that says whether the environment does
something. In each case the property is false without it, section 5 says how, and states
of either value are reachable.

| Theorem | Hypothesis | What it excludes |
|---|---|---|
| `ReservationsAreHeld` | `FlushCanStop = FALSE` | a `flush_releases` that gives up after ten seconds |
| `LeasesPinHandles`, `ArtifactsStayPinned` | `ReleaseWhileOpening = FALSE` | a release of the other handles while an artifact opens |
| `ReleasesLeaveNoLease` | both `ReleaseWhileOpening` and `CatalogBusy` are `FALSE` | that, and a heartbeat that the catalog turns away |
| `FlushesCount` | `WorkerInterrupted = FALSE` | a `BaseException` in the worker |

### Along which argument

* **`ReservationFence_proofs`.** `TypeCorrect` goes through the actions in groups
  (claims, work, heartbeat, leaving, time), with lemmas about records that are
  updated. `FencesUnique` needs `FenceInv`: uniqueness is not inductive, because a
  preparation may hold a fence whose row is long gone and an extension of a claim
  takes the fence from a row. So the invariant says that the fences of rows were
  granted, that grants and preparations stay at or below the counter, and that a
  preparation and a row with one fence belong to the same owner and identity.
  `CommitsAreFenced` is the refinement of `FencedPointer`: the commit transaction
  finds its own fence in the row, the fence of a row is the one granted last for
  its identity, and every other step maps to a grant, a clear or a stutter.
  `ReservationsAreHeld` needs `ReservationInv`. Its core is `DeadlinesAreDurable`:
  what a claim will record, what a round of the heartbeat will confirm and what the
  manager believes in are all backed by the row, each with the deadline that it has
  or will get; only so does a step from one of the three copies to the next keep the
  promise. `ReleasesAreAwaited` keeps a late release away from a new claim, and is
  where the hypothesis enters.
* **`ArtifactLeases_proofs`.** `LeaseInv` joins six facts, of which two carry the
  weight. `OpeningIsNewest`: the expiry that an opening has read is later than every
  one at which its row could still be deleted; `VictimsAreUnleased`: the maintenance
  lock keeps the victims of a prune without a lease until it has decided.
  `ArtifactsStayPinned` maps `available` to `indexed \cap trees`; the steps that could
  take an artifact away are those of a prune and of recovery, and the invariant leaves
  them nobody's. `ReleasesLeaveNoLease` needs `OwedInv`: the expiry in each row is the
  one at which it will be deleted (`Owed`), moved on by a renewal that is in the catalog
  and not yet confirmed (`Renewed`), or belongs to an opening, at work or failed.
* **`Exports_proofs`, the preparation.** `PreparedExportIsSound` needs `PrepareInv`, one
  predicate per call and another on the repository. `RepositoryIsSound` makes an export
  unique for its identity, of one version and within the limit, so a call that reuses it
  need not look again. `CallHasStates` is why a new one is such: each leased state is in
  the repository for the call's own identity, what is captured is leased, and the version
  that executed is the producer from the guard to the commit; a spec names a state at
  least (`_execution/plan.py:215`), without which an export would have no version at all.
  `CallAdvances` keeps what the call has seen of the notebook: the version of the moment
  is always in it, so that the last look before the export (`ProducerIsCurrent`) puts the
  producer there, although edits may follow between any two steps. Others' steps only add
  states and release holders, which `CallRests` shows to leave a call as it is; every
  failure goes through one lemma (`FailedIsSound`). The index budget is a sum over a set of
  any size: `SpecEntriesBound` says that what a spec counts before anything is opened is
  never more than the states of a plan, and `SumAtLeast` what that many entries cost.
* **`Exports_proofs`, the controller.** `PublicationInv` says token by token what is open
  and why (`OpenIsNeeded`); it needs that works are known to the set a newer work
  cancels, that what is shown was committed under a token not above the desired one, and
  that a group shows one publication. `ClosingIsComplete` is the order of `close`, and
  `RefreshIsDated` what a refresh knows of the poll it came from. `ReplacementKeeps` and
  `RefreshYields` are action properties; `ShowsLastGood` is the refinement of `LastGood`.
* **`Observations_proofs`, the ledger.** `LedgerInv` joins four invariants.
  `RoomInv`, the types with the counters of both queues, says that a queue always fits
  and is never empty after an addition: eviction spares the newest vector. `WakeInv` says
  that the worker waits only while there is nothing to do, a flush only while there is
  something, so they never wait together, and a `notify` that finds the worker waiting
  has no other thread to wake. `EndInv` says that a worker that stops without a failure
  leaves nothing and was told to close. `OccurrencesInOrder` is inductive on top
  of these: a vector that is merged lands behind the last of its producer (`LinedUpMore`),
  a new one at the end (`LinedUpAppend`), what is evicted or taken comes from the
  front (`LinedUpSuffix`) and moves to the advances or into the hand of the worker.
  `QueuesStayDrained` and `FlushesCount` then follow in a state: where nothing is queued
  or in hand, the vectors ahead of the queue are all of them.
  `Sums` defines the sums over a sequence as a recursive function,
  and `Sums_proofs` what appending, replacing and splitting do to them. The
  library's induction theorems cannot be used here; where the proofs need induction, they
  take the least element of the set of numbers at which a fact fails
  (`LeastMember`, from the well-foundedness of `<`).
* **`Observations_proofs`, the tables.** `EvidenceIsDetected` needs `EvidenceInv`: a plan
  whose producer was never removed has captured a revision at or below the
  current one and detects what was observed since, from the capture on and not
  only when published. `RevisionIsKept` is an action property: the only step that takes a
  revision back removes a producer that nothing holds. `NewestIsAgreed` holds for
  any limits of the handles that record, and needs `TablesInv`: no order is ahead of the
  revision, so none is given twice, each names one vector, and no event is newer than the
  row of its vector. What a prune keeps is not computed but characterised: the newest row
  stays if it fits alone (`PruneNewest`), and if it does not and all older ones do, the
  next one stays in both tables, or none where one place is all there is (`PruneSecond`).
  Where older rows do not fit either, the tables may part, and `disturbed` records it.
  What other steps take away leaves nothing that contradicts the rest (`ShrunkAgree`).
* **`ArtifactStore_proofs`.** `StoreSurvives` needs `StoreInv`. `RowsAreKept` is the
  promise: an indexed artifact that nothing has damaged has a whole tree, in its place or
  beside it and not accounted as retired. It is kept because what a task deletes is never
  the only one (`DeletedIsSpared`), and that differs by where the task is: a settled
  victim has no row, an orphan that is retired had no row or leaves a backup (`Spared`),
  the backup of a swap is of a damaged artifact (`DamageIsKnown`), and recovery deletes a
  tree only beside a whole one or when it is not whole itself (`DeletedIsSpare`, for a
  deletion that is interrupted). `RecoveryIsOnTheWay` says, stage by stage, what recovery
  has already put right; `AsideIsKnown` that what leaves the account was deleted first;
  `StagingIsLeased` that recovery has read the lease of every preparation whose staging
  directory it could meet and whose lease still lasts. That a finished recovery has tried
  each tree it leaves beside an indexed artifact goes through `TriesRemoving`, `Restores`
  and `TaskTries`: a tree that stays after its deletion is one of `tried`, and is spared by
  nothing else. The lists a task works through come from `SetToSeq`; that they
  list a finite set whole is a lemma (`ListedWhole`, from the injection that the operator
  chooses), so `rows` and the places with a tree are finite in the invariant
  (`TreesAreFinite`). The proof corrected the model: `hurt` used to be cleared when a
  whole tree was installed, and with three mishaps (damage, a crash that leaves the
  damaged tree aside, a commit that is refused) `IndexedNeverLost` was violated.
* **`Repository_proofs`, the files.** `LocksAreExclusive`: uniqueness of the holder follows from
  `LockedIsFound`, whoever holds a lock holds it on the file that has the name, and that
  needs `MovedIsUnreadable`: what a process is about to move away is a corrupt file, hence
  locked by nobody. `ResetsLeaveTheIndexed`: a tree without a row is left only while a
  process is on the way to retire the catalog it came from (`LeftIsRetired`).
  `DeliveriesStayAtomic`: `CommitInv` says for each writer where its own tree and the
  tree it had looked at are, by where it is in the delivery and on which platform;
  `AloneKeepsTarget` is the part about a writer nobody disturbs.
* **`Repository_proofs`, retention.** Both theorems need `RetentionInv`. What a prune chose is closed,
  what is not a victim pins none (`VictimsAreClosed`), so a row goes only with those that
  need it even when the second look finds other victims; and until a lease or a
  reservation changes the victims are still those that would be chosen (`ChosenInv`). The
  weight is in the lemmas about `Retained`, for any rows and limits: at each step of its
  passes what is kept is closed under the states it pins and the bytes left are those of
  the limits, less the candidate's charge and the bytes of what is kept (`Sound`); what
  must be kept is kept, exactly with the states it pins (`ForcedFacts`); and later passes
  only add, and spend nothing that is not there (`RetainedFacts`). `PruneMakesRoom` then
  compares the arithmetic of the choice with that of the admission: a removal changes
  neither what is protected (`RemoveSpares`) nor which rows the candidate is credited
  with. The folds are over sets and sequences of any length; what they preserve is proved
  by removing one member at a time (`SubsetInduction`), and sums of bytes are split the
  same way (`SumOfUnion`). In the limits `retained_identities` and the like the theorems
  hold whatever their numbers: they decide what else is kept, never what is protected.
* **`Services_proofs`, a capture.** `RemoteCaptureIsSound` needs `RemoteInv`. A request may
  stay in the kernel's queue long after its client gave up, so the invariant ties each
  request to the number of its call (`RequestsAreRelevant`) and says that a client has
  one capture at most, in the queue or at work (`OneCapture`): only so is the ticket
  that a late capture creates nobody else's. `Budgeted` joins the leases with the virtual
  files and their bytes; an admission looks at both before it takes room. `Verified` says
  what a client knows on its way to the result, from the last asset on. Bytes are sums over
  sets of any size, with the lemmas of `Sums_proofs`. The proof tightened
  the model: a capture makes four calls at most, where `RemoteTypeOK` had allowed five, and
  that an export has finitely many assets of some size each is now an assumption.
* **`Services_proofs`, a build.** `ManagedInv` says by where the owner is what it has and
  knows (`Placed`, `ServersAreKnown`). Three parts carry the weight. `Flow` relates what the
  kernel was asked to run, what its event stream has accepted and what is still on the
  wire, event by event; from it follows that a session opens only after both runs have
  ended and been read. `GroupsAreRecorded` says that the group of a kernel is known
  before the kernel is asked to run: the second look at the groups is not needed for
  this, the first is. `StopsAdvance` says what a stop has ended by how far it has come, or
  what the system refused; on Windows the job does in one step what the groups do
  on POSIX. Steps that only end processes are one relation (`FewerRun`), for the stop and
  for processes that die by themselves.

### Only model-checked

* Liveness, with fairness and ENABLED, is out of the prover's reach.
* `StatesAreTheirOwn` of `storage`, and in `services`
  `BrowserShowsWhatItRead` and `PiecesAreJoined`, have no proof. The references of some of these are RECURSIVE operators or folds (`FromScratch` of
  `StateExecution`, `Printed` of `ScratchpadStream`, `ReplayMerge`), which would have to
  become functions with lemmas of their own, as the sums of the ledger and the passes of
  `Retained` did.
* A run checks the types of all its parts in one invariant (`StorageTypeOK`,
  `ServicesTypeOK`, `ObservationsTypeOK`); the theorems state them part by part.

## 7. Not modelled

* Left out for good: what is sequential and pure (reader, values, exporters,
  manifests, specs and their validation), which unit tests reach; the schema of
  the catalog and the statements that create and validate it, which run under an
  exclusive lock; marimo's own runtime behind its interface; the command line, the
  examples and the site.
* Source identity (`_observations/source.py`, `_notebook.py`): its result is the choice
  between `ProducerResolved` and `ProducerUnknown` in `ObservationLedger`, and the
  versions of `PrepareExport`.
* The renewal of staging leases: `ArtifactStore` has the staging directories and their
  leases, `ReservationFence` the reservations; that one heartbeat renews both, and what a
  preparation does when either is lost, is not composed.
* Of marimo's compatibility layer: inspection (`inspection.py`) is the data that
  `ExportPlanning` and `StateExecution` start from, and the hashing of cells is an
  identity in `CellCache`.
* Inside the modelled components: contents and digests of files (a tree is whole
  or not), wording of errors, JSON of manifests, authentication, clocks that go
  backwards, and what section 3 says of each module.
