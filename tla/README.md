# Moodarr, verified

TLA+ models of [Moodarr](../src/README.md), a media finder that reads a Plex
library, keeps a SQLite catalog, recommends titles and files requests for
missing ones with a Seerr server. The modules are translated from the
TypeScript under `src/`; TLC checks them on small instances, TLAPS proves the
theorems for every value of the constants. `PROJECT.json` holds the map from
each definition to its lines of code, the runs, their mutants, the findings,
the hazards and the theorems.

## 1. Inventory

### How the parts fit together

One Node process serves HTTP on its main thread. It owns a `SyncScheduler` over
a `SyncWorkerPool` (one worker thread that reads Plex and Seerr and writes the
database) and a `SearchWorkerPool` (one search and one diagnostics thread). All
threads, and any second process, share one SQLite file: every transaction is
atomic, nothing else is. The main thread runs a handler without interruption
up to its next `await`, but a *worker thread* commits between any two of the
handler's statements. Seerr and Plex are reached over HTTP, where a call may be
lost in either direction.

| component | state | operations | hard behaviour | what makes it correct |
|---|---|---|---|---|
| request creation (`server/app.ts`, `db/mediaRepository.ts`) | table `request_creation_operations`; in-flight map `requestCreations` | preview, create, reconcile | lost answers, retries, crashes, several users, several processes | one side effect per item; a success is stored only if Seerr accepted it; nothing possibly accepted is sent again |
| Seerr state (`db/mediaRepository.ts`, Seerr half of `jobs/syncRunner.ts`) | `seerr_items`, `seerr_sync_state` | snapshot ingest in batches, clearing of absent rows, `saveRequest` | overlapping snapshots of syncs and reconciliations, aborts between batches, equal timestamps | old snapshots change nothing; new requests are not erased |
| Seerr client (`integrations/seerrClient.ts`) | none | `createRequest`, paged snapshot | pages change under the reader | a snapshot called complete is complete |
| sync worker pool (`jobs/syncWorkerPool.ts`, `syncWorkerRuntime.ts`) | worker, active run, timers, promise chain of resets | run, cancel, restart, close; messages, exits, deadlines | messages of replaced workers, timers that race answers, calls during `terminate()` | one thread at a time, every run settled, close is final |
| sync scheduler (`jobs/syncScheduler.ts`) | timer, generation, running | start, stop, requestRun, restart, close | stop and start during a run | one timer chain; running ends |
| sync runner, Plex half | `plex_items`, quarantine | ingest, mark unavailable, clear quarantine | abort between steps, identity conflicts | only a complete snapshot makes items unavailable |
| search worker pool (`search/*`) | two roles, queue, caches, resets | search, diagnostics, restart, close | deadline against answer, coalesced resets | every search settled, capacity, fresh diagnostics |
| feedback (`client/feedbackSession.ts`, `db/feedbackMutationStore.ts`, `feedbackLearningJournal.ts`) | selections, pending operation; event chain and learned weights | choose, retry, replace, retract | lost acknowledgements, stale sessions, replay | client and server agree on the latest event; undo restores the weights |
| Plex sign-in | challenges, users, sessions | start, complete, expiry | two completions of one PIN | a challenge is consumed once |
| small coordinators: posters, rate limit, `LatestRequestLifecycle`, `ExclusiveActionLock` | maps, counters | run, incr, begin, acquire | limits, out-of-order answers | bounds hold, only the latest answer is used |
| Plex watch state, catalog import, embeddings, recommendation engine, configuration, migrations, UI, `apps/*` | tables, none of their own concurrency | | | not modelled, see section 7 |

The hazards of this code, each at its line with the properties that cover it,
are in `PROJECT.json`. Those without a property say why.

## 2. Modules

| module | models |
|---|---|
| `RequestCreation` | preview, create and reconcile of `app.ts`, the operation table, the Seerr rows, the sync's Seerr half, the Seerr server |
| `RequestLedger` | the abstract promise of request creation: an item has at most one open operation, which is settled once; a success is final |
| `RequestCreationProofs` | who owns an operation: its inductive invariant and theorems |
| `RequestSafetyProofs` | on top of it: what Seerr holds, the rows, the snapshots; the refinement of `RequestLedger` |
| `MCRequestCreation` | small instances for TLC |
| `SyncWorkerPool`, `MCSyncWorkerPool` | the pool of the sync worker, the thread at the other end; small instances |
| `SyncWorkerPoolProofs` | threads and attempts: the pool's inductive invariant and theorems |
| `SyncWorkerPoolSafetyProofs` | on top of it: the chain of resets, the active run, timers, `close()` |
| `SyncScheduler`, `MCSyncScheduler` | the scheduler, composed with the pool (it EXTENDS `SyncWorkerPool`) |
| `SyncSchedulerProofs` | theorems about the scheduler, and about the pool under it |
| `SearchWorkerPool`, `MCSearchWorkerPool` | the pool of the search and the diagnostics thread, with both threads |
| `SearchWorkerPoolProofs` | its inductive invariants and theorems |
| `FeedbackSession`, `MCFeedbackSession` | the feedback controller of tabs, the network, the event store and what it learns |
| `FeedbackSessionProofs` | its inductive invariant and theorems |
| `LibrarySync`, `MCLibrarySync` | a sync run: paged snapshots of Plex and Seerr that change, batches, quarantine, availability |
| `LibrarySyncProofs` | its inductive invariant and theorems |

Operators whose comment starts with "Mutation:" are not part of a model. Each is
a plausible bug, the wrong body of the definition below it; with it TLC
violates the property it is listed with in `PROJECT.json`.

### RequestCreation

*State.* `ops` is the operation table by idempotency key, `rows` one row of
`seerr_items` per item, `watermark` is `completed_snapshot_started_at`. A
handler is a program counter (`pc`), the operation it works on (`opKey`) and the
body its client sends (`body`); `requestCreations` is derived: the handlers in
an owning place (`InFlight`). `wire` and `remote` are the POSTs under way and
what Seerr holds. `served` and `denied` are history.

*Atomicity.* A database transaction is one step. `mainThread` is held by a
handler from its first statement after an `await` to its next `await`, so that
no other handler of its process runs between its transactions while the sync
(a thread) and the other processes do. The path of a create call is

    Admit - Confirm - BeginAcquire - (Seerr) - SaveRequest - CompleteOperation
                    \ RefuseConfirmation, BeginRefuse
                                       \ FailOperation (401, 403), PostUncertain
    Reconcile - FetchSnapshot - ReconcileIngest - ReconcileAbsence
              - RecoverRequest - CompleteOperation
              \ ReconcileUncertain, RecoverySuperseded

and `WriteFails` or `Crash` may end it at any place. `Admit` reads the operation
of the key, the unresolved ones of the scope and of the item, and the row:
several statements, taken in one step because nothing in the path relies on
their agreement; the two reads whose order matters, the row and the generation,
are two steps (`Admit`, `Confirm`). Everything is checked again by the
transaction of `BeginAcquire`.

*Abstractions.*
- A request body is its item and the generation that its confirmation token
  hashes: type, media id, seasons and phrase follow from the item. TV seasons,
  identity ambiguity and the quarantine are left out.
- A row is "absent", "declined" or "active" (any Seerr status that blocks).
  An item has one row. Upserts that are not from a snapshot return nothing under
  the build's content policy (`seerrClient.ts:169`) and are left out.
- Time is a counter of milliseconds. A pending operation "older than 120
  seconds" is one that no handler owns any more (`Abandoned`): a POST is aborted
  after 12 seconds, so the code never sees an older one with a live owner unless
  a process hangs for two minutes.
- `updated_at` is kept for created operations, the only ones whose time the code
  compares except for the age above and the purge after ninety days, which may
  take any failed operation (`Purged`).
- A snapshot is read in one step between its start and its use.
- Fixture mode, audit rows and HTTP texts are left out. Seerr is external.

### SyncWorkerPool

*State.* The fields of the class by their names; `lifecycle` is the promise chain
as a sequence of resets, `killing` the threads the current reset awaits and
`phase` whether it does. The check of `reset()` that its worker is still the
current one (line 192) never fails (`ResetsMeetTheirWorker`), so no action models
a skipped reset. A thread has a state, the run it executes, and a queue
in each direction. `cancelled` is history.

*Atomicity.* A call, a message or a timer is one step, and so is each part of
`reset()` between awaits. Continuations of promises run before the next event
(`Quiet`).

*Abstractions.* Progress messages and `lastResult` are left out; the cancel
message only makes a run end early, which a run may do anyway. The names of
dead threads are used again, so spawning is not bounded. A repeated `cancel()`
re-arms the grace timer in the code; the model keeps the first one.

### SyncScheduler

*State.* The fields of the class; `timer` and `callback` hold the generation that
`scheduleNextRun` captured, `awaited` is the run whose promise `runOnce` awaits,
`settings` the number of settings PUTs that have written the configuration and
not yet reached `restart()`.

*Atomicity.* As in the pool. A run settles inside a step of the pool; what awaits
it (`RunSettles`) goes on before the next event, so every other step of the main
thread has the guard `~Settled`. `restart()` cancels the run and queues the
pool's reset in one step.

*Abstractions.* The interval is positive or not. `close()` is modelled when no
settings PUT is pending, because Fastify runs `onClose` after the requests under
way have been answered. The status object and the inline mode without a pool are
left out.

### SearchWorkerPool

*State.* As in `SyncWorkerPool`, by role; `queue` is the search queue or, of the
diagnostics role, the pending call; `lifecycle` holds whole and per-role resets
and `resetQueued` coalesces the whole ones. `cache` is the diagnostics cache,
`outdated` the workers of a former configuration, `blamed` history: the
workers that failed or overran a deadline.

*Abstractions.* A result is its task's id. A configuration is the latest or an
older one. Task ids and thread names are used again when nothing refers to them,
so calls and spawns are unbounded in number. Threads of a role in `Crashing` may
die of themselves; both may fail to start or never answer.

### FeedbackSession

*State.* Of a tab: its session, the selections it shows, the latest event ids, the
operation under way as a list of `steps`, and a search it waits for. `wire` is the
set of requests that may reach the server. A tab may give up on a request that is
still on its way, or whose answer is lost, and send the same id again, so a request may
be lost, late or served twice. `log` is the event
table in order, with each event's journal of values before and after; `learned`
is one weight and one mood term, both clamped to `-Cap..Cap` as in the code.

*Atomicity.* A transaction of the store (replay of an id, conflict, retraction,
learning, insertion) is one step; a step of a tab is one continuation.

*Abstractions.* One title, one user. Writes of older clients ("legacy") and a
reset of the profile appear between events. Left out: group profiles and other
users, holdouts, the cap of terms per session, checkpoints and rollback, the
window of 500 events, retention, `swipe_skip`, `updated_at`. The comment in
`feedbackMutationStore.ts:150`, "hydrated clients must replace the latest revision
across slates", binds clients: a write without a target from another session starts
a second live lineage in the store, which `TabAgrees` excepts.

### LibrarySync

*State.* `lists` and `names` are what Plex and Seerr hold, in paging order. `db` is
one record, because every step is a transaction: owners of external ids, rows of
entries with `listed` (available, or a live request), titles, quarantine, and the
search projection's availability. `phase`, `snapshot`, `next` are the run's place.

*Atomicity.* A page, a batch of `upsertInBatches`, the marking of absent rows, the
clearing of quarantines and the end of a run are one step each; upstream changes,
an error or an abort may come between any two of them.

*Abstractions.* One media type and one Plex section; an empty section list counts
as complete, as in the code. The build's content policy is "configurable", the one
of the sources; under the official "none" a title known from Seerr alone is
"operational" and has no index row, and searches ingest nothing (`RequestCreation`
takes that policy). The guards that spare rows with newer data or an open
operation from ingestion (`upsertSeerr`) and the absence step are in `RequestCreation`. Items that a search
finds (`IngestFound`) are titles without a request. Embeddings, sync history and
catalog records are left out, and of the writers of the projection those outside a
sync run and a search: `saveRequest` and the catalog importer.

## 3. Runs

| run | instance | states | shows |
|---|---|---|---|
| `request_single` | 1 item, 2 keys of one user, 2 handlers, 1 process with its sync, 3 ms | 1.5 M | all properties of request creation and the refinement of `RequestLedger` |
| `request_instances` | 2 users with a key each, 2 processes, one syncing, 2 ms | 1.6 M | no duplicate write between processes that share nothing but the database |
| `request_foreign` | as `request_single` with 2 ms and one request by somebody else | 1.9 M | what holds although Moodarr is not the only client of Seerr |
| `request_race` | | | finding 1 |
| `request_instances_reopen` | as `request_instances` | | finding 2 |
| `sync_pool` | 3 thread names, 4 runs, 2 attempts, 3 waiting resets | 20 k | safety of the pool; runs are settled, close completes |
| `pool_degraded` | as `sync_pool` with fewer names and runs | | finding 3 |
| `scheduler` | 2 thread names, 2 runs, 2 attempts, 2 waiting resets, generation up to 6 | 93 k | one chain of runs, agreement with the pool, shutdown ends |
| `search_pool` | 2 thread names per role, 2 searches and 1 diagnostics at a time, 2 attempts, 2 waiting resets, search threads die | 1.6 M | safety of both roles, no search stranded |
| `search_closed` | as `search_pool` with 1 waiting reset | | finding 4 |
| `feedback` | 2 tabs, `Cap` 1, 2 sessions, 3 event ids, log of 3 | 1.3 M | what is learned, what tabs show, no self-made conflict |
| `library` | 3 Plex titles, 1 request, 1 title met by a search, 3 ids of which two share a value, pages of 1, batches of 2, 2 runs, 2 changes | 1.9 M | availability is kept, conflicts stay blocked, the projection agrees |

*Why the bounds are enough.* Items meet only in the watermark and the clock, so
one item shows every race on an item. Two handlers and two keys give a retry of
the same key, a second key of the same user, and the same item by another user;
a third handler only repeats one of these roles. Two milliseconds distinguish
before, equal and after for two snapshots (0 stands for "never"); the third one
of `request_single` lets three snapshots be ordered. `MaxForeign` is one request,
enough to be mistaken for one's own. Of the pool one thread is current, one is
being replaced, and a third never exists at once (`OneWorkerAtATime`); the names
only need to outnumber those a pending reset still refers to: were there none left,
`ResetEnd` would be blocked and `QueuedRunMovesOn` and `CloseCompletes` violated.
Two attempts are the least that tells the first from the last. `MaxRuns` and
`MaxResets` bound calls; restarts are unbounded in number. Generation 6 lets
the scheduler start and restart twice, with two settings PUTs overlapping.

Two searches fill the worker and the queue, so a deadline of one meets the other
waiting; the roles meet only in the chain of resets. Of feedback two tabs with a
session each make every conflict between sessions; `Cap` 1 makes the second equal
event hit the clamp, where a naive undo would go wrong; three events allow choose,
replace and a write in between. In `library` two titles may leave and enter
between pages of one; ids 1 and 3 share a value, so a correction upstream
makes and removes an identity conflict; the second run sees what the first left.

Symmetry is used for the two keys of one user and for tabs, only in runs without
liveness.

### What the properties say

*Request creation.* `OneUnresolvedPerItem`: one pending or uncertain operation
per item. `NoDuplicateWrite`: never two POSTs for an item under way, never one
while Seerr has a live request (without requests by others). `WireIsAccountedFor`:
a POST under way belongs to an unresolved operation. `CreatedMeansAccepted` and
`FailedMeansNotAccepted`: the two final outcomes tell the truth about Seerr.
`OneSuccessPerPreview`: a confirmed preview never yields two successes.
`ClearedStaysCleared` and `AcceptedIsNotErased`: the two ways in which
overlapping snapshots could go wrong. Two snapshots of one millisecond cannot be
ordered: until one of them completes either may be ingested, after that none.
`ImplementsLedger`: refinement.

*Pool.* `OneWorkerAtATime`, `RuntimeAgrees` (the thread never answers "already
running"), `ClosedIsQuiet`, `ResetsMeetTheirWorker`, `GraceKillsOnlyCancelled`;
`CancelSettles`, `QueuedRunMovesOn`, `CloseCompletes`. `QueuedRunMovesOn` ends in
"or degraded" because of finding 3.

*Scheduler.* `OneChain`: exactly one timer or callback goes on scheduling.
`NoHiddenRun`: the pool's run is the one the scheduler awaits. `ShutdownCompletes`.

*Search pool.* `OneWorkerPerRole`; `AtRestStaffed`: coalescing and skipping resets
loses no respawn; `OldConfigurationIsGone`: neither does a restart during a reset;
`NothingRunsForgotten`; `ResetHitsTheCulprit`; `NoSearchIsStranded`: an accepted
search always has a deadline or reset ahead of it.

*Feedback.* `LearnedIsReplay`: the weights are those of replaying the live events;
`TabAgrees`, of slots whose newest event is of the tab's session;
`NoConflictWithOneself`, `ExclusiveControls`.

*Library.* `ListedIsKept`: a run gives up nothing that was listed throughout, with
one exception. When one entry leaves and another enters between two pages the totals
agree, a listed entry may have slipped through, and is hidden until the next run
(`Skewed`). `ConflictsStayBlocked` has the same exception, and is claimed of
entries nobody corrected meanwhile: two at least of the items of a conflicting entry
stay quarantined. That *all* of them do, as one may read
`docs/DATA_AND_PRIVACY.md` ("Reproduced conflicts remain blocked"), is false, although
the instance of `library` is too small to show it. Titles with the ids 1,
2, 4 and {2, 4} leave items 2 and 4 quarantined. Then a title with the ids {1, 2, 3} is
added, and {2, 4} corrected to {3, 4}. The next run quarantines 1 and 2 for the new
title and gives id 3 to item 4 only after that: item 4 matches the new title too, keeps
its older quarantine, and the end of the run lifts it (met while proving the property).
`IndexAgrees`: the projection follows the rows and the quarantine in every transaction.

### Fairness

The sync pool and the scheduler have liveness properties. `FairSpec` assumes what
Node guarantees: pending continuations and messages are processed, timers fire,
`terminate()` ends. Nothing is assumed of workers, which may never become ready,
never answer and ignore cancellation. `SchedulerFairSpec` adds the continuations of
the scheduler and of its `close()`. `SearchWorkerPool` has none:
`NoSearchIsStranded` states as an invariant what would let a search wait for ever.
A sync run and the feedback of a user may end at any place, so nothing is claimed
to happen eventually. No liveness is claimed of request creation: an
uncertain operation is resolved only if its client retries and Seerr answers, and
an item may stay blocked for good.

## 4. Findings

1. `request_race`: `buildPreviewContext` reads the item (`app.ts:1616`) before its
   generation (`app.ts:1644`). A commit of the sync in between lets the token of
   a *blocked* preview pass, and the operation is acquired although the stored row
   says that the item is requested.
2. `request_instances_reopen`: `markRequestCreationOperationUncertain` has no guard
   on the status. With two processes, a late reconciliation turns a created
   operation back into an uncertain one next to a newer pending one.
   `NoDuplicateWrite` still holds.
3. `pool_degraded`: a run accepted during the `terminate()` of the last failing
   worker is never settled; the pool is degraded and running at once.
4. `search_closed`: a search accepted during the `terminate()` of a restart is kept
   for ever if `close()` is coalesced with that restart: `resetAll` rejects what is
   queued before its wait, and the closed pool spawns nothing after it.

## 5. Proofs

`RequestCreationProofs` proves for every set of items, keys, scopes, handlers and
instances, and every bound:

- `TypeCorrect`: `Spec => []TypeOK`.
- `ResendIsSafe`: `Spec => []FailedMeansNotAccepted`, with any number of processes.
- `Serialized`: `SingleInstance /\ Spec => []OneUnresolvedPerItem`.
- `Inductive`: the invariant they rest on, `IInv == TypeOK /\ Ownership /\ Delivery`.

*Assumptions*: the named ASSUMEs of `RequestCreation` on its constants, and
`SingleInstance` (all handlers are served by one process) for `Serialized`, which
is false without it (finding 2).

*Argument.* `FailedMeansNotAccepted` is not inductive: to know that a failed
operation was not accepted one has to know that only the handler that sent the
POST, with the answer "refused" in its hands, sets it to failed. `Ownership` says
that a handler in an owning place works on a live operation with its own
fingerprint, and that the sender of a POST shares it with nobody: it was acquired
when none was unresolved, and a reconciliation starts only on an operation that
nobody in its process owns, or that is uncertain or abandoned. `Delivery` says
that whatever is on the wire or was accepted belongs to a live operation and that
an answer "refused" means the POST is over. For one process the owner is unique
even among reconciliations (`SoleOwner`), so an operation cannot be settled by one
and reopened by another; that is what `Serialized` adds. Each lemma about
`[Next]_vars` has one step per action.

`SyncWorkerPoolProofs` proves for any numbers of thread names, runs, resets and attempts:

- `PoolTypeCorrect`: `Spec => []TypeOK`, with it the bound on failed attempts.
- `WorkersAreExclusive`: `Spec => []OneWorkerAtATime`.
- `PoolInductive`: the invariant `IInv == TypeOK /\ Staffing /\ Attempts /\ Mail`.

That no two threads live follows from `Staffing`: between resets a living thread is
the current worker, during one it is the single thread that is awaited. It is not
inductive without `Mail`: the exit of a thread is its last message and is heard before the
name is used again, else a late exit would strike a successor from the set.
`Attempts` carries the bound through resets of other kinds: a worker exists only
below the last attempt, and a failure counts only against a worker.

`SyncSchedulerProofs` proves for any number of restarts:

- `ChainNeverForks`, `NoRunIsHidden`: `SchedulerSpec` keeps `OneChain` and
  `NoHiddenRun`. The strengthening: a callback is never of a later generation than
  the current one and implies a run; a started scheduler without pending settings
  has a positive interval; a closing one is stopped. Of the pool only
  `PoolNeverBeginsARun` is used.
- `ComposedInductive`, `SchedulerTypeCorrect`, `WorkersAreExclusiveUnderScheduler`:
  the pool's invariant survives the scheduler's calls. Each of them is a call of
  the pool alone, but for `restart()`, which has a lemma of its own.

`PoolIsSafeUnderScheduler` adds `ResetsMeetTheirWorker`.

`RequestSafetyProofs` extends `IInv` for any number of processes:

- `NoDuplicates` (`NoDuplicateWrite`, if nobody else files requests, `MaxForeign = 0`),
  `OutcomeStaysOpen` (`WireIsAccountedFor`), `SuccessIsAccepted` (`CreatedMeansAccepted`),
  `OnePreviewOneSuccess`, `RequestsAreKept` (`AcceptedIsNotErased`).
- `DenialsAreKept` (`ClearedStaysCleared`) and `ImplementsTheLedger` for one process
  (`SingleInstance`); finding 2 refutes the refinement for two.
- `SafetyInductive`: the invariant, `SafetyInv /\ Told`.

`SafetyInv` says, as long as Seerr is undisturbed: `Attribution`, a live request was
accepted for every operation still held for its item, and a POST is the only one its
item waits for; `Acceptance`, a handler about to store a success has one; `Tokens`,
which carries the argument against duplicates: once a live request exists that an
admitted call had not seen, its token misses a success, so that `BeginAcquire` finds it
stale; `Knowledge`, the database knows of every live request, and a snapshot that does
not show it is `Protected` against. `Told` orders the successes of an item by what
their tokens hash. The two snapshot properties add what a snapshot denied to the
watermark and the row (`RowDenials`) and to the start of a reconciliation.

`SyncWorkerPoolSafetyProofs` proves `ResetsMeetTheirWorker`, `RuntimeAgrees`,
`ClosedIsQuiet` and `GraceKillsOnlyCancelled` from `PoolSafetyInductive`: only the
first reset of the chain expects a worker, and until it begins that worker is the
current one (`Chain`); a timer is about the current worker and the grace timer about
a cancelled run (`Grace`); the active run is in exactly one place, on its way to the
thread, in it, or in its answer (`Traffic`); the reset of `close()` is still to come
or has taken everything (`Closing`).

`SearchWorkerPoolProofs` proves every property of `SearchWorkerPool`, with
`SearchPoolInductive` for the threads and resets and two further invariants on top:

- `NoSecondWorker`, `StaffedAtRest`, `FormerConfigurationGone`, `CulpritIsReset`. Unlike
  in the sync pool several resets of a role may wait. `Chain` says which: at most one
  whole reset; those that expect a former worker all expect the same one and come
  first; behind a whole reset nothing is spawned. So a reset that finds another
  worker is skipped without losing a respawn (`Coverage`), and two names of threads
  suffice (`NamesAssumption`, lemma `ANameIsLeft`: `ResetEnd` always finds one).
- `SearchIsNotStranded` from `Started`: a worker that is not heard any more has a reset
  coming, one that is not ready has its deadline.
- `NoTaskIsForgotten` from `Posted`: a task that waits has been posted to nobody, and of
  the active one there is a posted task or an answer at the role's worker, never both.

`LibrarySyncProofs` proves `IndexNeverLags`, `ListedEntriesSurvive` and
`ReproducedConflictsStay` for any libraries, names, page and batch sizes.
`LibraryInductive` says what a listing still proves: while pages are read, a list that
entries only leave is no longer than at the first page, one that they only join no
shorter, and one of the same length is the same (`Paged`), so a complete snapshot
has every entry listed throughout, unless `Skewed` (`Complete`). Every ingested record
is `Settled`: one item has all its identifiers, or two of its items were quarantined by
this run (`Ingesting`, `SidesDone`). The database is `Consistent`. A batch is
a fold of `Ingest`; lemma `Along` carries what one record keeps along the fold.
`LibraryAssumption` says that titles, requests and found titles are different entries.

`FeedbackSessionProofs` proves, for any clamp and any number of tabs, searches, ids and
log entries:

- `ReplayIsExact` (`LearnedIsReplay`), `TabsStayInStep` (`TabAgrees`), `NoSelfConflict`,
  `ControlsExclude`, `FeedbackTypeCorrect`.
- `OfferedIsEditable`: a search checks only that the journals of the later events are
  intact, a retraction compares the stored state with them; the theorem says that the
  second check never refuses what the first one offered.
- `HistoryIsKept`: no event is removed or changed, a superseded one never returns.
- `FeedbackInductive`: the invariant. `Operating`, `Owned`, `Identified` and `Pending` tie
  a request on its way to the first step of its tab, by id and by session, so that a
  late copy is a replay of what is recorded. `Synced` is `TabAgrees` between steps: it
  counts the answer the tab has coming. `Replacing` and `Exclusive` speak of the plan of
  steps, `Anchored` of what was written since the tab read its selections. `Journal`
  says that the values before and after a live event with an intact journal are those
  of the replay, and that only events follow it. The window of 500 events is not
  modelled: what a tab may replace is claimed of histories that fit in it.

*Assumptions*: the named ASSUMEs on the constants, `SingleInstance` and
`MaxForeign = 0` where a theorem names them: a second process breaks what is proved
under the first (finding 2), a request filed by somebody else after an admission what is
proved under the second.

*Induction over data.* The library's induction theorems cannot be instantiated here.
`LibrarySyncProofs` and `FeedbackSessionProofs` take the least counterexample instead
(`Least`, from `WFMin`, a theorem on sets): with it `Along` carries membership in a set
along a fold, and `Recursion` that a recursive function of the model satisfies its
equation.

*Only model-checked*: the liveness properties `CancelSettles`, `QueuedRunMovesOn`,
`CloseCompletes` and `ShutdownCompletes`, since liveness under fairness is out of
the prover's reach. Every invariant and action property of the passing runs is
proved.

## 6. Plan

Models: the claim that both pools implement one abstract pool (accepted, then settled
once) is refuted by findings 3 and 4 and was given up. What is left is in section 7.

Theorems: the safety half of the four liveness properties, as `NoSearchIsStranded` is
for the search pool: an accepted run of the sync pool has an answer, a reset or a timer
ahead of it unless the pool is degraded, and a scheduler that is shutting down awaits
only what the pool is about to settle.

## 7. Not modelled, and why

The map covers a small share of the repository's 65 000 lines, because most of
them have no state that steps of several actors could set apart:

- The recommendation engine, scoring and AI calls (the largest sources) compute on
  floats and text in one pass; unit tests and the evaluation scripts suit them.
- `scripts/` are evaluations, benchmarks, packaging checks and importers, run by
  hand or in CI, one process each.
- Catalog import rewrites tables in one process. Of the search projection
  `LibrarySync` has the availability that syncs refresh.
- Migrations run before any thread exists. Configuration is one atomic rename.
- A Plex sign-in challenge is consumed by one conditional DELETE in the transaction
  that creates the session. Rate limits, the poster coordinator and the watch
  state are maps of one synchronous class each.
- The React client and the connectors under `apps/` keep no shared state beyond the
  feedback of a tab. `LatestRequestLifecycle` and `ExclusiveActionLock` appear in
  `FeedbackSession` as what excludes what.
