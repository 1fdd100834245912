# TLA+ verification of triton-serve

triton-serve deploys models on NVIDIA Triton: operators upload bundles and
declare services; a Celery task drives one container per service towards what
its row asks for; a builder makes the runtime images; a registry keeps model
files and rows in step; an API hands out GPUs and routes and guards all of it
with keys. This directory holds the TLA+ modules that model those parts, the
TLC configurations that check them and the TLAPS proofs about them.
Paths below are relative to `src/src/triton_serve/` unless they say otherwise.

    tlc -workers 2 -config MCReconcilerSafety.cfg MCReconciler
    tlapm ReconcilerProofs.tla

`PROJECT.json` lists the runs, the source lines of every definition, a mutant
for every checked property, the findings and the hazards.

## The system

| Component | State | Operations | What is hard | Modelled in |
|---|---|---|---|---|
| Reconciliation matrix (`api/services/observe.py`, `reconcile.py`) | none: a function of row, container and image | observe, decide | the table of 4 intents x 11 observations, budget, drift | `Reconcile` |
| Reconciler task (`tasks.py`, `api/services/execute.py`, `container.py`) | advisory lock, loaded rows, containers | one pass per tick: observe, decide, act on Docker, commit | works from copies loaded at the start; Docker and commit are not atomic; the worker may die | `Reconciler` |
| Service API (`api/services/`) | `services` rows, routes, device allocations | create, update, suspend, resume, retry, delete, status | reads and commits without locks, concurrent with the pass and with each other | intent, status and budget in `Reconciler`, images in `Builder`, devices, models and routes in `ServiceApi`, `/status` in `Access` |
| Image builder (`builder/execute.py`, `resolve.py`) | `service_images` rows, Redis queue, registry | resolve, enqueue, build_image, reap_stale_builds | at-least-once delivery, lost messages, late reports, the reaper's verdict | `Builder`, abstractly `ImageLife` |
| Model registry (`api/models/`) | `models`, `model_versions` rows | register, update, rename, delete | files and rows change separately; undo; concurrent requests | `ModelStore` |
| Storage backends (`storage/base.py`, `local.py`, `azure.py`) | model directories or blobs, stashes | save, delete, rename, stash, restore, discard, list | moves that are not atomic, copies that fail or never end | contract `ModelFiles`, Azure `AzureStore`, local `ModelStore` |
| Orphan sweep (`tasks.py`) | none | list, read rows, delete | deletes by name from stale reads | `ModelStore` |
| Routing (`config/traefik.py`, `factory.py`) | Traefik files | write, delete, start-up sync of every worker process | files and rows out of step | `ServiceApi` |
| Device allocation (`api/services/domain.py`) | `device_allocations` | allocate on create and update, free on update | capacity summed without a lock | `ServiceApi` |
| API keys (`api/auth/`, `security.py`) | `api_keys`, `key_service_association` | create, attach, detach, revoke, check | a key checked before its attachment is read; names that change hands | `Access` |
| Build specs and hashes, extraction and validation, settings | - | - | pure functions | not modelled |

The parts meet in the database. The API writes rows; the reconciler reads them
every tick and writes status, attempts and timestamps back; `resolve_service_image`
inserts an image row and, after the commit, a message; the builder moves the
row; `observe` reads the row's status before it looks at Docker. Uploading a
model changes the images of the services that use it. Every process uses its
own SQLAlchemy session (`autoflush=False`, `expire_on_commit=False`), so a
handler keeps working with what it read, and a commit writes only the columns
that differ from it. Only three things are serialised: a reconciler pass and a
sweep (advisory locks), and a build's report against the reaper (row lock).

## Modules

**`Reconcile`** holds the pure part: `Observed` (container and image to one of
the observed states, in the order of the branches of `observe`), `Drifted`, and
`Decide` with one operator per intent. Uptime, health and exit codes are
abstracted to the container states `observe` tells apart.

**`Reconciler`** is the task and all that runs against it.

- `rows` is the `services` table with the status of the image folded in:
  PENDING and BUILDING are both "pending", an unmanaged or absent image is
  "ready". `container` is what Docker holds under each *name*, since the code
  looks containers up by name; `imagePresent` whether the daemon has the image.
- `loaded` are the pass's copies. `Saved` is what a commit does: a column is
  written when the session changed it relative to its copy. A rollback expires
  every copy (`Expired`), and the next use reads the row afresh.
- One action per step of a pass: `BeginPass`, `ObserveAndDecide`, `SkipBackoff`,
  the Docker actions, `ActionFails`, `ChargeFailure`, `CommitProjection`,
  `EndPass`, `WorkerDies`. `BreaksOff` says where an action may end that does
  not return, because Docker raised or the worker died: before it did anything,
  after it did everything, and within a recreate also with the name free or with
  a container that was never started (`Leftovers`), as remove, pull, create and
  start may each be the last.
- A handler reads (`ReadForRequest`) and commits (`Commit`) in two steps. The
  exceptions, each one transaction that no interleaving can split in a way the
  properties see: `CreateService` (the partial unique index decides), and
  `/status`, which only writes `last_active_time`.
- The world: containers boot, exit, crash, turn unhealthy, recover, vanish;
  images are pruned; builds end (`BuildEnds`, steps of `ImageLife`).
- Time is abstract. `stamp` grades `last_attempt_at` (inside the backoff, past
  it, past the cooldown); `_backoff_seconds` never exceeds the cooldown, so the
  grades are passed in order. `window` counts down `inactivity_timeout`.
- `pulled` is a history variable: the rows that spent their last attempt on a pull
  that succeeded. Such a pull leaves its row WARMING, where the backoff gate does
  not look, so what the gate does achieve can only be said with it
  (`OtherAttemptsAreSpaced`).

**`Builder`** is the build path: handlers that resolve or `/retry` an image,
the queue as a set of messages, workers that claim, build, push and report,
retries, soft timeouts, dying workers, redelivery, a broker that forgets, and
the reaper. A claim reads and commits in separate steps; reports and the reaper
hold the row lock and are single steps. `ask` tells one request's messages from
another's; `patience` is a history variable. **`ImageLife`** is its abstract
specification and all the reconciler assumes of image rows.

**`ModelStore`** is the registry over the local backend. `disk` maps each name's
place and its stash to a directory: whether it exists and which upload's files
each version holds; a file is known by the request that wrote it and the name it
came under. `rows` are models with the files each version is about. Every call
on the storage, every commit and every step of an undo is an action; a bundle
may hold several models, each with several versions. The order of models and versions
within a bundle is arbitrary. The sweep lists, reads the rows and deletes in
separate steps. `Crash` ends any set of requests at once: gunicorn runs several
worker processes (`src/docker-entrypoint.sh:12-17`), and the requests of the
others go on. `overlap` is a history variable.

A commit fails in two ways, which leave the session in different states. If
COMMIT itself fails, the rows are still loaded and the undo runs to its end
(`CommitFails`, `CommitRenameFails`). If the flush before it fails, SQLAlchemy
expires the rows of the session and refuses to load them until the rollback, and
every handler rolls back only after its undo. The undo of an update then raises
at the first row it asks for its name, raises again in the log call behind it,
and puts no stash back (`CutShort`); the undo of a rename moves nothing
(`FlushRenameFails`); that of a bundle of new models asks no row and works. A
flush fails by a fault, or because another request was faster, or without either
for a bundle with a version directory "0", which validation lets pass
(`storage/validation.py:241`) and the table does not (`database/model.py:156`);
hence version 0 in the model.

**`ModelFiles`** is the contract of `storage/base.py` as an abstract
specification: calls are single steps that return having done all they say, or
raise having left something undone - but a move that raises leaves every file
whole at one of its two places. **`AzureStore`** is the Azure backend blob by
blob. `blobs` is the container, `copy` the server-side copies under way (what
they bring, or that they failed), `call` where the code stands in one of its
loops. One action is one request to the service: an upload, the start of a copy,
one poll that finds it ended, the deadline of the poll, a deletion. Copies end
or fail in steps of their own, also after the call that started them has given
up. `before` is what the container held as the call began; the refinement maps
`held` to `blobs` between calls and to `before` during one.

**`ServiceApi`** is what create, update and delete do to the shared things
besides intent: `route` (the files Traefik reads), `shares` (the batches of
device allocations), `models` and the models of each row. A create chooses
devices, flushes its row (waiting for an open insert of the name), writes the
route and commits, each a step; a delete looks for the file, unlinks it and
stamps the row; an update deletes the allocations it loaded, chooses anew and
commits, waiting for a transaction that changed the same rows (`HeldUp`);
`delete_model` checks for live services and commits later. Every worker process
synchronises the routes as it starts: reads the services, lists the files, adds,
removes. Four history variables name the overlaps for which the code makes no
promise: `suspect` (routes), `contended` (devices), `crossed` (allocations of
one service), `blind` (models).

**`Access`** is the API keys: the checks of `/status` (the key, then service and
attachment in one statement, then the write of the activity), the key endpoints
as read and commit, keys that expire, services that go and leave their name to
others. `given` and `barred` are history variables: pairs of key and service
that a request attached, and that were taken back since.

The `MC` modules only give constants values. `ReconcilerProofs`,
`BuilderProofs`, `ModelStoreProofs`, `RowsProofs`, `AzureStoreProofs`,
`ServiceApiProofs`, `RouteProofs` and `AccessProofs` hold the theorems.

## Runs

All runs set `CHECK_DEADLOCK FALSE`: with its bounds used up and nothing to do
the system is at rest, and that is a legal end.

| Run | Shows | Bounds |
|---|---|---|
| `reconciler_safety` | suspend, resume, delete and `/retry` by two handlers against passes with stale copies, one fault of any kind: `TombstoneInv` (stamp and intent are never separated), `RetiredNotRevived`, `RetiredLeavesNoContainer`; attempts are a backoff apart unless the earlier one was a pull, the budget returns only when earned or asked for, a spent one stops bring-ups | 1 service, 2 handlers, 2 requests, 1 fault of 8 kinds, budget 2 |
| `reconciler_live` | a service that stays wanted is served or refused for a spent budget, also one that takes over a deleted one's name while the old container still holds it; one that stays unwanted goes down; a deleted one retires | 2 services of one name, 2 specs, 1 request (suspend, edit or delete), 1 fault (dead worker, Docker, crash), window 2 |
| `builder` | READY means pushed; the reaper spares what was just asked for; the path implements `ImageLife` with its liveness | 2 images, 2 workers, 2 handlers, 2 requests, 2 faults, 1 retry |
| `model_store` | see below | 2 names, versions 0 to 2, 3 requests one at a time or 2 together, 2 faults of 10 kinds |
| `service_api` | see below | 2 names, 3 GPUs, 2 models, 2 worker processes; 3 requests and faults together, faults of 4 kinds |
| `azure_store` | every call ends, a move never costs the only copy, the backend implements `ModelFiles` | 2 names, 2 versions, 3 files, 3 calls, 1 fault (a raising service, a dying process or a failing copy) |
| `access` | only entitled keys wake a service, what was taken back stays so, requests on one key do not undo each other | 3 keys, 2 service ids and names, 2 requests at a time, 3 changes, 2 services deleted or created |
| `retired_leak`, `deletion_lost`, `pull_not_gated`, `sweep_takes_renamed`, `stash_forgotten` | the findings below | the smallest that show them |

Why these bounds. A pass handles services one after another and touches nothing
of the others except through shared names, hence one service, or two of one
name. Two handlers and two requests are enough for a write between another's
read and commit. Budget 2 is the least where an attempt can be neither the first
nor the last, and one fault spends it: a recreate that fails with a container
never started is an attempt, and so is the next, which replaces that container. Two workers and
two messages of one image show every claim, report and reaper race, and the
second image lets one reaper pass settle several rows. Two faults allow one
after the recovery of another. In the liveness runs the window is 2: `/status`
refreshes it between two ticks of the clock, and with a window of 1 it would
reach 0 in between, so that no service could stay wanted. `MaxChanges`, `MaxRequests`, `MaxAsks` and
`MaxFaults` end a behaviour's disturbances, which the liveness properties need
in any case: they speak of what happens once nobody interferes.

The other runs. In `azure_store` one fault and three calls give a move that fails
halfway, a second call on what it left (a restore, a repeated stash, a save over
a copy still under way) and a third on top; a copy that never ends or ends late
needs no fault at all. `service_api` needs a start-up synchronisation first, so
requests and faults share a bound of 3: three requests, two and a fault, or one
and two faults. Two asks, 0.55 and 1.5 GPUs, put two services on one device, fill
a device, and leave too few for a third. Three requests are what it takes for a
delete, a create of the same name and a second delete. `access` lets a key be
attached, detached and attached again, or revoked, in the midst of a `/status`,
and a name pass from one service to the next.

`service_api` checks, with all its faults in play:

- `RoutesFollowServices`: a name has a route exactly when a live service bears
  it, unless a request is creating or deleting it or it is `suspect`: a create
  or delete failed or died after touching the file, two deletes of one service
  met, or one of either met a worker's synchronisation. An undisturbed
  synchronisation puts everything right.
- `NoOvercommit`: no device is given out beyond its whole, except one that two
  requests had both chosen when the first of them committed (`contended`). So
  the least-allocated choice and the freed allocations of an update are right,
  and the missing lock is the one gap.
- `HoldsWhatWasAsked`: a live service holds as many devices as it last asked
  for, and of a part of one the hundredths it asked for or one more, which is
  what the rounding in double precision may add; `get_service_config` reports
  what is held, unless two changes of its GPUs ran together. The instance asks
  for 0.55, which the code makes 56 hundredths.
- `ServedModelsAreLive`: a model that is served is not deleted, unless it was
  being taken up when its deletion was decided.

Each exception is a race the code loses and these properties therefore do not
catch; the hazards list each race at its line.

`model_store` checks, with all faults in play:

- `RowsAreBacked`: while requests and sweeps run one at a time, a request that
  has ended - committed, refused or failed anywhere - left every live version
  with the files its row is about. Excluded are behaviours where a flush of an
  update or a rename failed, which cuts the undo short (finding 5), and those
  with a crash, a failing undo or delete, or a refresh failing after a rename's
  commit: nobody is left to repair those, and the code loses step (see hazards).
  A refused flush counts as a failed one here, whether a fault, another request
  or version 0 made the table refuse it.
- `OnlyCopyIsKept`: one at a time, and *with* all those faults, files that are
  at a live row's place or in its stash are never lost, except to a delete.
- `StashWaitsForItsUpdate`: any overlap, any fault: nobody else touches the
  stash of an update that has not committed.
- `OrphansAreSwept`: leftovers do not stay.

The first two say "one at a time" because the code makes no stronger promise:
overlapping requests break them (hazards at `api/models/domain.py:115` and
`tasks.py:179`), since nothing locks a name between reading and committing.

`NoStashIsForgotten`, which `stash_forgotten` refutes, is about the case
`RowsAreBacked` leaves out: with nothing failing but a flush, a request that has
ended has left no stash behind.

Each property has a mutant in its module, marked `Mutant:` in a comment: a small
plausible mistake in the code under which the property is violated.

### Fairness

- `Reconciler`: weak fairness of a pass's next step (the beat schedule runs the
  task for ever and its lock goes with the connection), of handlers answering,
  of containers without a fault leaving boot, of clocks, and of a build ending.
  The last is what `ImageLife` guarantees and `builder` checks. `WantedIsServed`
  also supposes that the pass's copy of the row has not lapsed: passes are short
  compared with the inactivity timeout.
- `Builder`: only the reaper and the clock. No worker and no broker need be
  fair; the reaper settles what they do not.
- `ModelStore`: only the sweep. No request need ever finish.
- `AzureStore`: only the process's own next step, `WF_vars(Proceed)`: a call that
  has begun goes on. Nothing makes a copy end; the deadline of the poll does.
- `ServiceApi`, `Access`: none; they have safety properties only.

## Findings

1. `retired_leak`: deleting a service whose image is pending or failed finalizes
   the row without looking at Docker; its container keeps running.
2. `deletion_lost`: a suspend or resume that read the row before a delete
   committed overwrites the RETIRED intent; the row stays stamped deleted and
   no later DELETE finds it.
3. `sweep_takes_renamed`: between a rename's move and its commit, or for good
   after a crash or failed undo there, the live model's files lie under a name
   no row has, with old modification times; the sweep deletes the only copy.
4. `pull_not_gated`: the comment at `tasks.py:121` says RECOVERING is what follows
   "any spent attempt (crash recreate or image pull)". A pull that succeeds spends
   an attempt and leaves its row WARMING (`api/services/reconcile.py:85`), where
   the backoff gate does not look: a container that crashes right after it is
   recreated at once. `OtherAttemptsAreSpaced` shows that this is the only case.
5. `stash_forgotten`: an update that fails in the flush is not undone, although
   its docstring says that the files are "put back if the bundle does not commit"
   (`api/models/domain.py:144`): the undo reads expired rows before the rollback
   and raises. One update with a version directory "0" is enough; the model stays
   live without its files, and its later updates are refused for the stash.

Also seen while modelling, without a run of their own:

- A service FAILED on a spent budget returns to READY when its unhealthy
  container heals, though `src/docs/index.md:59` says it "stays there until an
  operator retries it".
- `/retry` during a build sends a second message, and the image is built twice
  if the first build's success is discarded; a message delivered after the
  reaper's verdict revives the FAILED row without a `/retry`.
- Two updates of the models of one service, each valid, may together leave it
  with no model, since each writes the difference to what it loaded.
- After a failed stash the Azure backend keeps a partial copy under the stash's
  prefix, and later updates of the model are refused (`FileExistsError`) until
  someone discards it; after a failed rename the copies lie under a name no row
  has, and the sweep removes them.
- `required_gpus * 100` is rounded up in double precision: 0.07 is held as 8
  hundredths, 0.14, 0.28, 0.55 and 0.56 as one more likewise. The config then
  answers 0.56 for a service created with 0.55, and a service created from that
  answer holds 57, though `api/services/__init__.py:89` says it "can be used
  as-is (or modified) to recreate the same service".
- A failed flush behind a rename leaves the files under the new name (the undo
  reads an expired row, `api/models/domain.py:303`). A rename's flush fails only
  by a fault or against another request.

A consequence of 2 limits a claim: a `/retry` that read before a deletion can
write RECOVERING over RETIRED, so `RetiredNotRevived` speaks of the reconciler.

## Proofs

TLAPS proves these for every value of the constants that meets the modules'
assumptions (bounds are naturals, the attempt cap exceeds the budget, markers
are not rows, what is there initially is of the right kind; of all the sets only
the devices are assumed finite, since shares of them are counted).

`ReconcilerProofs`
- `TypeCorrect`: `TypeOK` is inductive, one lemma per group of actions. The
  lemmas on `Observed`, `Decide`, `Saved`, `Projected` say what the pure
  operators return.
- `TombstonesHold`: `TombstoneInv`. That only rows stamped deleted are projected
  RETIRED, its first part, is not inductive alone: a pending projection to
  RETIRED, a loaded copy or a handler's read row might stand for a row that is
  not deleted. The invariant states the
  relation of stamp and intent for the row and every copy of it; the key lemma
  is that an ORM commit which writes only changed columns preserves it.
- `ReconcilerNeverRevives`: `RetiredNotRevived` follows, as `BeginPass` loads no
  RETIRED row.
- `BudgetsAreEarned` and `SpentBudgetsHold`: `BudgetReturnedOnlyWhenEarned` and
  `SpentBudgetStopsBringUps` from `BudgetInv` (`BudgetsHold`). A pass decides and
  commits from the copy it loaded, so what matters is how far the row may have
  moved from it: not at all, or its budget has been given back. Attempts are zero
  exactly where the time of the last one is unset, which is why an ORM commit that
  writes one writes the other.
- `AttemptsAreSpaced`: `OtherAttemptsAreSpaced`, for every set of faults, from
  `BackoffInv`: a row whose attempt is recent is RECOVERING unless that attempt
  was a pull, so the gate has held it back and the row in hand is cool, and stays
  so until the pass commits.
- `RetiredAreGone`: `RetiredLeavesNoContainer` from `GoneInv`: a pass that will
  write RETIRED has seen no container, or removes it first, and nothing but the
  pass itself brings one up in between.

`BuilderProofs`
- `BuilderTypeCorrect`: includes that no message exceeds the retry bound.
- `ReadyMeansPushed`: strengthened by "a worker about to report has pushed".
- `AskedBuildsAreSpared`: from `age <= patience`, whichever step resets them.
- `BuilderRefinesImageLife`: initial states and every step map to `ImageLife`'s
  safety part. It needs `KnownInv`: nobody works for a row that does not exist.

`ModelStoreProofs`
- `StoreTypeCorrect`: `TypeOK`, with lemmas on what the operators that change
  directories return.
- `StashesAreSafe`: `StashWaitsForItsUpdate`. It needs one owner per stash:
  `StashInv` says that no two updates hold the same stash, that a held stash
  exists, and that an update holds at most one edit for a name. Steps are sorted by
  what they do to stashes (`Leaves`, `Takes`, `GivesUp`), and only those that
  take or give one up need thought: taking one needs the place to be free.

`RowsProofs`
- `RowsStayBacked`: `RowsAreBacked` from `BackedInv`, which says where the files
  are while they are not where they belong. `Solo`: until something overlaps, one
  request or the sweep is at work. `LiveOnce`: one live row a name. And while
  nothing has failed that nobody makes good (`Calm`), the request at work knows
  what is missing (`WorkInv`; a refused flush is one of the failures nobody makes
  good): an upload that has not committed has the files of
  the rows it updates in their stashes and has saved, or is about to save, every
  version of the models it has reached (`UploadKeeps`, `UploadSaved`); once it
  unwinds, only the first half holds, and suffices; a rename has the files under
  the one name or the other; a deletion has removed only versions it will forget,
  so it never fails to find a file. One lemma per action; the commit of an upload
  (`CommitBacks`) is where saves and rows meet. It uses `StashInv`.
- `OnlyCopySafe`: `OnlyCopyIsKept` from `OwnInv`, with every fault in play and
  whatever earlier failures have left lying about. The argument is about whose
  files are where. Files carry the upload they are from (`Numbered`). Until an
  upload commits, no row is about its files; none of them are in a stash or in a
  directory it has yet to reach, and a directory it has stashed holds no others
  (`Unwritten`), so putting a stash back replaces only its own files. Afterwards
  the rows it has updated are about nothing in their stashes (`WrittenOut`), so
  discarding those loses nothing. What the sweep is about to delete no row
  accounts for. Every step is shown to lose nothing or its own files only
  (`Careful`), and to bring and have rows be about its own files only.

`AzureStoreProofs`
- `AzureTypeCorrect`, `MovesAreSafe`, and `BackendKeepsPromises`: initial states
  and every step of `AzureStore` map to `ModelFiles`. The invariant `ProgressInv`
  says of each kind of call how the blobs differ from `before`: what a save has
  put, a delete or discard removed, a move cleared, copied and removed - in that
  order, so that nothing is removed until every copy has ended whole.

`ServiceApiProofs` and `RouteProofs`
- `ApiTypeCorrect`: includes that chosen devices are devices and that no share
  is beyond a whole.
- `ServedModelsStay`: `ServedModelsAreLive` from `WantedInv`: what is served, and
  what requests under way are taking up, is live and not about to be dropped,
  `blind` apart.
- `DevicesAreShared`: `NoOvercommit` from `RoomInv`: what a request has chosen
  still has room for it when it commits, for whoever takes room on a chosen
  device in between makes the device `contended`. Allocations are not added up:
  a batch of n hundredths is n pairs of batch and number (`Held`), so what a
  device gives out is the size of a set, and facts about finite sets say how it
  grows and shrinks.
- `ServicesHoldTheirGpus`: `HoldsWhatWasAsked` from `HoldInv`: an update of a
  service's GPUs that no other one meets (`crossed`) releases exactly what the
  service holds and takes one batch of the right number of devices. What the
  rounding makes of an ask is the lemma `RoundingUp`. Both need
  `SlotsInv`: the batch of a request under way is its own and empty.
- `RoutesFollow`: `RoutesFollowServices` from `RoutingInv`. Its parts: a row is
  made once and live names are unique, also among open inserts (`RowsInv`); a
  live service has one delete at a time unless its name is suspect
  (`DeletesInv`); a name that is not suspect has a route when it is live and not
  being unmade, or is being made (`RouteInv`); and what a calm synchronisation
  read is still true and what it has left to do is the whole difference
  (`SyncInv`), which is why it may clear `suspect`.

`AccessProofs`
- `AccessTypeCorrect`, `AttachmentsAlwaysHold`, `OnlyTheEntitledWakeServices`,
  `TakenBackStaysAway`, `AttachmentsOfOthersStay`, from `AccessInv`: requests
  under way only concern keys that exist and services that were created; a
  request about to record holds an admin's key or a pair that was given; and
  nothing is both attached and barred.

Only model-checked: everything temporal under fairness, that is the three
reconciler liveness properties, the liveness half of the builder's refinement
(`BuilderImplementsImageLife`), `CallsEnd` and `OrphansAreSwept`; liveness and
ENABLED are beyond this prover. Every safety invariant and action property of
the passing runs is proved.

## Abstractions and limits

- Container ids are folded into the slot of a name. The spec fingerprint is a
  value; container options, logs and credentials are left out.
- `restart_attempts` saturates at `AttemptCap`, above every comparison.
- `ChargeFailure` reads and writes in one step: it follows a rollback, and the
  row is read when first touched.
- Queue order and countdowns are abstracted: a message may be delivered at any
  time after it is sent. Redelivered copies of one message are not told apart.
- A worker's death may or may not return its message, as the hard time limit
  acknowledges and a lost process rejects.
- `ModelStore`: model metadata, `config.pbtxt` and stored URIs are left out. The
  sweep's grace period goes by the modification time of a version directory, and
  archives and moves keep those: files of an upload that has ended are old enough
  eventually (`Finished`, `Aged`), and those of one under way may be listed or
  not, whichever its archive says. A unit of local storage (rename, save of one version) is atomic
  unless it fails; a failed save may leave a part. Services that hold a model
  are not represented, so a delete is never refused for them.
- `AzureStore`: names are directories, and a blob is told apart by the upload it
  is from. Assumed of the service, since nothing in `src/` says: deleting a blob
  ends a copy into it, a blob with a copy under way into it is neither copied
  from nor uploaded onto, and a copy ends whole only while its source is
  unchanged. Listing is atomic. Calls run one at a time: what concurrent
  requests do to each other is in `ModelStore`.
- `ServiceApi`: GPUs are asked for in whole hundredths; where the product with 100
  comes out above one (`RoundedUp`) was computed in double precision for all of
  them. Rows hold what these requests
  read: name, state, models. Build specs, images, containers and status are in
  the other modules; what is in a route file depends on the name alone. A row
  lock is modelled where two requests write the same rows, as waiting (`HeldUp`).
- `Access`: project and notes of a key, hashing and caching headers are left
  out. `recent` abstracts `last_active_time` to "recent enough".

### Not modelled

- Build specs and image hashes (`builder/spec.py` and the Dockerfile): text; a
  hash is a model value of `Builder`.
- Extraction and validation of bundles: pure parsing, no state shared with
  other parts. Its one effect on the others, a refused upload, is a request
  that does not arrive.
- Settings, schemas and wiring: object construction; the values that matter are
  constants.
- The resource overview and the start-up check of devices only read and log.

## Plan

Done, in order of importance: `Reconcile`, `Reconciler`, `ReconcilerProofs`,
`ImageLife`, `Builder`, `BuilderProofs`, `ModelStore`, `ServiceApi`, `Access`,
`ModelFiles` and `AzureStore`, and the proofs about those. Next:

1. `Lifecycle`, an abstract specification of a service as its operator sees it,
   implemented by `Reconciler`; its safety part proved.
2. `ModelStore` over `ModelFiles` instead of the local backend, so that
   overlapping requests meet the Azure backend's partial moves.
