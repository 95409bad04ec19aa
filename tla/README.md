# Verification of the Kodi MCP server

TLA+ models of `kodi_mcp_server`, the server through which an MCP client builds
Kodi add-ons, publishes them into a local Kodi repository and has a Kodi
instance install them.  TLC checks the models on small instances; TLAPS proves
the main safety properties for every value of the constants.  Paths below are
relative to `src/kodi_mcp_server/` of the repository unless they say otherwise.

## 1. The system

Everything the server knows is in files.  Several processes may work on the same
files: the HTTP app, an MCP stdio server, the command line.  Inside a process
work runs as tasks of an asyncio event loop and in the worker threads of
`asyncio.to_thread`.  What keeps them apart is one global workflow lock and one
lock per target mutation domain, both `flock` files.

| Component | State | Operations | Hard part |
|---|---|---|---|
| Locks, `orchestration_locking.py` | lock files of the kernel, `_HELD_LOCKS` (depth per path and owner) | synchronous and asynchronous acquire with a deadline, reentrant entry, release, clean-up of abandoned tasks | the owner is a (task, thread) pair; cancellation, abandoned tasks, process death, a failure between `flock` and recording it |
| Publication, `repo_ops.py` | `dev-repo/zips`, `addons.xml`, `addons.xml.md5`, rollback copies | `publish_addon_artifact` | three files replaced one after the other, rollback that may fail, crash between replaces, readers without the lock |
| Artifact store, `artifact_store.py` | artifact files, `index.json` | three `register_*` calls, `get` | order of rename, directory sync and index save under power loss; conflicts; unreadable index |
| Operation snapshots, `orchestration_snapshot.py` | one directory per operation: marker, leased lock file, snapshot | create, close, reap | reapers racing creators and each other; deaths at any point |
| Managed add-ons, `managed_addons.py` | registry file, source trees, built zips, the frozen `dev-repo.zip` | register, build, publish, combinations, freeze | builds written in place; version written into the source; a failing read of the registry |
| Dev loop, `dev_loop_artifacts.py`, `artifacts.py` | artifact store, repository | upload, publish, stage, apply | composition of the above under one reentrant lock |
| Staging, `milestone_a_bridge.py`, `transport/http_bridge.py` | none; reads the shared zip | hash, stat, stream, read back the state | the zip may be rewritten meanwhile |
| Apply, `kodi_apply.py`, `tools/addon_ops.py` | Kodi's catalogue and installed version (external) | build, publish, stage, refresh, install, poll, classify; restart the bridge | deadlines, what an accepted command proves, the bridge disabled between two requests |
| Registration loop, `http_app.py` | the add-on's registration with a TTL (external), the back-off | register, read back, stage, sleep | refresh against the TTL, pacing of stagings, convergence |
| Transports, `transport/` | none | one request, one retry of a safe one | what may be sent twice, requests that arrive after their timeout |
| Kodi tools, `tools/`, `kodi_mcp_mcp/server_core.py` | Kodi's settings, player, add-ons, library (external) | set and read back, stop and watch, execute and watch, capture again, walk over pages | every step is a request of its own; users and other clients act in between |
| Screenshots, `screenshot_store.py` | PNG files | capture, clean, GET | several processes clean one directory without a lock |
| Bridge deployment and bootstrap, `scripts/deploy_current_bridge.py`, `bridge_*.py`, `bootstrap_app.py` | the zip of a build, the manifest that pins it, two Kodi settings | build, probe, upload, install, restore; pin, serve | probes of several moments, builds of one version, restores that fail |
| Targets, `targets/`, `kodi_mcp_mcp/target_routing.py` | registry of targets, cache of transports | load, resolve, route | precedence of configurations |
| MCP core, command line, models | none beyond configuration | dispatch, schemas | - |


## 2. What is modelled, and where

| Module | Code | State | Actions |
|---|---|---|---|
| `MutationExclusion` | what the lock code promises | `inside[l]`: the owners inside a lock | `Enter`, `Leave`, `Vanish` |
| `OrchestrationLock` | `orchestration_locking.py` | `phase`, `ctx`, `expired` per `_FileLockContext`; `flock`, the kernel's locks; `held`, `_HELD_LOCKS`; `ended`, finished tasks | one per entry, poll, time-out, cancellation, recording (which may raise), exit, descriptor release, done callback, process death |
| `Publication` | `repo_ops.py`, `publish_addon_artifact` | the three files, rollback copies, and the locals of each call | one per `os.replace`, sync, restore and outcome, and `Crash` |
| `ArtifactRegistry` | what the store promises | `registered`, `promised` | `Register`, `Promise`, `PowerLoss` |
| `ArtifactStore` | `artifact_store.py` | `files`, `index`, and `synced`, what survives a power loss | one per write, rename, directory sync and index save, `Fail`, `PowerLoss` |
| `RepositorySnapshot` | `orchestration_snapshot.py` | directory, entries, marker, lease, age; where each actor is | creation, closing, reaping, one step per system call that changes an entry; calls that fail before the `try` block of the creation, inside it and inside a cleanup; `Die` |
| `ManagedAddons` | `managed_addons.py` | source versions, registry file, built zips, repository | register (with a read of the registry that may fail), the steps of build and publish, `Save`, `Stop`, the developer's `Edit` |
| `DevRepoStaging` | `build_dev_repo_zip`, `stage_dev_repo_zip`, the upload of `http_bridge.py` | repository generation, the shared zip, the parts of each request, the bridge | freeze, the writing of the zip, hash, stat, read, send |
| `ApplyWorkflow` | `kodi_apply.py`, `tools/addon_ops.py`, the apply calls of `dev_loop_artifacts.py` | what is published, Kodi's catalogue and installation, the bridge, what each call has learnt | one per request or read, each turn of the polling loop and its deadline; Kodi refreshes and installs, the user installs, the bridge stops, is switched off and on again, also by requests that timed out and come late |
| `KodiRequests` | `transport/http_jsonrpc.py`, `transport/http_bridge.py`, `tools/jsonrpc.py` | Kodi's own state; each call's request and answer; `late`, given up but still on the way; `runs`, how often each write was executed | executed and answered, answer lost, refused, unreachable, timed out, arriving late |
| `KodiTools` | `tools/settings.py`, `tools/jsonrpc.py`, the handlers of `kodi_mcp_mcp/server_core.py` | how far each tool call is | one per request of `set_setting`, `ensure_addon_enabled`, player stop, add-on execution, screenshot |
| `LibraryTools` | `tools/library.py`, `tools/music.py` | the pages of a walk | search, browse, seasons and episodes, albums and songs, details, summaries |
| `ScreenshotStore` | `screenshot_store.py`, the route of `repo_server.py` | files, what was written of them, their times; what each process does | one per listing, check, stat, unlink, create, write, touch, response |
| `KodiBridge` | the bridge add-on (external) | build installed and running, registration, staged zip, two settings | outage, start, replacement of the service, the user's token |
| `RegistrationLoop` | `http_app.py`, registration and staging of `milestone_a_bridge.py` | where the loop is, its back-off, time to the next attempt | one per request and per part of a staging; server stop and start; `Tick` |
| `BridgeDeployment` | `scripts/deploy_current_bridge.py`, `scripts/prepare_bridge_bootstrap.py`, `bridge_deployment.py`, `bridge_bootstrap.py`, `bootstrap_app.py` | source revision, the zip, the manifest, the script, the download | one per file written, probe, request, setting written, any of which may fail before or after it took effect; requests that time out and are executed late; edits, installs by hand, death |

Modules use one another through what they promise.  `Publication`,
`ArtifactStore`, `ManagedAddons` and `DevRepoStaging` take the workflow lock in
one step, as in `MutationExclusion`, which `OrchestrationLock` is shown to
implement.  `ManagedAddons` takes a publication for one step that happened or
did not, which is what `OutcomeTellsFiles` of `Publication` says of calls that
return or raise what an operation raised, or that may have happened when the
process died.  An interrupted publication and one whose cleanup or restore raises
are left to `Publication`.  `DevRepoStaging` takes a whole publication for a counter,
and `ApplyWorkflow` takes a build with its publication and staging for one step.
`Matching` in `Publication` (a zip is published under the version it declares)
is what `inspect_addon_zip` checks for uploads.  `RepositorySnapshot` takes the
traversal of the repository for one step.

`LibraryTools` extends `KodiTools`, which extends `KodiRequests`: together they
are the server beside one Kodi.  `KodiRequests` by itself, `RequestSpec`, is the
abstract specification: clients that send any request at any time, one at a time.
`TransportSpec` says that the tools are such clients.  `RegistrationLoop` and
`BridgeDeployment` extend `KodiBridge`, the one add-on both talk to.

Every module is used by an `MC` module that gives TLC its instance, and the modules
`...Proofs` hold the theorems: `RetentionProofs` those of `RepositorySnapshot` and
`ScreenshotStore`, `KodiToolsProofs` those of the transports and tools,
`KodiBridgeProofs` those of the three modules that talk to the bridge, the others
those of one module.  Modules that share a proof module tell `Init`, `Next` and
`Spec` apart by a prefix (`LoopSpec`, `DeploymentSpec`, `StagingSpec`,
`ScreenshotSpec`).  An operator whose comment begins with `Mutant`
is a plausible mistake in the code: put in the place of the operator whose name
it begins with, it violates the property it is there for.

### Reading the models

* An owner of a lock is the pair (task or none, thread), as in `_owner_identity`.
  Tasks of one event loop share a thread, so a synchronous poll in one task stops
  all of them (`CanRun`).  A refused acquisition changes nothing and is no step.
* A done callback belongs to the context that armed it; the callbacks of a
  finished task run outermost first, and `_force_release` of each decrements the
  depth (`OwnerTaskDone`).
* In `Publication` the content of a zip is a *build*.  A build has the version it
  declares and may write another attribute before `id`, which is all the pattern
  of the index update can tell.  `done` is the length of the list `replaced`.
* A call of `Publication` ends `interrupted` when what stopped it is no `Exception`:
  the code then runs no rollback, but its `finally` block all the same.
* In `ArtifactStore` a name on the disk is either the durable one or the present
  one after a power loss, independently of the others (directory entries are
  only ordered by `fsync`).
* In `RepositorySnapshot` the lease is a lock on an inode and outlives its name.
  `old` means behind the retention; every change of an entry makes a directory
  new again.  `cut` are the directories a fault has left: a death, a call that
  failed between `mkdir` and the `try` block, an `unlink` or `rmdir` that raised.
  A creator that is between marker and lock of its lease is never that slow that
  its directory becomes old (`Age`), so a reaper and a creator race for the lease
  only in what closes, fails or was complete.
* In `ManagedAddons` version 0 of a source is an `addon.xml` that was being
  written when its writer stopped.  `raced` remembers that a developer edited a
  tree during an operation on it: the code cannot exclude that.  `blind` marks an
  operation that could not read the registry file and took it for empty.
* In `DevRepoStaging` a writer unlinks the zip first, so a reader that opened it
  is not disturbed.  The bridge is external and may accept any body.
* In `ApplyWorkflow` a version is a number and Kodi's own work is the set `todo`:
  what it was told to do and has not done.  A call that ends keeps only what its
  answer says.  `blind` marks an install that reached a Kodi without the add-on.
  `late` of a call says that the deadline of its wait has passed, which the code
  sees only after its next read.  `delayed` are the restarts whose disable timed
  out and may still be executed, `disabledBy` is who switched the bridge off last.
* In `KodiRequests` a write has a number per call, so that one that comes late is
  known.  `Retried` is the retry: of transient errors, once, of safe reads only.
* In `LibraryTools` a client calls again with `start = end` while `has_more`; one
  malformed item spoils its page, as `_normalize_item` has it.
* In `ScreenshotStore` a file is named by the moment of its creation; `horizon` is
  the time before which files are past their retention.
* In `RegistrationLoop` time is counted in ticks.  A request is answered within
  the tick unless a fault makes it slow.
* In `KodiBridge` a build is what it *claims* (version, commit, fingerprint) and
  what it *contains*; they differ when the source is edited between the two.
  Revisions after the first have one version, as edits between releases do.
* In `BridgeDeployment` the set `late` holds the requests that were given up by
  their timeout, or wait for Kodi's user to confirm them, with the run they are of:
  Kodi may execute each at any later moment, also under another run, or never.
  `mixed` remembers that a source was edited between fingerprint and copy.

## 3. What TLC checks

| Run | Instance | Shows |
|---|---|---|
| `OrchestrationLock_safety` | two tasks on one loop, a worker in a second process, global lock and one target lock, five contexts of which three nest | mutual exclusion; the canonical order; `_HELD_LOCKS` agrees with the kernel; no acquired descriptor is stranded by the asynchronous path; the code implements `MutationExclusion` |
| `OrchestrationLock_loop` | two tasks on one loop, global lock and two target locks, two contexts each | every wait ends, also when a synchronous wait stops the loop, and when two tasks nest the target locks in opposite orders; abandoned locks are released |
| `Publication_safety` | two publishers, two add-ons, two versions, four builds | no reader sees the index name a missing zip; index and checksum agree for locked readers; a call's outcome tells which of the three files it wrote, also when it was interrupted or its cleanup raised; the last copy of a replaced zip goes only with a success, an interrupt, or the rollback of the build itself |
| `ArtifactStore_safety` | two registrars, two ids, two suffixes, two contents | no partial registered artifact, answers stay true under power loss, the store implements `ArtifactRegistry` |
| `RepositorySnapshot_safety` | two actors, two operations, two faults | a snapshot in use is never touched; only inactive directories are reaped; only a fault at a known place leaves a directory no reaper takes; what is left complete is reaped |
| `ManagedAddons_safety` | two workers, two add-ons of which one `addon.xml` has an XML declaration, two versions, five operations | answered builds declare their version; registry and answers tell what was published; no registry update is lost but to a registration that could not read the registry |
| `DevRepoStaging_safety` | two stagers, three publications | no part of a request is older than what its call froze |
| `ApplyWorkflow` | one apply call, one restart, two versions, any number of outages | ok is answered only of an installed version; first installs are the user's while the bridge answers; only a restart that did not get to its enable, or whose disable came late, leaves the bridge disabled; a wait that gave up does not decide against a version that is installed; every call ends |
| `KodiTools` | one call of any tool, beside a user and other clients | a write is executed at most once; ok means that it was executed and that none is on its way; a walk over pages misses nothing that stayed and repeats nothing of a shrinking library; the tools use the transport as `RequestSpec` allows |
| `ScreenshotStore` | two processes, a store of one file, four captures, one GET, one failure | the store is bounded; only superseded screenshots leave; what is served is whole |
| `RegistrationLoop` | TTLs below, at and above the floor of the interval, three faults | an undisturbed registration does not lapse; stagings keep their distance; the loop converges |
| `BridgeDeployment` | two scripts, three revisions, two downloads, two faults | ok means the build is installed and runs, what it claims always, the very build if no source was edited while it was made; Kodi's settings come back |

**Bounds.**  Two actors suffice for every race on a lock, and a third is there
where a third role exists (two tasks and a foreign process).  Three nested
contexts are the least in which an outermost, a middle and an innermost block
differ.  Two versions and two builds of one version tell a replaced zip from an
added one; two add-ons tell an entry from the whole registry.  Five operations of
`ManagedAddons` are enough for register, build, publish, a failed rebuild and
another publish; the counter exists only for TLC.  `MaxFaults` of
`RepositorySnapshot` bounds deaths and failing clean-ups, because endless ones
would leave nothing alive to reap, and `MaxGeneration` the publications.  One apply call is enough because another one acts on it through
what is published and installed only, and `SomeonePublishes`, `KodiInstalls` and
`UserInstalls` do that at any time; likewise `OthersAct` is every other tool call
in `KodiTools`.  There four reads with two that must agree stand for twenty with
five, so that a player can come back both before and after it seemed stable.
Four captures into a store of one file let each of two processes work on a
listing that two captures of the other have overtaken.  The ticks of
`RegistrationLoop` are five seconds: 5, 10 and 30 seconds are 1, 2 and 6 as in
the code, and the back-off of 60 to 300 seconds is shortened to 4 to 10, which
keeps one doubling and the cap.  Faults share one budget (`MaxFaults`): two meet
in one request, restore or staging, three disturb the recovery from two.  Three
revisions are an earlier release, the build under deployment and an edit of it.
`CHECK_DEADLOCK FALSE` is there where calls, names or ids are used up.

**Fairness.**  Of `OrchestrationLock`: time passes (weak fairness of deadlines),
and the lines between `flock` and the return run when their thread does (weak).
A poll and a done callback are strongly fair: the ready queue of an event loop is
served in order, so a poller that is runnable again and again does get its turn,
however often another task stops the loop in between.  Nothing is assumed of a
guarded body: it may never end, and every wait still does, by its deadline.  Of
`RepositorySnapshot`: sweeps go on and list every directory (strong fairness of
finding an old one), each started sweep and clean-up proceeds, and time passes
(`Age`).  Nothing makes a creator close its snapshot.  Of `ApplyWorkflow`: the
event loop runs each call on, turn by turn, and its clock passes each deadline
(`DeadlinePasses`); Kodi, its user and the bridge need never do anything.  Of `RegistrationLoop`: the task and time
go on, and Kodi starts the service it has installed; `Converges` is about runs in
which the bridge is reachable from some moment on.  There a registration that has
converged is not followed until it expires, and stagings fail finitely often
(`MaxFaults`).

## 4. Where the code and its words part

Seen while modelling, and kept in the models as the code has them:

1. *Attribute order* (`repo_ops.py:170`).  The index entry is replaced by the
   pattern `<addon id="...`; an entry whose element begins with another attribute
   is recognised as present but not replaced, and the call answers success.
   Republishing such an add-on leaves the old entry in `addons.xml` (`Updated`).
2. *Unreadable index* (`artifact_store.py:78`).  Any exception of reading
   `index.json` counts as an empty index, and the next registration replaces the
   file: the conflict check passes for a registered id and all other entries go.
   The constant `IndexReadFails` brings this in; the run and the theorems assume
   that an existing index can be read.  `managed_addons.py:63` does the same with
   the registry of managed add-ons: there it is an action, and
   `EntriesOfOthersStay` says that this is the only way an update is lost.
3. *XML declaration* (`managed_addons.py:240`).  The first `version="..."` that a
   version bump replaces is the one of `<?xml version="1.0"?>` where there is one.
   The zip then declares another version than its name (`Headed`, which
   `AnsweredBuildDeclares` excepts).
4. *Shared zip* (`milestone_a_bridge.py:119`).  The zip is hashed, measured and
   streamed after the lock is released.  Even a bridge that checks digest and
   length would accept a zip another call put there before the hash, or one still
   being written.  That it is never older than what the call froze is a theorem.
5. A synchronous `__enter__` whose recording raises closes only the local variable
   and strands the locked descriptor, as its phase `stranded` records
   (`NothingStrandedByAsync` excepts it and nothing else); an interrupt after the
   replace of the zip leaves the new zip beside the old index, and the copy of the
   old zip is removed (`PriorZipSurvives` names it); a build
   that fails half way leaves a readable incomplete zip under the name of the last
   build, which a publish takes for it (`whole` in `ManagedAddons`).
6. *Short TTL* (`http_app.py:191`).  "refresh before TTL expiry" does not hold for
   an applied TTL of ten seconds or less: the floor of the interval lets the
   registration lapse in every round.  `KeptFresh` is stated above the floor.
   A staged zip that is there but unusable is never staged again.
7. *Apply*: ok may come together with a status that says to retry; a call for what
   is already current skips its verification; a rebuild under `use_addon_xml` has
   the version that is installed and is answered `already_current` without being
   applied; `repo_stage_current_dev_repo` answers ok whatever the upload did.
8. *Tools*: a repeated stop may stop a playback the user has just begun;
   `verify_attempts` below `stable_checks` can never succeed; a video category
   that Kodi omits is malformed while a music category that Kodi omits is empty.
9. *Screenshots*: a file that vanishes between the listing and the sort makes the
   capture or the GET fail (`Sort`), since only the later loops expect that.
10. *Deployment*: a failing restore of `filelists.showhidden` skips that of
   `addons.unknownsources`; a write of either that timed out, or whose confirming
   poll failed, may be executed after its restore and stays (`LateWrite`); deploying
   rewrites the pinned zip and not its manifest, so that the bootstrap route answers
   503 until the bundle is prepared again; an edit between fingerprint and copy makes
   a build claim a source it does not contain, and a later deployment of that source
   answers `already_current` for it (`mixed` in `OkMeansDeployed`).
11. *Restart* (`tools/addon_ops.py:189`).  The enable is sent whatever became of the
   disable.  A disable that timed out may be executed after it, and the bridge stays
   disabled although the restart saw its enable answered (`DisableArrivesLate`).

## 5. What is proved

TLAPS proves every safety property and every refinement that section 3 lists, for
every value of the constants.  The modules name what is assumed of the constants:
that bounds are natural numbers, that a name for nothing is none of the things,
that threads and processes are given to owners by functions.  Finiteness is
assumed where something is counted: of the contexts, whose nesting is counted, of
the processes that capture screenshots, of the titles of the library.  Two
assumptions are more than that.  `ToolAssumption` has `VerifyAttempts <= MaxWrites`:
a `kodi_player_stop` issues at most one stop for each look, so that the bound on
writes is none for it.  The theorems on `ArtifactStore` assume `~IndexReadFails`
(point 2 of section 4).

* `OrchestrationLockProofs`: `TypeOK`, `MutualExclusion`, `CanonicalOrder`,
  `RecordedIsLocked`, `DepthIsNesting`, `NothingStrandedByAsync`, and
  `Spec => ExclusionSpec`.  Exclusion is not inductive: that two owners are not both
  inside follows from one kernel owner per file *and* from every recorded block
  being backed by it.  So the invariant says that the lock file belongs to the one
  context of an owner that is not reentrant, that a reentrant block lies inside it,
  that blocks nest, and that the depth is the number of recorded blocks; `DepthUp`
  and `DepthDown` do the counting.  For the refinement each step is mapped to
  `Enter` (recording the outermost block), `Leave` (ending it), `Vanish` (a finished
  task, a dead process) or nothing.  That nothing is stranded needs where each
  descriptor that is locked can be, after a cancellation or a time-out as well: with
  an open context, or with one whose synchronous entry failed, never a closed one.
* `PublicationProofs`: `TypeOK`, `ReferencesPresent`,
  `LockedReadersSeeOneGeneration`, `OutcomeTellsFiles`, `PriorZipSurvives`.  The
  invariant states, for each value of `done`, which of the three files are the
  call's and which are what it found, that the locals are those of the one call
  inside the lock, and that the index refers to zips that are there, before and
  after each replace; the zip comes first on the way in and last on the way out,
  which is why the order of the code is right.
* `ArtifactStoreProofs`: `TypeOK`, `NoPartialRegistered`,
  `AnsweredStaysRegistered`, `Spec => RegistrySpec`, all assuming
  `~IndexReadFails`.  The invariant follows each registration on the disk and in
  what a power loss would leave.
* `RetentionProofs`, on the snapshots: `TypeOK`, `ActiveIsKept`,
  `ReapsOnlyInactive`, `OnlyFaultsLeave`.  A creator is alone with its directory
  until it has locked the lease, since a directory without marker and lease is
  young; from then on it meets only reapers that have not locked it.  A directory
  that no reaper may take has an actor that will finish or remove it, or is one a
  fault has cut off.
* `RetentionProofs`, on the screenshots: `StoreIsBounded`, `ServedIsWhole`,
  `OnlySupersededLeave`. Every process cleans by a listing of its own, taken at a
  moment of its own. The invariant says that the later of two listings has every
  file of the earlier one that is still there, that the files that came after a
  trimmed listing are at most one of each process, and that a cleaning goes from the
  file modified first to the last, so that what it removes has enough newer ones
  whatever the others do.
* `ManagedAddonsProofs`: `TypeOK`, `AnsweredBuildDeclares`, `PublicIsPublished`,
  `AnswerIsPublished`, `EntriesOfOthersStay`.  The registry an operation loaded equals
  the one in the file but for its own entry, since it is loaded and saved under the
  lock, or it is the empty one of a registration that could not read the file; and
  what that entry will say is already true of the zips and the repository.
* `ApplyWorkflowProofs`: `TypeOK`, `OkMeansInstalled`,
  `BlindInstallFollowsFailedRead`, `DisabledOnlyByRestart`.
  A call relies on versions it read some requests ago.  It may, because
  `installed <= catalog <= published` and none of the three ever falls: a version
  that was read is a lower bound of the one there is.  For the disabled bridge the
  invariant follows who switched it last, and that a disable on its way is one of a
  restart that has given it up.
* `KodiToolsProofs`, on the transports: `AtMostOnce` and `NotYet` of `RequestSpec`.
  A write that is in flight or late has not been executed; that only safe reads are
  sent again is what keeps the number of a write from being in flight once more
  after its execution.
* `KodiToolsProofs`, on the tools: `TransportSpec` (the tools are such clients, so
  `AtMostOnce` holds of them), `OkMeansExecuted`, `WalkIsComplete`.  The invariant
  says at each place of each tool which of the writes before it have been executed
  for certain.  For the walk it says, while the library has only grown, that what
  was there from the start and has a rank below the next page has been met; while it
  has only shrunk, that what has been met and is still there has a rank below it.  The
  lemmas before it are about the ranks: a larger library never lowers one, and the
  ranks of a library are the numbers from 0 to its size, each once.
* `KodiBridgeProofs`: `KeptFresh`, `StagingIsPaced` of the registration loop;
  `OkMeansDeployed`, `SettingsComeBack` of the deployment; `TypeOK`,
  `NeverOlderThanFrozen` of the staging.  Of the loop the invariant gives, for each
  place, the time that is left of a registration.  Of the deployment it says that
  what was seen installed and running stays so as long as nobody else installs, and
  that whatever is installed, uploaded, pinned or served contains what it claims
  unless `mixed`, and at each place of the script which of the two settings has its
  value of before and which one the script still has to write back, whatever the
  requests of this and earlier runs do that are executed late.  Of the staging it says that the
  lock serialises writers, that a writer's generation is the newest, and that the
  zip is at least as new as what any call past the lock froze.

Only model-checked: the liveness properties `WaitsResolve`, `AbandonedAreReleased`,
`AbandonedIsReaped`, `LateInstallCounts`, `CallsEnd` and `Converges`.  Liveness under fairness and
`ENABLED` are outside the prover.

## 6. What is not modelled, and why

* `targets/` and `target_routing.py`: configuration parsed once, read-only probes,
  and pure decisions; the transport cache is filled by the event loop without a
  suspension.  The target mutation locks are modelled as locks; nothing outside
  `orchestration_locking.py` takes them yet.
* `transport/websocket_notifications.py`: each call opens a connection, collects a
  few messages and closes it.
* Wording, schemas and dispatch of the MCP core, `kodi_cli.py`, `service_ops.py`,
  `tools/repo.py`, readiness and bootstrap inspection, `managed_addon_validation.py`:
  read-only, or no state of their own.
* Orphaned temporary files (their random names are read by nobody), foreign
  files and symbolic links put into a snapshot directory, permissions.
* The data of the patterns beyond what decides a branch: self-closing entries and
  comments in `addons.xml`.
* An exception between the recording of a lock and the return of the entry
  (`orchestration_locking.py:288-296`, arming the callback of the task), and a
  reaper whose `os.dup` of the lease fails after it has locked it.
* Of the artifact store, the creation of its root directory, which is there and
  durable in the model; its parent is never synced (`artifact_store.py:89`, `113`).
* What a staging that takes longer than the pause does to the pause: `StagingIsPaced`
  is about the distance from one begin to the next within one loop, not about the
  doubling of the pause, nor about a restart of the server.
* An interval of TTLs at or below the floor (point 6 of section 4), and the version
  of an add-on with an XML declaration (point 3): the properties except both.
* Of the deployment, an upload that is executed after its timeout, and where the
  focus of the GUI is when a late selection arrives: it selects the uploaded zip and
  counts as the installation of somebody else.
* Two runs of `prepare_bridge_bootstrap.py` at once (they share the name of the
  temporary manifest): one developer runs one script at a time.  Kodi's user does
  not uninstall the add-on, nor change the two settings during a deployment.
* What the bridge does with a staged zip, and Kodi itself: external.

## 7. Plan

Every safety property of the runs is a theorem.  What is left:

1. The steps between modules that section 2 states in words: that a publication is
   one step for `ManagedAddons` is `OutcomeTellsFiles`, but as a refinement it needs a
   module for the promise, as `MutationExclusion` is for the locks.
2. An abstract specification of the snapshots (an operation is made, in use, given
   up, gone), which `RepositorySnapshot` would be shown to implement.
3. The steps of the liveness properties that are action properties: that a poll
   brings its deadline nearer, that each round of the loop ends in one of two states.
