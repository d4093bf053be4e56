# Verification of lean-runtime

lean-runtime gives programs and people exact Lean environments: it resolves a
toolchain and packages, builds or downloads an environment once, keeps it in a store
that every process of the user shares, runs checks inside it, and cleans up what is
no longer needed. This directory models the parts of it that are hard to test:
several processes and threads on one store, with nothing between them but file
locks, renames and files that come and go. Source paths below are relative to
`src/lean_runtime/`.

`PROJECT.json` lists the components, the TLC runs, the mutants that show that each
property depends on the code, the lines each definition models, the disagreements
found between code and documentation, the hazards, and the theorems.

## Inventory

### Components, their state and their operations

| component | state it keeps | operations | module |
| --- | --- | --- | --- |
| File locks (`locking.py`) | one lock file per object with a description of its holder; the kernel's lock on it | acquire by polling with timeout and cancellation, describe, release | `FileLock`, `Mutex` |
| Publication (`_transaction.py`, `health.py`) | staging and trash trees beside their destination, one owner lock per staging tree | `staged_tree`, `publish_tree`, `abandoned_staging`, `remove_abandoned_staging` | `Publication` |
| Environment store (`store.py`, `environments.py`, `bundles.py`) | `environments/`, `names/`, `usage/`, `leases/`, `locks/` | ensure, import, open, set_alias, execute under a lease, clean | `EnvironmentStore` |
| Download caches (`oci.py`, `packs.py`, `store.py`) | `oci/blobs`, `.partial` files, `cas/`, leases on artifacts | download_blob, cache_verified_blob, sparse pull, clean_downloads | `Downloads` |
| Toolchains (`toolchains.py`, `toolchain_slim.py`, `toolchain_oci.py`) | elan's toolchains, slim copies, digest cache | ensure, ensure_full, materialize_slim, prune_original, pull, command | `Toolchains` |
| Processes (`_process.py`, `_cancellation.py`, `matrix.py`, `ExecutionJob`) | child processes, their descendants, reader threads, an event | run_process, shutdown, run_matrix, run_cancellable | `Processes` |
| Sessions (`InteractiveSession`, `backends.py`) | a live child, two locks, the monitor of its time limit | request_line, close, finish | `Sessions` |
| Scratch workspaces (`store.py`) | job directories with marker and lock, `.trash-` tombstones | WorkspaceLease, clean_scratch | `Workspaces` |
| Shared projects (`shared_projects.py`) | `project-packages/`, `project-workspaces/`, `project-sources/`, four families of locks | prepare, source checkout, build under the locks of its packages, clean_legacy | `SharedProjects` |
| Seeds (`shared_projects.py`) | the registry of remembered projects; their checkouts and outputs | remember_project, the search for donors, the import of outputs | `Seeds` |
| Checks in a project (`project_execution.py`, `header_cache.py`) | package directories, header snapshots with their dependency files | bootstrap guard, check, build of a missing import, snapshot create and discard | `ProjectExecution` |
| Adoption (`project_sharing.py`, `runtime.py`) | files, package directory and record of a user's project | attach, detach, update, each with its rollback | `Adoption` |
| New projects (`runtime.py`, `projects.py`) | the directory of the project | init_project | `ProjectInit` |
| Resolver (`resolver.py`, `environments.py`) | `locks/`, source snapshots | pin, resolve, lock, build from a lock | `Resolution` |
| Discovery (`discovery/`) | plan, attempts, budgets, `discovery/history.json` | plan, march over candidates, remember | `Discovery` |
| Registry (`oci.py`, `toolchain_oci.py`, `programs.py`) | blobs, manifests, indexes, signatures | publish, index, sign, look up | `Registry` |
| Declaration index (`declaration_index_oci.py`, `store.py`) | shards, one record per environment | publish, acquire, answer | `DeclarationIndex` |
| Bundles and capsules (`bundles.py`) | archives | export, import | `Copies` |
| Programs (`programs.py`) | `programs/<id>`, cached manifests | create, pull, open, export | `Programs` |
| Acquisition (`runtime.py`, `oci.py`, `environments.py`) | none of its own; the environment of a lock | open_exact, sparse pull, extension, build | `Acquisition` |
| Verification (`verification.py`, `runtime.py`) | none of its own | verify, rebuild, attest | `Verification` |
| Catalog, adoption plans, contexts, comparison, Lake cache, identifier index | bundled or derived data | reading and conversion | not modelled |
| Data types (`lockfiles.py`, `serialization.py`, `models.py`, schemas) | none | canonical JSON, identities | values of the models |
| Facade, command line, console, events | the default runtime | wiring and rendering | not modelled |

### How they interact

There is no server. Callers are threads and operating-system processes that share
the directory of the runtime; everything they tell each other is a file. `FileLock`
excludes threads and processes alike, is let go by the kernel when its process dies,
and is not fair: waiters poll. Trees are built in a private staging directory that
has a lock of its own and appear by a rename (`Publication`). What an execution
uses is protected by a lease file, not by a lock (`EnvironmentStore`), and what a
sparse pull has downloaded by a lease on the artifact (`Downloads`). The collectors
(`clean`, `clean_downloads`, `clean_scratch`) run in any process at any time; each
looks first and decides again under the lock of what it removes. Coroutines reach
this synchronous code through worker threads and cancellation events.

### What is hard here, and what correct means

* *Store*: a collector's view is old when it acts; leases, names, ages and trees are
  read under different locks or none. Correct: nothing in use loses a file, what
  runs runs on a complete tree, no lock or lease leaks on an error path.
* *Publication*: renames that fail half way, deaths between two renames, doctors that
  repair while builders work. Correct: the destination is an old or a new complete
  tree, and no living builder loses its staging tree.
* *Locks*: an unfair polling lock with a text in its file. Correct: it is a mutex, the
  text is that of the holder who wrote it, and every wait ends.
* *Downloads*: resets, truncation, corruption, ignored ranges, several attempts of
  several processes on one partial file. Correct: what is returned is verified,
  attempts are bounded, what a pull unpacked stays until it is projected.
* *Toolchains*: installation by an external tool without a lock next to a lock-based
  pull; a slim copy that is visible before it is verified; an original that is pruned
  beside it. Correct: the last whole toolchain is never lost, what `ensure` answers exists.
* *Processes*: four ways for a child to end race for one outcome, descendants hold pipes.
  Correct: the outcome is what happened, nobody of a stopped group survives, every caller is
  answered, and who is answered has no worker left.
* *Sessions*: threads ask and close one child while its time runs out. Correct: an answer goes to
  whoever asked, one result is recorded, closing ends.
* *Workspaces*: a directory exists before its lock, a collector moves it after it looked. Correct:
  what is leased stays.
* *Shared projects*: four families of locks on the same trees, many locks at once. Correct: no two
  builds in one tree, no circle of waiting, nothing is taken from under a build.
* *Projects of users* (adoption, update, init, checks): no lock covers them, and every operation is
  several renames and writes. Correct: what fails is undone, what the user changed is kept, files
  that belong together are of one save.
* *Resolution*: tags move between any two steps. Correct: a lock can be rebuilt, a tree is what its lock says.
* *Discovery*: three budgets, timers and cancellation decide one outcome. Correct: what is
  remembered is what Lean said, "exhausted" means that all was tried.
* *Registry and copies*: publishers and readers share nothing but the registry. Correct: what an index
  lists is there, a failure is told as what it is, answers are of one edition, a copy can be imported.
* *Acquisition and verification*: decisions taken before a lock. Correct: only permitted means are used,
  a check has its imports, a report is true and a sound environment is not reported bad.

`PROJECT.json` lists the hazards line by line, with the properties that cover each.

## Modules and the code

### Environment store (`EnvironmentStore`)

`store.py`, `environments.py`, `bundles.py`. Every caller (`Procs`) is a thread
or an operating-system process; a `FileLock` excludes both alike. The shared
variables are the directories of the store: `tree` (the parts of
`environments/<id>`), `stamp` (their modification time), `usage`
(`usage/<id>.json`), `recorded` (`locks/`), `alias` (`names/`), `leases` and
`orphans` (`leases/<id>/`, written by living and by dead processes), and the two
kinds of file locks, `envLock` and `gcLock`. `pc`, `op`, `env`, `name` and `gc` are
the locals of a caller.

| code | actions |
| --- | --- |
| `EnvironmentManager.ensure`, `_materialize` | `EnsureBegin`, `TakeEnvLock`, `CacheHit`, `BuildBegin`, `BuildFails`, `StageReady`, `Publish`, then those of `open`, then `SetAlias` |
| `EnvironmentBundles.import_layout`, `_import_capsule_layout` | `ImportBegin`, `TakeEnvLock`, `CacheHit`, `ImportConflict`, `BuildBegin`, `BuildFails`, `StageReady`, `Publish`, `SetAlias` |
| `EnvironmentManager.open`, `resolve_identifier` | `OpenBegin`, `OpenByName`, `Resolve`, `Check`, `Touch` |
| `execution_lease` around a run | `ExecuteBegin`, `TakeEnvLock`, `GrantLease`, `RefuseLease`, `ExecuteEnd` |
| `EnvironmentStore.clean` | `CleanBegin`, `TakeCollector`, `InspectRetain`, `InspectCandidate`, `TakeEnvLock`, `RecheckRetain`, `RecheckRemove`, `RemovePart`, `RemoveEnd`, `Vanished`, `CleanEnd` |
| `FileLock` giving up, exceptions, death | `LockTimeout`, `RemoveFails`, `Crash` |

A published tree is the set `Parts`: the directory, `metadata.json`,
`workspace/.lake/build`, and everything `open` does not look at. `remove_tree`
takes them one at a time in any order, the directory last, because that is what
`shutil.rmtree` does and because what is left after an interruption depends on it.
Times are ticks; `clean` keeps the `now` it read at its start, as the code does.

A handle (an open `Environment`) is a caller with `pc[p] = "opened"` and its `env[p]`.
`LastUse` is the time the collector measures an age from; where there is neither a usage
record nor a directory (`Unmeasurable`) its `stat` raises, which ends the loop of `clean`
(`Vanished`) as in the code.

### Publication of trees (`Publication`)

`_transaction.py`, `health.py`. A process (`Procs`) is inside `staged_tree` for one of
three kinds of destination: an environment, published without replacement under
its lock; a source checkout, replaced under its lock; a slim toolchain, replaced
without any lock. Or it is a doctor. `dest[d]` is the tree at a destination (a tree is named
by the staging name it was built under), `stage` and `trash` are the temporary trees,
`stageLock` and `destLock` their locks. A doctor sees only staging trees directly below
`environments/` (`Visible`). `repair` looks below the source snapshots too (`health.py:155`), but
`publish_source` stages beside the snapshot, one level further down (`store.py:614`, `:664`), so it finds
none of this release's staging trees there.

| code | actions |
| --- | --- |
| `staged_tree` | `Begin`, `Reuse`, `Enter`, `Build`, `BuildFails`, `Cleanup`, `CleanupFails`, `End` |
| `publish_tree`, `replace=True` | `FindOld`, `Displace`, `DisplaceFails`, `Rename`, `Taken`, `RenameFails`, `Rollback`, `RollbackFails`, `Sweep`, `SweepFails` |
| `publish_tree`, `replace=False` | `NothingThere`, `Rename`, `Taken` |
| `abandoned_staging`, `remove_abandoned_staging` | `DoctorBegin`, `Probe`, `ProbeRelease`, `RepairBegin`, `RemoveTake`, `Remove`, `RemoveFails`, `DoctorEnd` |
| `OSError` of a file operation, death | the `...Fails` actions, `Crash` |

### File locks (`FileLock`, `Mutex`)

`locking.py`. `Mutex` is what every other module assumes of a lock: at most one
holder, taken and let go in one step each. `FileLock` is the class: `holder` is the
process the kernel granted the lock to, `text` the description in the file, and a caller tries
(`Granted`, `Refused`), sleeps, gives up, writes its description in two steps
(`Truncate`, `Write`), clears it, and unlocks. `FileLock` implements `Mutex` under the
mapping that calls a process holder when it is past its grant and not yet past its unlock.

### Download caches (`Downloads`)

`oci.py`, `packs.py`, `store.py`. `file[i]` is a blob or a module artifact, sound or
not; `partial[b]` counts the chunks of the `.partial` file, `sound[b]` says whether
they are the right ones; `aged[i]` whether the file is older than the minimum age. A cached file with a wrong
digest is removed, one of a wrong size stays until the download replaces it (`NotCached` has both). A clean lists the
files and takes the time before it waits for its lock.

| code | actions |
| --- | --- |
| `download_blob` | `PullBegin`, `TakeBlob`, `Cancel`, `Cached`, `NotCached`, `Resume`, `Restart`, `HttpError`, `WrongRange`, `Receive`, `Overlong`, `Transport`, `Truncated`, `Corrupt`, `Commit` |
| its callers, `cache_verified_blob` | `Use`, `CacheVerified` |
| `pull_capsule` (sparse), `unpack_frame`, `project_artifacts` | `SparseBegin`, `Inspect`, `FrameFails`, `Unpack`, `Unpacked`, `Project`, `Unavailable`, `SparseEnd` |
| `clean_downloads` | `CleanBegin`, `TakeCollector`, `LookKeep`, `LookCandidate`, `Recheck`, `Unlink`, `CleanEnd` |
| lock timeouts, metadata that refers to a blob, time, bad disks, death | `LockTimeout`, `Refer`, `Age`, `Rot`, `Crash` |

### Toolchains (`Toolchains`)

`toolchains.py`, `toolchain_slim.py`, `toolchain_oci.py`. One toolchain: `full` is elan's
directory of it, which may be absent, without `lean`, with a `lean` but incomplete, or whole; `user`
says whether the user's own elan has it; `slim` is what is at `slim_path`, where a copy that
`has_slim` accepts may be incomplete ("bad"), whole ("fresh") or whole with its probes passed
("proved"). Only `pull` takes a lock (`lock`). `overlapped` and `cuts` record, for the
properties, that two callers changed installations at the same time, and that a change was
stopped in the middle. A registry that does not have the toolchain and one that cannot be reached are the same to
the code: the next library is asked, and after the last one elan (`Unpublished`). elan's own installation is
modelled as there at once; `InstallCut` is the one that is cut off.

| code | actions |
| --- | --- |
| `ensure`, `is_installed` | `EnsureLocal`, `EnsureRemote`, `Acquired`, `NoCopy`, `Listed`, `Install` |
| `OCIToolchainLibrary.pull`, `plan` | `PullKnown`, `Pull`, `PlanKnown`, `Plan`, `Unpublished`, `AcquireFails`, `TakeLock`, `LockTimeout`, `PullArrived`, `PullStage`, `PullReject`, `PullPublish`, `PullOccupied` |
| `ensure_full`, `_install_with_elan` | `FullPresent`, `InstallFull`, `Installed`, `InstallAgain`, `Retry`, `InstallFails`, `InstallCut`, `ProvidesLake`, `LacksLake` |
| `command` | `Locate`, `Found`, `NotProvided` |
| `materialize_slim` | `NoSource`, `Copy`, `CopyFails`, `Displace`, `Rename`, `RenameFails`, `ProbesPass`, `ProbesFail`, `ProbesMissing`, `DiscardBegin`, `DiscardEnd`, `DiscardGone`, `DiscardCut` |
| `prune_original` | `PruneRefused`, `Prune`, `Uninstall`, `Uninstalled`, `UninstallFails`, `UninstallCut` |
| death | `Crash` |

### Processes (`Processes`)

`_process.py`, `_cancellation.py`, `matrix.py`, `environments.py`. For every context of a matrix: the
thread (`worker`), its child (`child`), a descendant that stays in the group, leaves it, or holds the pipe
(`heir`), the thread that drains the pipe (`reader`), what the poll has seen (`watch`) and the `outcome`. `event` is
the cancellation event they all look at; `caller` is `run_matrix` or a coroutine.

| code | actions |
| --- | --- |
| `run_process` | `Starts`, `TimeUp`, `PollRunning`, `PollEnded`, with `Reason` (the order in which the loop asks for an observer's exception, the event and the clock) |
| `shutdown`, `stop_tree`, `kill_tree` | `Shutdown`, `StopsTree`, `Killed` |
| `drain`, `_join_readers` | `Reads`, `ReadsEnd`; `KillsHolders`, `Ends` |
| `run_matrix` | `StartFails`, `Raised`, `SiblingsStop`, `MatrixEnds` |
| `run_cancellable`, `settle`, `ExecutionJob` | `CoroutineReturns`, `CoroutineCancelled`, `CancellationRaised`, `CancelledAgain`; `EventSet` |
| child and descendants | `Forks`, `ChildEnds`, `HeirEnds` (external) |

### Interactive sessions (`Sessions`)

`environments.py`, `backends.py`, `programs.py`. `asked` and `answers` are the lines in the pipes, by who sent
them; `io` and `closingLock` the two locks; `monitor` the thread of the time limit; `session` what is recorded and
told; `user[u]` where a thread is in `request_line` or `close`, `heard[u]` whose answer it got.

| code | actions |
| --- | --- |
| `request_line` (`send_line`, `read_line`) | `Ask`, `Send`, `SendFails`, `Receive` |
| `close` | `Close`, `TakeClosing`, `RecordFails`, then those of `finish` |
| `_LocalInteractiveProcess.finish`, `_remaining`, `shutdown` | `CloseInput`, `Await`, `FinishStops`, `ShutDown`, `Drain`, `FinishTells` |
| `finalize`, `cleanup` of `spawn_interactive` | `Record`, `CleanUp` |
| `_enforce_timeout` | `TimeIsUp`, `MonitorReturns`, `MonitorPolls`, `MonitorMarks`, `MonitorStops` |
| child and descendant | `ChildAnswers`, `ChildLeaves`, `KinLives` (external) |

### Scratch workspaces (`Workspaces`)

`store.py`, `serialization.py`. A directory is the set of its parts, with an age; the lock of a job is named after its path
and outlives it. Tombstones (`.trash-`) are emptied by whichever collector meets them.

| code | actions |
| --- | --- |
| `WorkspaceLease` | `Reserve`, `MakeRoot`, `Own`, `OwnTimeout`, `Mark`, `Write`, `MarkFails`, `Fill`, `FillFails`, `RunEnds`, `ClosePart`, `Closed`, `CloseFails` |
| `clean_scratch`, looking | `SweepBegin`, `TakeSweeper`, `SweeperTimeout`, `ProbeBusy`, `ProbeFree`, `ProbeEnd`, `SweepSkip`, `Preview`, `SweepEnd` |
| `clean_scratch`, removing | `MoveTake`, `MoveBusy`, `Move`, `MoveGone`, `Empty`, `EmptyFails`, `ResumeTomb` |
| death, time | `Dies`, `GrowOld`, `TombGrowsOld` (external) |

### Shared projects (`SharedProjects`)

`shared_projects.py`, `project_execution.py`, `store.py`. Workspaces (`Graphs`) list packages in the order of their manifest;
package trees, source checkouts and records are shared. Four families of locks: workspace, source, package, build.
`phase[w]` and `task[w]` are the locals of a worker.

| code | actions |
| --- | --- |
| `prepare` | `Prepare`, `Enter`, `Reuse`, `Renew`, `NextPackage`, `EnterPackage`, `DropForeign`, `CloneSource`, `ImportPackage`, `ImportFails`, `KeepPackage`, `PublishRecord` |
| `preparation_inputs`, `_source_checkout` | `SelectInputs`, `RefuseChanged`, `UseCached`, `BeginFetch`, `FetchFails`, `PublishSource` |
| `build_lock` around `ProjectExecutor.build` | `CollectLocks`, `NextLock`, `TakeBuildLock`, `LockTimeout`, `BuildStarts`, `BuildEnds`, `End` |
| `clean_legacy_project_artifacts` | `CleanLegacy`, `RemoveLegacy` |
| death; a user or Lake | `WorkerDies`, `ChangeTree`, `ChangeDonor` (external) |

### Seeds (`Seeds`)

`shared_projects.py`, `project_sharing.py`. Which remembered checkout gives a package its sources, and which its compiled
outputs, under the artifact key "ours" (same toolchain and graph) or "other".

| code | actions |
| --- | --- |
| `remember_project` | `OpenRegistry`, `WriteRegistry` |
| `registered_package_seeds`, `registered_graph_seeds` | `SeekBegin`, `ExamineOwn`, `OwnsDone`, `ExamineGraph`, `GraphsDone`, with `CleanSeed`, `SameOutputs`, `Better`, `MustTake` |
| `preparation_inputs`, `prepare` | `Decide`, `ImportOutputs` |
| `ProjectAdopter.detach` | `Detach` |
| users and Lake | `Edit`, `LakeBuilds`, `Vanish`, `KeeperStops` (external) |

### Checks in a project (`ProjectExecution`)

`project_execution.py`, `header_cache.py`. `stage[c]` is where a check or build is; `snapshot` and `deps` are the two
files of the header snapshot, known by the save that wrote them.

| code | actions |
| --- | --- |
| `_bootstrap_guard` | `StartGuarded`, `PassGuard`, `WaitTimeout`, `Refused` |
| `build` and Lake's own view of the packages | `StartBuild`, `LakeLooks`, `CloneBegins`, `CloneEnds` (the last two external) |
| `LeanHeaderCache` | `SelectCommand`, `CreateSnapshot`, `RenameSnapshot`, `RenameDeps`, `DiscardSnapshot`, `DiscardDeps` |
| `_checked_with_header_snapshots`, `_build_missing_local_import` | `Use`, `Answer`, `BuildMissingImport`, `MissingImportBuilt`, `Return`, `Finish` |
| death | `CheckerDies` (external) |

### Adoption (`Adoption`)

`project_sharing.py`, `runtime.py`. One project of a user: `files` (the release that lakefile, manifest and
`lean-toolchain` name), `place` (what `packagesDir` holds), `sharing` (the record) and `job[o]`, an operation with its backup.

| code | actions |
| --- | --- |
| `attach` | `StartAttach`, `Inspect`, `PrepareLinks`, `ProbeRefuses`, `MoveAside`, `PublishPlace`, `VerifyPlace`, `WriteRecord`, `WriteConfig`, `CleanBackup` |
| its rollback | `StepFails`, `DropPlace`, `BringBack`, `RestoreRecords` |
| `detach` | `StartDetach`, then the same steps |
| `update_project` | `StartUpdate`, `Start`, `WriteFile`, `Unrecord`, `Unconfigure`, then an attach; `UpdateFails`, `RestoreFiles` |
| Lake, the user, death | `LakeRuns`, `UserEdits`, `AdopterDies` (external) |

### New projects (`ProjectInit`)

`runtime.py`, `projects.py`. `target[n]` says whose entry `n` of the directory is: nobody's, the user's, or of an `init`,
or a `.gitignore` that an `init` has written over ("merged" with the lines of the user, or "replaced": one that came after
the target was validated loses its lines).

| code | actions |
| --- | --- |
| `plan_project_init`, `init_project` up to the staged project | `PlanInit`, `MakeProject`, `MakeFails` |
| publication | `ChooseRename`, `RenameAll`; `ChooseInPlace`, `LookAbsent`, `MoveEntry`, `MergeMetadata`, `RefuseEntry`, `LastMoved`, `AllPublished` |
| the undo | `PublishFails`, `UndoEntry`, `UndoMetadata` |
| the user, death | `UserWrites`, `InitDies` (external) |

### Resolution (`Resolution`)

`resolver.py`, `environments.py`, `store.py`. A commit is the number of times its tag or branch has moved upstream
(`upstream`); `sources` are the snapshots of the store.

| code | actions |
| --- | --- |
| `resolve` | `Resolve`, `PinTag`, `UpdateLake`, `LockPackage`, `PublishSnapshot`, `PublishLock`, `ResolverBreaks` |
| `_ensure_sources`, `_materialize` | `BuildFrom`, `EnsureSource`, `CloneSnapshot`, `PublishBuild` |

### Discovery (`Discovery`)

`discovery/engine.py`, `planner.py`, `candidate.py`, `probe.py`, `history.py`, `api.py`. `Ordered` is the order of the
planner, a function of what is in the store and in the history; a search (`search[s]`) marches over its plan. A Lean that
crashed, or was killed from outside, is a rejection to the code (`engine.py:462-477`) and is remembered as one: `crashed` keeps
which candidates those are, and the properties name them as exceptions.

| code | actions |
| --- | --- |
| `discover` | `PlanSearch`, `StopAtHead`, `SkipRemote`, `AcquisitionLimit`, `Acquire`, `Acquired`, `ProbeFails`, `IdentityError`, `Stopped`, `Checked`, `MarchEnds` |
| `_AttemptCancellation`, timers | `Passes` |
| a Lean that crashes | `Crashed` |
| `DiscoveryHistory`, `discover_and_check` | `OpenHistory`, `HistoryTimeout`, `SaveHistory`, `NothingToRemember`, `SkipEdit` |

### Registry (`Registry`)

`oci.py`, `toolchain_oci.py`, `programs.py`, `publisher_verification.py`. An environment, a toolchain or a program is
published for several platforms by several publishers, who share the registry only: `remoteBlobs`, `manifests`,
`index`, `signatures`. A toolchain's layer is uploaded before its config, of the other kinds the config comes first
(`Uploads`).

| code | actions |
| --- | --- |
| `publish` of the three kinds | `BeginEnvironment`, `BeginToolchain`, `BeginProgram`, then `Upload`, `PutManifest`, `ReadManifest` |
| `publish_index` | `EnvironmentIndex`, `ToolchainIndex`, `ProgramIndex`, `Look`, `PutIndex`, `ReadIndex`, `Sign` |
| requests, death | `RequestFails`, `PutFails` (carried out or not), `PublisherDies` |
| `complete`, `_publication_failure` | `PublisherEnds`, `PublicationEnds` |
| clients | `LookUp`, `Choose`, `GetManifest`, `GetConfig`, `PlanEnds` |

### Declaration index (`DeclarationIndex`)

`declaration_index_oci.py`, `store.py`, `runtime.py`. A manifest is a set of shards, each at an edition; the reader keeps
objects named by content and one record per environment. Who may download (`complete`) is answered from the record only
if all the shards wanted are retained, and acquires otherwise. Who may not, offline or for the alternatives of a
search (`require_complete=can_download`, `runtime.py:363-371`; `discovery/api.py:187-191`), is answered from whichever of them
are retained, and gets no hints if none is.

| code | actions |
| --- | --- |
| `publish` | `UploadShards`, `PublishManifest` |
| `acquire` | `LookUpIndex`, `DownloadShard`, `DownloadFails`, `LockRecord`, `PlaceShard`, `WriteRecord`, `ReadAgain` |
| `with_declaration_hints` | `Enrich` (with `Asks`), `AskAgain` |

### Bundles and capsules (`Copies`)

`bundles.py`, `_archive.py`. The tree of one environment is exported part by part while a collector may remove it; copies are imported
whole or as a capsule.

| code | actions |
| --- | --- |
| `export_layout`, `export_capsule_layout` | `BeginExport`, `PackWhole`, `PackCapsule`, `VerifyForExport`, `WriteCopy` |
| `import_layout`, `_import_capsule_layout` | `BeginImport`, `LockWhole`, `LockCapsule`, `WholeIsThere`, `ProbeExisting`, `StageWhole`, `StageCapsule`, `Probe`, `PublishImport`, `NameImport` |
| `clean` | `BeginRemoval`, `RemovePart`, `RemovalBreaks` |

### Programs (`Programs`)

`programs.py`. A program is a tree under the identity of its inventory; a pull caches the manifest in place.

| code | actions |
| --- | --- |
| `create` | `CreateProgram`, `LockProgram`, `PlaceProgram`, `MakerBreaks` |
| `pull`, `import_layout` | `PullProgram`, `OpenCached`, `WriteCached`, `ReadCached`, `StageProgram` |
| `open`, `export`, `import_bundle` | `OpenProgram`, `ExportProgram`, `AskForProgram` |

### Acquisition (`Acquisition`)

`runtime.py`, `oci.py`, `environments.py`. How the environment of one lock comes to be there, by the means the caller
permits; `env` is absent, whole, or a projection: the modules whose files are there (`modules`) and those its
`capsule.json` lists (`listed`). An extension links the files first and then puts the manifest of its own library in
place of the one that was there (`oci.py:1162-1164`), so files only come, while the list may shrink. A check goes by that list:
`CapsuleManifest.closure` skips roots it does not name (`capsules.py:225-227`), and the check starts without them
(`Listed`, `Unlisted`). `unlisted` keeps those roots. Only a pull refuses what a library does not offer (`oci.py:957-964`).

| code | actions |
| --- | --- |
| `open_exact`, `plan_exact` | `OpenExact`, `LookLocally`, `PlanExact`, `NoneAvailable`, `PullUnavailable`, `Permit` |
| `pull_capsule` | `PullFrames`, `LockProjection`, `PublishProjection`, `LinkFiles`, `RewriteManifest`, `ExtendProjection`, `MeetWhole` |
| `ensure`, `ensure_sparse_modules`, `check_files` | `Ensure`, `Materialize`, `EnsureSparseModules`, `AcquireSparseModules`, `CheckOver` |
| `clean` | `CleanRemoves` |

### Verification (`Verification`)

`verification.py`, `_sources.py`, `runtime.py`. One environment (`held`), verified part by part while it is edited, extended, removed,
or its toolchain pruned. There is one library, so the manifest lists whatever a probe asks for.

| code | actions |
| --- | --- |
| `verify`, `verify_environment` | `Verify`, `ReadMetadata`, `OpenRecorded`, `ReadCapsule`, `VerifyPart`, `PartVanishes`, `PartsVerified`, `LookForLean`, `Report` |
| the probe, `--rebuild` | `WholeProbe`, `SparseProbe`, `TornProbe`, `RunProbe`, `ProbeAcquired`, `ProbeBreaks`, `Rebuild` |
| `publish_environment` | `Attest` |
| meanwhile | `Extend`, `PlaceArtifacts`, `TruncateManifest`, `RecordModules`, `ExtensionBreaks`, `RemoveHeld`; `EditPart`, `ChangeOutputs`, `PruneLean` (external) |

### The two composites (`MCPackages`, `MCArtifacts`)

Seven of the components above meet on disk in packages and workspaces, seven in artifacts; none of them shares a
variable with another. `MCPackages` and `MCArtifacts` extend seven modules each; `component` is chosen at
the start and is the one that moves, while the others stay as they begin. So one run answers
one question for seven state machines, and its state space is their sum and not their product. Each property is a conjunction of
the components' own properties, guarded by `component`:

| property | what it gathers |
| --- | --- |
| `WorkersApart` | `LeasedPresent`, `OwnersAtWork` (workspaces); `SharedBuildsApart`, `NoLockCircle` (shared projects); `ClonesApart` (checks) |
| `TreesAsRecorded` | `PairsMatch` (header snapshots); `RootsKept`, `OutputsMatch`, `RichestChosen` (seeds); `LocksRebuild`, `TreesAsLocked` (resolution); `PlaceOrBackup` (adoption); `VisibleComplete` (new projects) |
| `TreesKept` | `BuildUndisturbed` (shared projects), `MovedOldEnough` (workspaces), `ChangesKept`, `FailureUndone` (adoption), `InitUndone` (new projects) |
| `AnswersTrue` | `HistoryTrue`, `ExhaustedTried` (discovery); `AnswersOfOneEdition`, `RetainedUnlessRepublished` (declaration index); `ReportTrue`, `NoFalseAlarm`, `AttestedAsPacked` (verification) |
| `ArtifactsComplete` | `NothingMissing`, `FailureTold` (registry); `TemporariesOwned` (declaration index); `CopiesImportable`, `CapsulesAsAsked` (copies); `ProgramsAsNamed` (programs); `ChecksHaveRoots`, `OnlyPermittedMeans` (acquisition); `OfflineLocal` (verification) |
| `NothingLost` | `NoFetchAfterVerdict`, `NothingForgotten` (discovery), `ServedStaysServed` (declaration index), `NeverShrinks` (acquisition) |

The type invariant of each component is a conjunct of one of them.

## Runs

| run | what it shows |
| --- | --- |
| `store_three_callers` | Three callers build, import, open, name, execute in and clean one environment in every order. What runs runs on a complete tree (`RunsOnCompleteTree`) although `open` validates without a lock; a half-removed tree is one somebody is removing (`NoHalfTree`). |
| `store_faults` | One crash or failed removal at any step. Locks are held by exactly those inside their blocks (`LockDiscipline`), leases are those of running executions and nothing under removal is leased (`RemovalUnleased`), `clean` takes nothing from what is in use, by a dead execution too (`InUseKept`), and every operation ends (`Returns`). |
| `publication` | One failed operation and one death among three processes: the old tree comes back unless a new one took its place (`OldOrNew`), no living builder loses its staging tree to a doctor (`BuilderKeepsTree`), two publishers of an environment never meet at the rename (`NoRace`). |
| `filelock` | `FileLock` implements `Mutex` (`IsMutex`), the file describes the holder that wrote it (`TextOfHolder`), and every waiter is let in or turned away although holders may never leave (`Served`). |
| `downloads` | Whatever the registry does, what is returned is verified (`ReturnsVerified`); nothing young is removed (`YoungKept`); what a pull has unpacked under its lease stays until it is projected (`UnpackedKept`); everything ends (`Ends`). |
| `downloads_resume` (violation) | A complete partial file is resumed with an empty range, which a registry refuses, for ever. |
| `toolchains` | Unless callers change installations at the same time or something stops half way, the last whole toolchain is never lost (`CopyKept`), what `ensure` answers is there (`EnsuredUsable`), an original is pruned only beside a proved copy (`PrunedVerified`) although `has_slim` asks for less, and no unproved copy stays behind (`UnprovedAttended`). Every call ends (`CallsEnd`). |
| `toolchains_trusted` (violation) | Two callers overlap: the copy is trusted, and the original pruned, while its probes still run. |
| `processes` | Two children with descendants, under a matrix or a coroutine: whoever was stopped leaves nobody of its group behind (`StoppedGroupGone`), the outcome is what happened, and who is answered has no worker left (`OutcomesTrue`), and every caller is answered although a child may ignore signals and a descendant may hold the pipe for ever (`ProcessesEnd`). |
| `sessions` | Two threads ask and close one session while its time runs out: answers go to whoever asked (`AnswersPaired`), one result is recorded and told, and it is "own" only if nobody had to stop the child (`ResultTrue`), and closing ends (`ClosesEnd`). |
| `packages` | The composite of scratch workspaces, shared projects, checks, adoption, new projects, seeds and resolution (`WorkersApart`, `TreesAsRecorded`, `TreesKept`; see above). |
| `artifacts` | The composite of discovery, registry, declaration index, copies, programs, acquisition and verification (`AnswersTrue`, `ArtifactsComplete`, `NothingLost`; see above). |

The properties of `toolchains` exclude two kinds of history because in them they fail: callers that
slim or prune at the same time (`toolchains_trusted` shows how), and an installation that was left
incomplete, which `materialize_slim` copies over a good slim copy and removes with it.

Each violation run checks one sentence of the documentation or of a comment, quoted
under "findings" of `PROJECT.json`, and shows the steps by which the code departs from it. Further
disagreements of this kind are under "Divergences".

### Bounds

* Actors: two, in `store_three_callers` and `publication` three. Every interaction in these
  modules is between one actor that looks and then acts and others that change what it saw; a third
  is there to interfere with two that already interfere. Where three do not fit with crashes
  and liveness, two are used and the crash or failure is the third party.
* One environment for the interplay of its lock, lease and tree. One name suffices: names only meet in the set
  `Named`. Artifacts and blobs meet only in the loop of the collector and its lock: one each.
* `MaxClock` 1 with `MinAge` 0 or 1 makes every environment both too young and old
  enough; `MaxKeep` 1 makes the newest survive. `Size` 2 distinguishes an empty, a started and
  a complete download; `Attempts` 2 has a first, a retried and a last attempt (three in
  the code: one more retried one).
* `Toolchains` has one toolchain, since the code never relates two, two callers, of which one may
  change installations while the other ensures, pulls or runs, and a third party in elan. Deaths
  need no bound there; `MaxCuts` 1 makes every installation or removal the one that stops half way.
* `Processes`: two contexts and a pool of two, so that one child fails or is cancelled while the
  other starts, runs or ends. `Sessions`: two users, one of whom closes under the other.
* `SharedProjects`: two graphs that list the same two packages in opposite orders, which is what would make
  locks taken in the order of the manifest a deadlock. `Seeds`: two projects, one of which has the sought graph.
  `Resolution`: one package by tag and one by branch, with `MaxMoves` 1 move each. `ProjectInit`: one process and
  five entries, of which one may be there before (`MaxUpsets` 2: a file of the user and a failure).
  `ProjectExecution`: `MaxSaves` 2, an old and a new snapshot. `Adoption`: `MaxRuns` 2 operations, and
  `EditsMeanwhile` FALSE (see "Divergences").
* `Discovery`: three candidates of which `MaxCandidates` 2 are planned, one remote acquisition, `MaxPassed` 1
  limit that passes or crash of Lean, and the scenes (what Lean says, what is in the store) of `SomeScenes`. `Registry`: two publishers of two
  platforms and a client that verifies. `DeclarationIndex`: two readers, two shards, `MaxEditions` 2. `Copies`: an
  exporter, a collector and two importers. `Acquisition`: two openers, two modules, two libraries with different
  offers, `MaxCleans` 1. `Verification`: a verifier, an extension and two parts.
* The bounds on faults (`MaxFaults`, `MaxCrashes`, `MaxLosses`, `MaxMeddling`, `MaxDeaths`, `MaxMishaps`, `MaxChanges`,
  `MaxOutages`, `MaxFailures`, `MaxBreaks`, `MaxEnds`, `MaxTroubles`, `MaxHarms`) are 1: one failure, death or foreign
  change at any step of any process. The properties speak of what is left by a failure,
  not of how many there were; the proofs have no bound.
* Symmetry is used only in runs without liveness. In the composites `Swaps` exchanges the two
  alike actors of every component at once, which is sound because only one component moves.

### Fairness

`WF_vars(Step(p))`: an operation that was started goes on as long as its process lives. The code
justifies it: each step is a file operation that returns, a poll that ends in the lock
or in a timeout (`LockTimeout`, `GiveUp`), or an execution with a timeout. Nothing is fair
about locks (`TakeEnvLock` and `Granted` may be passed over for ever, only the timeout is
certain), about registries, crashes, time, or anybody starting an operation. In
`FileLock` the holder is not assumed to leave. In `Toolchains` a step includes its failures: elan has a
timeout and a bounded number of attempts.

`ProcessesFairness`: threads of the program run (`WorkerActs`, `CallerActs`) and time passes (`TimeUp`). Of the child
and its descendant nothing is assumed: they may run for ever, which is what the time limit, the
signals and the bounded join of the readers are for. `SessionsFairness`: users, the monitor and time go on, and a
thread that waits for the lock of `close` gets it if it is free again and again (`SF` of `TakeClosing`: a
`threading.Lock` has waiters that are woken, unlike the polled `FileLock`). `ClosesEnd` has one exception: a descendant that holds the
pipes (`HoldsPipes`), which `finish` reads to their end without a limit when the child left by itself
(`backends.py:194`).

The composites state no fairness: they check safety only. Deadlock is not checked in `processes`, `sessions`,
`packages` and `artifacts`, whose programs end.

## Proofs

All proofs hold for every value of the constants that satisfies the named assumption of its
module, with any number of callers, environments, faults and deaths.

* `EnvironmentStoreProofs`. `TypeCorrect`; then `Invariance`, for an inductive invariant `Inv`
  that joins the types with: locks correspond to program counters (`LockDiscipline`), lease
  files to executions (`LeaseMatchesRun`), nothing removed is leased (`RemovalUnleased`), and,
  without interrupted removals, trees are complete unless they are being removed.
  `RemovalUnleased` alone is not inductive: that no lease is granted during a removal follows from the
  lock of the environment, which needs the correspondence of locks. `Locks`, `Leases`, `Trees` (`RunsOnCompleteTree`)
  and `Halves` (`NoHalfTree`) are its parts; `InUseIsKept` is an action property that follows from it step by step: only
  `RemovePart` takes parts, and what it takes them from is not leased.
* `PublicationProofs`. `TypeCorrect`; `Ownership` (`BuilderKeepsTree`) and `Alone` (`NoRace`) from
  `IInv`: a staging name has one builder and says for which destination it is built (`Named`), who
  publishes under a lock holds it and that of its staging tree (`Locked`), doctors list only staging
  trees of environments (`Looked`), and nothing is at the destination of an environment until
  its publisher renames (`Vacant`). A doctor must hold the staging lock to remove, which `Locked` denies it.
  `ComesBack` (`OldOrNew`) needs more: `OldOrNew` says that somebody is between the two renames of a displaced tree, not
  that the rollback will find its fault already used up; `Between` adds that a publisher that rolls back at an
  empty destination has had the one fault, and `Fresh` that a new staging name has no old trash.
* `SystemProofs`, of what all else stands on.
  * `FileLock`: `LockTypeCorrect`, `Descriptions` (`TextOfHolder`) and `Refinement`: every step of `FileLock` is a step
    of `Mutex` or leaves what it sees alone. The refinement needs that whoever is past its grant is the process the kernel
    knows (`HolderInside`).
  * `Processes`: `ProcessTypeCorrect`, `GroupsGone` (`StoppedGroupGone`) and `TrueOutcomes` (`OutcomesTrue`), for any
    number of contexts: a child whose readers are joined has ended (`Joined`), and from the stop on its group is empty, since
    a child that has ended starts nobody (`GroupGone`); nothing reads before the start or after the end (`Readers`).
  * `Sessions`: `SessionTypeCorrect`, `Answers` (`AnswersPaired`) and `OneResult` (`ResultTrue`), for any number of
    threads: who is inside a request holds its lock (`Asking`), so at most one line is in the pipes and it is of that thread
    (`OneLine`); there is no result before the record, and no child after the shutdown (`Recorded`); a child somebody stopped
    is one whose time was up, or one a close is still answerable for (`Stopped`).
* `DownloadsProofs`. `TypeCorrect`, which includes that a file is locked by exactly the caller at work on it; `PulledStays`
  (`UnpackedKept`), `YoungStays` (`YoungKept`) and `Verified` (`ReturnsVerified`). `UnpackedKept` is not inductive: the collector
  decides under the lock of the file and unlinks in a later step. `IInv` adds that a pull has a lease on all it has still to
  project (`Covered`), and that what is being unlinked is old and wanted by nobody who unpacked it (`Removable`).
* `ToolchainsProofs`. `TypeCorrect`, which needs that an attempt is left to whoever starts elan
  (`Counted`); `Kept`, `Ensured`, `Attended` and `Pruned` (`CopyKept`, `EnsuredUsable`, `UnprovedAttended`,
  `PrunedVerified`) from one invariant: who publishes, probes or prunes was asked to (`GoalOf`) and is alone
  (`Sole`); a copy is replaced only while the whole toolchain it is made from is there (`SourceThere`), the
  original is removed only beside a proved copy (`PruneSafe`), an incomplete installation is one being
  removed (`Removed`), and nobody touches a copy while it is probed or discarded (`Probed`). `CopyKept` alone
  says nothing of why the copy that is displaced is not the last.
* `WorkersProofs`, of those who work on the same directories.
  * `Workspaces`: `WorkspacesSafe` (`LeasedPresent`, `OwnersAtWork`) and `OldMoved` (`MovedOldEnough`). The lock of a
    workspace is held by exactly whoever has a lease on it or has it in hand as a collector (`LocksOwned`), and a name that
    was handed out is never handed out again (`LeasesGiven`): that is why a collector that looked before the lease and
    moves after it moves nobody's workspace.
  * `SharedProjects`: `ProjectsTypeCorrect`; `BuildsApart` (`SharedBuildsApart`), `NoCircle` (`NoLockCircle`) and
    `Undisturbed` (`BuildUndisturbed`), for any workers, manifests and finitely many packages. A lock is held by exactly who
    is inside its block (`LocksHeld`), and build locks are taken from the least package up (`Ascending`). In a circle
    everybody would be at the build locks, since whoever holds another lock waits at most for one further in; who holds
    the greatest of the packages awaited then waits for a greater one. `Undisturbed` needs that whoever is past a package
    has seen it there (`Made`), and that the record of a prepared graph is whole or one of its trees was changed
    (`Recorded`): `prepare` removes only unmarked trees, so it never removes one a build has.
  * `ProjectExecution`: `ExecutionSafe` (`ClonesApart`, `PairsMatch`). Who is past the guard holds its lock or came when
    every package had a directory, and then clones nothing (`GuardedAt`); who saves a snapshot holds the creation lock up
    to the second rename (`SavingAt`).
* `PackagesProofs`, of what is put on disk and recorded.
  * `Resolution`: `LocksSafe` (`LocksRebuild`, `TreesAsLocked`). The sources a resolver is done with are in the store
    before its lock is, however tags move meanwhile, and a tree has just the sources that were cloned (`ResolverAt`).
  * `Seeds`: `SeedsSafe` (`RootsKept`, `OutputsMatch`, `RichestChosen`). Under the lock of the registry what was read is
    what is there (`RegistryHeld`); outputs with another key than the marker of their tree were put there by somebody else
    (`TreesMarked`); of what was looked at and did not change, nothing that can give outputs is forgotten (`RichRemembered`).
  * `ProjectInit`: `NewProjectsWhole` (`VisibleComplete`) and `InitsUndone` (`InitUndone`), for every list of distinct
    entries that ends with the toolchain file: that file is the last to come and the first to go (`ToolchainLast`), and
    what an init has put there it knows of (`EntriesOf`).
  * `Adoption`: `AdoptionSafe` (`PlaceOrBackup`) and `FailuresUndone` (`FailureUndone`) from where the old
    dependencies are at each step of an operation that is alone in the project (`PlaceAt`), and from what its files and
    records can be restored from (`RecordsAt`). `ChangesStay` (`ChangesKept`) adds that an operation past its inspection
    has nothing changed in hand (`ChangesInv`).
  * The composite `MCPackages`: `AllWorkApart` (`WorkersApart`), `AllRecorded` (`TreesAsRecorded`) and `AllKept`
    (`TreesKept`).
* `ArtifactsProofs`, of what finds, fetches, publishes, packs and verifies.
  * `Discovery`: `SearchesSafe` (`HistoryTrue`, `ExhaustedTried`), `HistoryKept` (`NothingForgotten`) and `FetchesEnd`
    (`NoFetchAfterVerdict`), crashes of Lean excepted. What was tried has the status that Lean's verdict gives it, and what comes before the next
    candidate was tried or skipped (`SearchFine`); who has loaded the history holds its lock, and what it loaded is what is
    there (`EditFine`). That there is a plan at all has to be proved too: `Before` is a strict total order, so the number
    of candidates before one (`Place`) is different for each, and an injection of a finite set into one of the same
    size is onto.
  * `Registry`: `PublicationsSafe` (`NothingMissing`, `FailureTold`): blobs before manifests before the index
    (`ListedThere`), for publishers (`PublisherFine`) and for clients that go by what they found listed (`ClientFine`).
  * `DeclarationIndex`: `HintsSafe` (`AnswersOfOneEdition`, `RetainedUnlessRepublished`, `TemporariesOwned`) and `HintsStay`
    (`ServedStaysServed`). What a reader is told is of one manifest, and a shard it wanted is missing only where it may not be
    downloaded. What a reader has is of one manifest (`ReaderReads`), what it missed is among the objects before
    the record names it (`ReaderPlaces`), and while there is a single manifest the record only ever becomes that
    one (`ReaderAlone`).
  * `Copies`: `CopiesSafe` (`CopiesImportable`, `CapsulesAsAsked`). What an export has packed and what it still reads make
    a whole (`PackedAt`); whoever installs found nothing there and is alone (`InstallsAlone`).
  * `Programs`: `ProgramsSafe` (`ProgramsAsNamed`). Who makes a program holds the lock of its name, found none there, and
    has the content of the name unless the payload was edited meanwhile (`MakerAt`).
  * `Acquisition`: `EnvironmentsAcquired` (`ChecksHaveRoots`, `OnlyPermittedMeans`) and `ProjectionsGrow` (`NeverShrinks`).
    A check has the roots its manifest lists, and goes without others only where that manifest is of a library that offers none
    of them; that all roots are there is not so (`AllRootsThere`). The manifest of a projection is always that of some library (`ManifestOfLibrary`).
    Whoever builds, projects or rewrites holds the lock (`OpenerLocks`), and what an opener was permitted on the ground of
    what it found stays so as long as no clean takes it (`OpenerFinds`).
  * `Verification`: `ReportsSafe` (`ReportTrue`, `NoFalseAlarm`, `AttestedAsPacked`, `OfflineLocal`). What a check has seen
    is still so while nobody touches the environment (`StillSeen`), and one that was sound stays so, extended meanwhile or
    not (`StillSound`).
  * The composite `MCArtifacts`: `AllTold` (`AnswersTrue`), `AllStored` (`ArtifactsComplete`) and `AllRemembered`
    (`NothingLost`).

The theorems about the composites rest on one lemma each (`ComponentMoves`, `OneMoves`): a step of the composite is a step
of one component and leaves the others alone, so it is a step or a stutter of every component, and a behaviour of the composite is
a behaviour of each of them (`PackagesRefine`, `ArtifactsRefine`).

Some theorems have hypotheses beside the assumptions on constants, because without them the property is false of the code
(see "Divergences"), and the run has the same restrictions:

* `OneInit`, of `NewProjectsWhole`, `InitsUndone`, `AllRecorded` and `AllKept`: one process at a time makes a project in a
  directory. `init` takes no lock, and two of them undo each other's entries.
* `EditsMeanwhile = FALSE`, of `ChangesStay` and `AllKept`: checkouts are edited between the operations of an adoption and
  not during one. `attach` inspects once and does not look again before it removes the backup.

`Trees` and `Kept` need none, but their properties speak of histories without an interrupted removal, and without callers that
change installations at the same time.

So every invariant and every action property of a passing run is stated by a theorem. The safety properties were
checked by TLC on the instances above before they were proved. Proving found faults of the models that those instances
do not show: the type invariant of the declaration index was false with two environments, whose objects are
shared; `ExhaustedTried` did not allow for an empty catalog; a `CASE` whose arms overlap says
nothing of which is taken, so those of the code's `if` chains are now `IF` chains.

Only model-checked: the liveness properties (`Returns`, `Served`, `Ends`, `CallsEnd`, `ProcessesEnd`, `ClosesEnd`), which are out of
the prover's reach, as `ENABLED` and induction over data are; and what the violation runs show. That `FileLock` implements
the safety of `Mutex` is proved; its liveness (`Mutex!Served`) is checked by TLC.

## Divergences

Promises of the documentation, of comments and docstrings that the code does not keep, beside the two that violation runs
check. Each is stated as a definition in its module, with the promise quoted in its comment; adding it to the
configuration named last gives the counterexample.

| definition | promise | what happens | configuration |
| --- | --- | --- | --- |
| `NamedRetained` | "Named, recent, and in-use environments are retained" (`docs/reference/storage.md:52`) | `set_alias` (`store.py:837`) takes no lock: a name set after the last look of `clean` does not keep its environment | `StoreNamedRetained.cfg` |
| `ExactWhenRun` | an "exact, immutable" environment (`docs/tutorial.md:7`) | a removal that is interrupted (`store.py:1168`) leaves a tree that `open` accepts and an execution runs on | `StoreExactWhenRun.cfg` |
| `OldOrNewAtRest` | "always either the old or the new complete tree" (`_transaction.py:73-75`) | a death between the two renames leaves the destination empty (`_transaction.py:92`) | `PublicationAtRest.cfg` |
| `NeverAbandoned` | "The worker is never abandoned mid-way" (`_cancellation.py:31`) | a second cancellation ends the wait for the worker (`_cancellation.py:41`) | `Processes.cfg` |
| `ClosedIsRecorded` | a close records and removes the instance (`environments.py:454`) | when closing stdin fails (`backends.py:185`) it raises before it records | `Sessions.cfg` |
| `CheckoutsAlone` | "exactly one check may run until the packages exist" (`project_execution.py:149-158`) | directories that exist already count as packages while Lake still clones into them | `Packages.cfg` |
| `UpdateWhole` | an update is transactional (`runtime.py:1881`) | a death between two of its writes leaves files of two releases | `Packages.cfg` |
| `ChangesKept` with `EditsMeanwhile = TRUE` | adoption "rejects dirty ... dependencies" (`CHANGELOG.md:640`) | what the user changes between the inspection and the move is removed with the backup | `Packages.cfg` |
| `VisibleComplete` with two `Inits` | "new projects become visible only when complete" (`runtime.py:2205`) | two of them in one directory leave, after a refusal, a directory `discover_project` accepts | `Packages.cfg` |
| `AllRootsThere` | "Extend a sparse projection before checking a new import closure" (`environments.py:1144`); a projection without a requested root "claims readiness while missing the modules the caller asked for" (`oci.py:958-960`) | what the manifest of the environment does not list is skipped (`capsules.py:225-227`): the check starts without it although another library offers it | `Artifacts.cfg` |
| `RejectedByLean` | "Lean ran and rejected the source" (`docs/reference/commands.md:108`) | a Lean that crashed or was killed counts as one that rejected (`engine.py:462-465`), and a search remembers it | `Artifacts.cfg` |
| `VerdictFinal` | "no candidate can change this verdict" (`discovery/engine.py`) | a verdict that arrives when the budget has just run out is dropped (`engine.py:506`) | `Artifacts.cfg` |
| `PlatformsKept` | a reference goes on listing its platforms | two publishers read and write the index without a compare-and-swap: the later one wins (`oci.py:1669-1736`) | `Artifacts.cfg` |
| `WholeAsAsked` | a whole copy is imported | where a capsule of the environment is, it is reported instead (`bundles.py:865-873`) | `Artifacts.cfg` |
| `ManifestsStayWhole` | a cached manifest that is whole stays so | it is written in place (`programs.py:664-665`): readers find it torn, and after a death later pulls fail | `Artifacts.cfg` |

Two promises are recorded as hazards and have no definition: after the death
of a holder a waiter is told of the dead one (`locking.py:66`), and `clean_downloads` may remove a
blob an active pull has found, because nothing writes the leases it asks for (`oci.py:488`).

Behaviour met while modelling that no document speaks of, and that the models have:

* A `close` that is repeated after its record failed takes the signal of the first for the child's own exit.
* `publish_program` with signing signs the digest of the platform manifest (`runtime.py:780-790`), a pull
  verifies that of the index (`programs.py:622`).
* When an index is published again while a reader acquires it, the caller is told once that
  nothing is retained (`declaration_index_oci.py:431`).
* `availability="local"` with permission to build from source builds. Limits bound the planned cost
  of an acquisition, not what an extension then downloads.
* The outputs of a whole environment are compared with nothing but a rebuild, and a mismatch is a
  warning. A verification of a sparse environment that is not offline and finds an artifact missing acquires it in its
  probe and still reports the failure.
* The exception of `NoFalseAlarm` is a capsule manifest caught while it is rewritten (`oci.py:1164`); that of `OfflineLocal` is a
  toolchain pruned meanwhile (`docs/trust.md:56`).

## Not modelled, and why

* Contents: tar and zstd streams, JSON, SQL, Lean sources, digests (a tree is complete or not, bytes
  are right or not), and the building and querying of the SQLite files of a declaration index.
* The order in which a power failure makes writes durable: the code never syncs and makes no
  promise about it. A crash here is the death of a process.
* Windows: its locks and renames behave alike at this level; retries of `remove_tree` are one
  failure or none.
* Authentication, credentials and network policy; prices and progress of acquisitions.
* Waiting for a lock of one's own (a thread that enters the same `FileLock` twice waits for
  itself until the timeout): no caller of the modelled operations does.
* Of toolchains: the bootstrap of elan and the cache of executable digests. Of downloads: toolchain
  blobs and the capsule import that unpacks without a lease.
* The memo of discovery that lives in memory (`discovery/memo.py`), the commands Lake gets and the text of what it
  answers.
* Pure conversions: parsing of sources and of the bundled catalog, adoption plans and estimates, comparison of
  results, references and precedence of contexts, the identifier index, schemas and serialization, rendering, argument
  parsing. They keep no state that anybody shares; unit tests reach them.

## Plan

What comes next, in this order:

1. An abstract store in which what is leased does not change, and the refinement of it by `EnvironmentStore`.
2. Composition of `Downloads` with `Acquisition`: the frames of a pull and the lease of its artifacts in one model.
3. Larger instances of the composites: a second environment in `Verification` and a third opener in `Acquisition`.
