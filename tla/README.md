# A TLA+ model of rkt

rkt runs application containers grouped into *pods*. It has no daemon: every command is a
process of its own, and the processes coordinate through the file system alone, by atomic
renames of directories, `flock(2)` on directories and files, and an SQL database of images. What
makes rkt correct is therefore the order in which independent processes, any of which may be
killed at any moment, make their system calls. That is what this project models, checks with TLC
and proves with TLAPS.

## 1. Inventory

| component | source | state | operations | interacts with |
|---|---|---|---|---|
| pod life cycle | `rkt/pods.go`, `rkt/uuid.go` | the parent directory a pod is in (`embryo`, `prepare`, `prepared`, `run`, `exited-garbage`, `garbage`), the flock on it, the cached `is*` flags in each process | `newPod`, `getPod`, `refreshState`, `walkPods`, `listPods`, `xTo*`, `waitExited` | all commands; file locks |
| commands | `rkt/prepare.go`, `run.go`, `run_prepared.go`, `status.go`, `rm.go`, `gc.go` | none of their own | one command each | pods; stage0; store |
| garbage collection | `rkt/gc.go`, `stage0/gc.go`, `stage1/gc/gc.go` | none: ctimes of directories | five passes over the directories, `deletePod` | pods, networking (through stage1's gc entrypoint), tree store overlays |
| stage0 | `stage0/run.go` ... | the pod's files | `Prepare`, `Run` (exec of stage1, which inherits the lock's descriptor) | pods, store, metadata service |
| file locks | `pkg/lock/dir.go` | a descriptor with a flock | `NewLock`, `Try*Lock`, `*Lock`, `Unlock`, `Close` | kernel |
| key locks | `pkg/lock/keylock.go` | one lock file per key, which may be removed and created again | `*KeyLock`, `lock` with detection of a changed file, `Close`, `CleanKeyLocks` | file locks, store |
| image store | `store/store.go`, `aciinfo.go`, `remote.go`, `db.go`, `schema.go` | blobs, manifests, tables `aciinfo` and `remote` | `WriteACI`, `GetACI`, `RemoveACI`, `WriteRemote`, `GetRemote`, `ResolveKey`, `ReadStream` | key locks, database, tree store |
| tree store | `store/tree.go` | a rendered tree per image, its hash, its `rendered` flag | `RenderTreeStore`, `Write`, `Remove`, `IsRendered`, `Check` | key locks, image store |
| store migration | `store/store.go` (`NewStore`), `migrate.go`, `backup.go` | database version, numbered backups and `tmp`, the store lock | `NewStore`'s version check, `createBackup` (copy, prune, shift, install), `migrate` | image store, database |
| metadata service | `rkt/metadata_service.go`, `stage0/registration.go` | in the service: pods by token and UUID, in memory; in the pod's directory: `mds-registered` | register pod, register app, unregister, each with retries; end and restart of the service; lookups | stage0 |
| networking | `networking/*.go`, `stage1/init`, `stage1/gc` | what plugins allocated, a configuration per network, the nat chain, the mounted namespace, `net-info.json` | `Setup` (networks one by one, rollback), `forwardPorts`, `Save`, `Load`, `Teardown` | stage1, CNI plugins, gc |
| image fetching | `rkt/images.go`, `rkt/fetch.go`, `store/store.go` (`GetACI`) | the list of names still to fetch, the names seen, rows and remotes of the store | `fetchImage`, `fetchSingleImage`, `addImageDeps`, the decision between store, cache and download | image store, network |
| key store, stage1 init, configuration, tar | `pkg/keystore`, `stage1/init`, `rkt/config`, `pkg/tar` | files | parsing, formatting, copying | |

What is hard here:

- *Interleaving.* `gc`, `rm`, `run-prepared` and `status` act on cached flags. Between the
  `open` that finds a pod, the probe of its lock and the rename there is no lock; the pod may be
  renamed, run, exit, be marked and be deleted in between.
- *Crashes.* A process may die between any two system calls. Its flocks go with it, its renames
  stay; whatever it leaves must be something that `gc` can deal with.
- *Blocking.* `gc` and `rm` block on pod locks; `rm` keeps the locks of the pods it went through.
- *Lock files that change.* A key's lock file may be unlinked and created again while somebody
  waits for it: two processes may have locks on two inodes of the same key.
- *Partial failure.* The n-th network fails, the file system fails in the middle of a rotation of
  backups, a registration is answered but the answer is lost: each step that was done has to be
  undone, or has to be found again by `gc`.
- *Releases.* An rkt of another release may have the store open when the database is migrated.
- *Liveness.* Abandoned pods are eventually deleted; `status --wait` ends; a lock call returns
  although the file keeps changing.

`PROJECT.json` lists these hazards with the lines where they bite and the properties that
would catch them.

## 2. Modules

| module | what it is |
|---|---|
| `PodLifecycle` | pods, their directories and locks, and the commands `prepare`, `run`, `run-prepared`, `status`, `status --wait`, `gc`, `rm` |
| `PodPhases` | abstract specification: the documented states of a pod and its transitions |
| `MCPodLifecycle` | TLC instance (symmetry) |
| `PodLifecycleProofs` | the inductive invariant of `PodLifecycle` and what follows from it |
| `PodPhasesProofs` | `PodLifecycle` implements `PodPhases`, and honours grace and expiration periods |
| `PodDeadlockProofs` | pod locks are never waited for in a circle |
| `KeyLock` | `pkg/lock/keylock.go` on one key: descriptors, inodes, removal and re-creation of the file |
| `RWLock` | abstract specification: a readers/writer lock |
| `MCKeyLock` | TLC instance |
| `KeyLockProofs` | theorems about `KeyLock`, the refinement of `RWLock` among them |
| `ImageStore` | the image store, the tree store and the commands `fetch`, `image rm`, `image render` and readers of an image |
| `MCImageStore` | TLC instance |
| `ImageStoreProofs` | theorems about `ImageStore` |
| `Migration` | `NewStore`: version check, store lock, backup with its copy and renames, migration |
| `BackupLog` | abstract specification: a log of backups that forgets its oldest |
| `MCMigration` | TLC instances: one release of rkt, and two |
| `MigrationProofs` | theorems about `Migration`, the refinement of `BackupLog` among them |
| `MetadataService` | the handlers of the metadata service, its end and its restart |
| `PodServices` | composes `MetadataService` with registration, network setup, `Save`, gc and teardown of one pod |
| `MCPodServices` | TLC instance |
| `PodServicesProofs` | theorems about `PodServices` |
| `ImageFetch` | the walk of `fetch` over an image and its dependencies, and the choice of `GetACI` |
| `MCImageFetch` | TLC instance: names, versions, dependency graphs and initial stores |
| `ImageFetchProofs` | theorems about `ImageFetch` |

### PodLifecycle

State of the file system: `dir` (the parent directory of each pod; `none` before `newPod` and
`gone` after the removal), `content` (the pod's files as far as they matter: none, complete, or
without the `stage1ID` file that `deletePod` reads), `aged` (the ctime comparison of `gc`),
`uncollected` (stage1 began in the pod and its gc entrypoint has not succeeded since). State of the kernel: `ex`
and `sh`, the flocks. State of a process: `pc`, `cmd`, `pod`, `view` (the `is*` flags of the
`pod` struct as one value), `scan` (the directory `getPod` looks into next), `todo` (what a walk
or `rm` has still to visit). A pod's UUID is never reused, so its inode and a descriptor on it are
the pod itself.

Each system call that another process can observe is an action of its own, named after the
function it belongs to: `getPod` is `GetPod`, a `NotHere` per directory it does not find the pod
in, `Found`, then `ProbeFree`/`Unprobe` or `ProbeLocked`; `xToRun` is `LockRun` and `XToRun`;
`deletePod` is `DeletePod`, `RemoveFiles` and `RemoveDir`. Computation between two such calls is
part of the preceding or following action. Where a rename fails because the pod moved, the caller
does what the code does: `RenameLost` ends `prepare`, `run` and `run-prepared`, while gc and rm
go on with the next pod (`DoneWith`). `Kill` ends a process anywhere, and `RemoveFails` ends a
`RemoveAll` half way with an error that gc and rm log (`gc.go:235`); both are bounded by `MaxKills`. `PodExit` ends a running pod, by itself or by force, without a bound.

The flags are modelled as the code computes them, peculiarities included: a marked pod is also
`isExited`; `walkPods` has no mask bit for an exited pod in `run`; `refreshState` clears all flags
before it looks; `rm` calls `removePod(nil)` for a pod it cannot find; `rm` never closes a pod.

Actions map to the code as `map` in `PROJECT.json` says. `DirOrder`, `PathOf`, `UnlockedView`,
`LockedView`, `InMask`, `Wanted` are the tables behind `getPod`, `path`, `walkPods` and the
passes. Definitions marked "Mutant" are deliberate errors that no specification uses: replacing
the definition they stand beside by one of them makes TLC report the property it endangers.

### KeyLock

`NewKeyLock` and `lock` of `keylock.go`: the lock file's name refers to an inode or to nothing;
each process has a descriptor on an inode, may have a flock on it, and compares the
descriptor's inode with the one the name refers to after every lock it gets. `Remove` is
`CleanKeyLocks`, which removes the file under an exclusive try-lock. `MaxRetries` bounds the
retries as `lock`'s `maxRetries` does. One key is enough: nothing relates two keys.

### ImageStore

State on disk: `blob` and `manifest` (the two diskv stores), `info` and `remote` (the two tables of
the database), `tree` and `flag` (a rendered tree and its `rendered` file). The locks of a key, one
for the image and one for its tree, are `ex` and `sh`. A process has a control point `pc`, the
command `cmd`, the `key` and `url` it works on, the `part` of the image it reads next and the
argument `rebuild` of `RenderTreeStore`.

An action is what the code does between two points at which a crash or another process can make a
difference: `WriteACI` is `LockFetched`, `Import` (a rename), `TruncateManifest`, `WriteManifest`
(diskv writes the file in place), `Record` and `UnlockFetched`; `RemoveACI` is `LockRemoved`,
`Forget` (one transaction), `EraseBlob`, `EraseManifest` and `UnlockErased`; `TreeStore.Remove` is
`Unflag`, `RemoveTree` and `RemoveTreeDir`, `TreeStore.Write` is `Mkdir`, the reads of the
renderer, `Extract` and `SetFlag`. `Stop` ends a process anywhere, by a signal or by an I/O error
that makes the command return; it has no bound. Two errors go unnoticed in the code, and are
actions bounded by `MaxFaults`: `DoTx` drops the error of `Commit` (`RecordLost`, `WriteRemoteLost`,
`ForgetLost`), and `TreeStore.Remove` drops the error of removing the flag and goes on
(`UnflagFails`). The history variables `stale` and `stuck` are the images and trees such an error has
left behind, until they are written or removed again.

Abstractions. Key locks are used as the readers/writer locks that `KeyLock` is proved to
implement (`UsesRWLocks` says that the commands use them so). A transaction is one step, because `db.Do` holds an exclusive lock on the database and
releases it before it returns. Images have no dependencies, so a render reads one manifest and
one blob. `image rm` does not look at the pods that refer to an image. A tree's hash is compared
by what it stands for: `Check` succeeds on complete trees only.

### Migration and BackupLog

State on disk: `version` (of the tables, plus one, so that 0 is an empty database), `row` (what the
table `version` says, plus one; 0 if it says nothing), `writes` (a counter that tells two contents of the database apart), `tmp` and `backups` (the
directory that is being filled, and the numbered ones). `storeLock` is the flock that `NewStore`
takes, and `Release` says which database version each process was compiled for. The control
points of a process are the steps of `NewStore`: `Check` (the first transaction), `LockStore`,
`CopyBegin` and `CopyEnd` (`CopyTree`, which takes no lock on the database, so that another process
may write in between), `Prune`, `ShiftOne` per rename, `Install`, `Cleanup` (the deferred removal of
`tmp`) and `Migrate`. Each operation may fail (`Fault`), and the process takes the error path of
the code; `CommitVersion` also has the case in which `DoTx` drops an error of `Commit`, and `Migrate`
the one in which `migrate` drops the error of `updateDBVersion`, which deletes the row and inserts a
new one: the tables are migrated and committed, the row is an earlier one or none. `Check` refuses a
store without a row, and the migrations of `Alters` (version 2 adds columns; 3 in the model) fail on tables that have them
(`Blocked`). A backup is
the number of its copy, the version and write count it shows, and whether it is the database of one
moment. `first`, `lost` and `botched` (a version update was dropped) are history variables, for the
properties only; `taken` numbers the copies.

### MetadataService and PodServices

One pod, because pods share nothing here: the service keeps an entry per pod under a mutex, and
the commands that work on a pod hold its lock, so that `pc` is the place of the one command at
work. `PodServices` follows a pod from `registerPod` in `stage0.Run` to `deletePod`. A request is one
step of `PutPod`, `PutApp` or `UnregisterPod`: it is answered, or it or its answer is lost, before or
after the handler has run (`NotAnswered`), and is tried again up to `RetryCount` times; a repeated PUT
carries no body and is refused, as the first try closed the file. `Setup` is `MountNetNS`, `AddNet` per
network, `Rollback`/`RollbackConf` and `ForwardPorts`; `Teardown` is `UnforwardPorts`, `DelNet`/`DelConf` per
network and `UnmountNetNS`, from stage1's init if `Save` fails and from stage1's gc otherwise. `LoadNets`
leaves out a network whose configuration cannot be read, as `networking.Load` does, and a
`Teardown` that cannot enter the host's namespace returns with nothing given back (`UnforwardPorts`);
in both cases gc goes on and removes the pod. `RemoveAll` is two steps, `RemoveFiles` and `RemoveDir`,
between which a kill or an error leaves any part of the files; without `stage1ID` (`files`) no later gc
starts. `Kill`, `Reboot` and `ServiceEnds` may happen anywhere; a service that was killed leaves its
`socket`, where no other starts until a reboot. `lostNets`, `lostPorts` and `lostPod` record the
errors the code logs and goes on after: the properties except what is in them, and nothing else.
`failed` is the network whose setup failed.

`PodLifecycle` sees all of this as one bit, `uncollected`: `Stage1Setup` stands for the setup, the step of
`DeletePod` that clears it for a success of stage1's gc entrypoint. A success says nothing about
networks: the entrypoint succeeds without `net-info.json`, and `Teardown` logs its errors. What is given
back is checked here.

### ImageFetch

State: the manifests' dependencies (`deps`, any of the graphs `DepGraphs`), the flags `local` and
`withDeps` of the fetcher, the rows of `aciinfo`, `remote`, the list `imgsl` and the set `seen` of
`fetchImageDeps`. One step fetches the name at the front: from the store, from the cache, or by a
download of whatever the server has under that name at the moment; `Found` then appends the
dependencies as `addImageDeps` does, its early return on a name already seen included, or appends
none because the manifest cannot be read, an error that is dropped too. `read` lists the images
whose manifest was read, for the property. `remote` may hold what earlier fetches left
(`FirstRemotes`). `GetACI`
is the loop of the code, one turn per row in any order the database may list them in: a row without
the labels asked for is skipped, and `Prefer` decides between `curaciinfo` and one that has them.
Two versions of one name
and a second name are told apart; a label other than `version` adds nothing to the comparison.

## 3. Runs

| run | question | instance |
|---|---|---|
| `pods_safety` | the safety properties of the pod life cycle and its refinement of `PodPhases` | 1 pod, 2 processes, all commands, 2 kills or failed removals; about 270 000 states |
| `pods_two` | can gc and rm wait for each other? | 2 pods, 2 processes; about 2 million states |
| `pods_live` | are abandoned pods deleted, does `status --wait` return? | 1 pod, 2 processes, `prepare`, `run`, `status --wait`, `gc`, 1 kill or failed removal, fairness; about 94 000 states |
| `keylock` | does the key lock exclude, keep its file, implement `RWLock`, return? | 2 processes, 3 inodes, 1 retry, fairness |
| `store` | is what the database and the flags promise there at every crash; do commands end? | 1 key, 1 URL, 2 processes ending anywhere, 1 unnoticed error, fairness |
| `migration` | do backups rotate in order, is the old database kept, is the store migrated in the end? | 3 processes, stores without version, of an earlier version and current, 3 backups, 1 write, 2 failing operations, 1 kill, fairness; about 1 100 000 states |
| `services` | is everything a pod got from the host given back before its directory goes? | 2 networks, 2 apps, 3 tries, 3 lost messages, 2 failing operations, 2 kills or restarts, fairness |
| `fetch` | does the walk come to every dependency and end, and is the best image chosen? | 3 images, 3 names, all dependency graphs with up to two names per image (and for the two images of which one is older together), 3 initial stores, with and without a remote, 1 unreadable manifest, fairness; about 160 000 states |
| `doc_remote` | can a remote refer to an image that is not recorded? | as `store`; counterexample |
| `doc_exclusive` | is a store migrated while an earlier rkt uses it? | 2 processes of two releases; counterexample |
| `doc_waited`, `doc_collected` | two places where a pod command does not do what a document or comment says (section 6) | counterexamples |

*Bounds.* Every pod property except `NoDeadlock` speaks of one pod, and no action on one pod reads
another, so one pod suffices there; a wait cycle needs two pods. Each race is between the process
that owns or looks at a pod and one that moves it on; processes are idle again after each command,
so two processes still make any number of consecutive commands. Three processes were explored
while the invariant was developed, and the theorems hold for any number. Two kills allow a
crash during the work of a process that cleans up after a crash. In `keylock` three inodes allow
the file to be replaced twice under a waiting process, one more than the single retry covers.
In `store` no property relates two images (there are no dependencies) and no action touches two.
In `migration` three backups are the fewest for which a rotation renames twice (the code keeps 5),
and three processes are as many as there are backups: with more, the ones that waited for the store
lock push the backup of the old database out (section 6), so that `MigratedIsBackedUp` needs that
bound, in the run as in the theorem. `MaxCopies` is 6, which no behaviour without a dropped version
update exceeds; after one, every command makes another copy. In `store` one unnoticed error is what each
exception of a property speaks of. In `pods_live` one kill or failed removal is enough to strand a pod.
In `services` two networks are the fewest that a rollback or an interrupted teardown can take
down in the wrong order (the theorems are for any number); three lost messages exhaust the three
tries; a second kill hits the gc that cleans up after the first. In `fetch` up to two dependencies per
image give diamonds, cycles and repeated names.
Processes and pods start again from `idle`, so the search is closed and deadlock is checked, except
in `services`: a pod that is gone leaves nothing to do.

*Fairness* (`pods_live`). A process that can take a step takes one (weak fairness: the kernel
schedules it). A blocked `flock` that is granted again and again is granted (strong fairness: the
kernel's queue of waiters is served when the lock is released). No kill and no failure is fair. stage1's gc entrypoint does not
fail for ever; `rkt gc` is started again and again, as `commands.md` says ("designed to be run
periodically from a timer or cron job"); time passes. Nothing obliges a user to enter a command, a
running pod to exit, or `Prepare` to fail, so none of these is fair.

*Fairness* (`keylock`). Processes take steps, and a holder eventually closes its lock.

*Fairness* (`store`). Processes take steps, and a lock that is free again and again is granted.
Nobody has to start a command, and nobody has to be killed: a command that ends only when it is
killed violates `CommandsEnd`.

*Fairness* (`migration`). Calls of `NewStore` take steps and commands end; a process starts again
after it has ended, which says that somebody goes on using rkt: the store is migrated by the next
command, by nobody else. The lock needs no strong fairness: it is free again only after its holder
has ended, and the next holder finds the database migrated or tries again.

*Fairness* (`services`). The command at work takes steps, and gc is started again and again (the
timer of `commands.md`). The service does not have to be started again, and a pod does not have to
exit.

*Fairness* (`fetch`). The process takes steps.

## 4. Properties

Pods:

- `OwnerKeepsPod`: no command moves, deletes or locks a pod under the process that prepares or
  runs it. The renames of gc, rm and run-prepared take no lock; this rests on the order of lock
  and rename in `xToPreparing` and `xToRun` and on the probe of `getPod`.
- `LookupComplete`: `getPod` and `refreshState` look into one directory after the other and
  still miss no pod that exists, because pods move forward in the order they look
  (`ForwardOnly`).
- `ExitedIsFinal`: the knowledge that a pod has exited, however old, is still true when used.
- `DeleteOnlyGarbage`, `OneDeleter`: what gc and rm delete is garbage, and one of them does it.
- `CollectedFirst`: the directory of a pod in which stage1 began disappears only after stage1's gc
  entrypoint has succeeded, and never by way of `garbage/`, where `deletePod` skips the entrypoint.
- `GraceHonoured`, `ExpirationHonoured`: gc removes nothing before its period; rm may.
- `FollowsPhases`: the implementation refines `PodPhases`.
- `NoDeadlock`, `WaitReturns`.
- `AbandonedIsCollected`: whatever is killed or fails, gc deletes every failed or exited pod in the end,
  but one whose `stage1ID` an interrupted removal took. `AbandonedIsDeleted`, without the
  exception, is what the documents say and is violated (`doc_collected`).

Locks: `MutualExclusion`, `HeldFileStays`, `ImplementsRWLock`, `CallReturns` for key locks.

Image store:

- `RecordedHasBlob`: the database, which alone says which images exist, names none without its
  blob. It rests on the order record-last, forget-first and on the lock that excludes an import from
  a removal of the same key. The exception is an image whose removal was not committed (`db.go:112`).
- `RecordsWholeImage`: what a fetch records is whole, over whatever an interrupted import or
  removal left.
- `FlagMeansComplete`: a flagged tree is complete, because the flag is the last file created and the
  first removed. The exception is a tree whose flag could not be removed (`tree.go:120`).
- `RemoteIsRecorded` (violated, section 6): every remote refers to an image of the store.
- `NoDeadlock`: no circle of processes waits for each other's image and tree locks; and
  `UsesRWLocks`: every lock of the store behaves as an `RWLock`. Both are theorems (section 5);
  TLC found them to hold on the instance of `store` before they were proved.
- `CommandsEnd`: a render takes image locks under the tree's lock and a removal takes both; neither
  waits for the other for ever, and a tree removed between render and check is rebuilt only once.

Migration:

- `NewestFirst`: a backup with a smaller name is newer, whatever failed or was killed in a rotation.
- `MigratedIsBackedUp`: once the database is migrated, a whole copy of what it was is among the
  backups, with as many processes as backups, unless a version update was dropped: then every
  command makes one more backup and fails.
- `OpenedIsCurrent`: a command works on tables of its own version, whatever the row says, unless a commit was lost.
  It holds with one release of rkt and is violated with two (`doc_exclusive`).
- `ImplementsBackupLog`: the renames of the rotation, crashes between them included, never forget
  any backup but the oldest.
- `MigratedInTheEnd`: the store is migrated in the end, unless a `tmp` was left behind or the version
  row was not updated (`migrate.go:50`): such a store is refused, or migrated in vain, for ever.

Services of a pod:

- `RunningIsServed`: a pod is executed only with all networks, ports and registrations, and with the
  record from which gc will give them back.
- `RolledBack`: when the n-th network fails, all the ones before it are given back, except ones whose
  plugin fails; the n-th itself may be left.
- `ReleasedWhenDeleted`, `UnregisteredWhenDeleted`: the directory of a pod goes after what it
  records was given back, however often gc was killed, except what a plugin, iptables or every try
  of a request failed on, a network whose configuration could not be read, and everything if the
  host's namespace could not be entered.
- `TornDownInReverse`: in reverse order of the setup, across interrupted teardowns.
- `DeletedInTheEnd`: gc deletes an ended pod in the end, unless `net-info.json` was cut short or a
  removal was interrupted after `stage1ID` was gone.

Fetching:

- `DependenciesFetched`: each dependency listed in a manifest that the walk read is fetched, except one
  listed after a name that was listed before. Of an image whose manifest could not be read nothing
  is said: the code drops that error too.
- `BestMatch`: `GetACI` returns a row no other matching row beats, in whatever order the rows come.
- `FetchEnds`: the walk ends if no image depends on itself, although names are walked again.

## 5. Proofs

Each theorem holds for every value of the constants that satisfies the named assumptions: `NoPod`,
`NoProc`, `NoKey`... are none of the pods, processes or keys, and bounds and counts are natural
numbers (positive where a pod has at least one network, or at least one backup is kept). In
`ImageFetch` the store a fetch starts with is a finite set of rows.

`PodLifecycleProofs` proves

- `Invariance`: `Spec => []IInv`;
- from it `OwnersKeepTheirPods`, `DeletersDeleteGarbage`, `DeletersExclude`, `ExitStaysTrue`,
  `CollectedBeforeRemoved`, `LookupsComplete`;
- `PodsMoveForward`: the action property `ForwardOnly`, by `DirStep`, which says which pairs of
  directories a step can connect.

None of these properties is inductive. That gc cannot take a pod from its owner depends on what gc
believes and when it came to believe it, so `IInv` relates each process's cached flags to the disk:
a pod is where the flags say *or further on* (`ViewInv`); flags that a successful probe
confirmed exclude the process that would hold the lock, now and later (`IdleInv`); the owner has
the lock and finds the pod where it put it (`OwnerInv`); an embryo has one creator
(`OneCreator`); the sweeping passes hold pods of their own directory only (`SweepInv`); only pods
that ran have something to collect, and runnable pods are complete (`PodInv`). `IInv` is an invariant of
`pods_safety`, and there is one lemma per action.

`PodPhasesProofs` proves `LifecycleFollowsPhases`: under the mapping `StateOf`, which reads the state of a
pod off its directory and the live process that owns it, every step is a transition of `PodPhases`
of one pod, or does not show. `IInv` supplies what the mapping needs: a pod has one owner, and a
rename without a lock never concerns a pod that has one.

The same module proves `GraceIsHonoured` and `ExpirationIsHonoured`. gc compares a ctime, then waits for
a lock, then acts; `PeriodInv` says that the answer is still true when it acts, or that the pod has
moved on or is already being deleted.

`PodDeadlockProofs` proves `WaitsAreAcyclic` (`NoDeadlock`). `LockInv` says who may have a lock: only an `rm`
waits for one while it has others, and those are of pods that are garbage. A circle would consist of
`rm` processes, each in front of a pod that it had found unlocked and the next had locked since
(`Overtaken`). `Acyclic` says that this relation has no circle: a step that adds to it is a
`SweepLock`, and the process that takes it waits for nobody at that moment. `PeriodInv`, `LockInv` and
`Acyclic` were checked with TLC on the instances of `pods_safety` and `pods_two` before they were proved.

`KeyLockProofs` proves `MutualExclusion`, `HeldFileStays` and that `KeyLock` implements `RWLock`
(`KeyLockRefines`) for any number of processes, inodes and retries, from its invariant
(`Invariance`).

`ImageStoreProofs` proves, for any number of images, URLs and processes, `StoreInvariance` and from
it `RecordedImagesHaveBlobs`, `FetchesRecordWholeImages` and `FlaggedTreesComplete`. The
invariant needs, beside the properties, which lock a process has at which control point
(`HolderInv`) and what follows for the image (`ImageInv`: a blob stays while its importer has the
lock; a key being erased has no record, or is one whose removal was lost) and for the tree (`TreeInv`: no
flag from its removal to the end of the render, unless it could not be removed). `IInv` also says the converse (`OwnerInv`): whose name is on a lock, that
process is where it needs it, and a writer is alone. Two theorems follow. `StoreLocksAcyclic`: the
locks are ordered. Whoever has an image's lock waits for nothing; a render waits for an image while
it has a tree; and whoever waits for a tree has nothing, because `RemoveACI` closes the image's
lock before `RemoveTreeStore` opens the tree's. `StoreUsesRWLocks`: each lock of each key, seen by
itself, behaves as `RWLock`. With `KeyLockRefines` this closes the composition: what the store needs
of a lock is what `keylock.go` provides, with files that are removed and created again.

`MigrationProofs` proves `MigrationInvariance` and from it `BackupsNewestFirst`, `RotationRefines` (every step
adds a newer backup, forgets the oldest one or does not show in `BackupLog`) and `OpenedStaysCurrent`.
The invariant says who has the store lock (`LockHeld`), that `tmp` is newer than every backup
(`TmpNewest`) and that each rename finds its target free (`RoomMade`): without the last a rename
would fail or the order would depend on what an earlier, interrupted rotation left. `OpenedStaysCurrent` assumes
that all processes run one release, which is what `doc_exclusive` shows to be needed. It is about the
tables; that the row never says more than the tables have (`RowLags`), and which rows a process
that waits or migrates can have read (`RowRead`), is the invariant it needs with dropped updates.

`MigratedStaysBackedUp` proves `MigratedIsBackedUp` for one release and at most `BackupsNumber` processes
(`OneRelease`, `FewProcesses`). A process that found the old version and then waited for the store
lock makes a backup although the database has been migrated meanwhile, and so moves the one backup
that matters by one name. `BackupInv` counts them: the copy of the old database, now under name `i`,
is safe if `i` plus the number of processes that may still make a backup (`Movers(i)`, which tells
for the process that is rotating whether it has passed `i`) is less than the number of backups
kept. A process makes at most one backup before it sees the new version, so the sum never grows, as
long as no version update was dropped (`BotchedStays`). The
bound is exact: with one process more, TLC finds the copy pruned. `BackupInv` was
checked with TLC on the instance of `migration` before it was proved.

`PodServicesProofs` proves `ServicesInvariance` and from it `RunningPodsServed`, `SetupRollsBack`,
`DeletedPodsReleased`, `DeletedPodsUnregistered` and `NetworksTornDownInReverse`, for any number of apps,
networks, tries and faults. The invariant says what each phase has reached (`RegistrationSteps`,
`SetupSteps`, `RollbackSteps`) and, across kills, that a saved network keeps its configuration until
its plugin was called or a teardown gave it up (`TeardownProgress`): the fact a gc that starts again
depends on.

`ImageFetchProofs` proves `DependenciesAreFetched` and `GetACIReturnsBest` for any images, names, dependency
graphs and finite stores. `GetACIReturnsBest` is an induction over the turns of the loop of `GetACI`,
done as the search for a smallest counterexample (lemma `Smallest`): after `i` rows, `curaciinfo` is a
best of the matching rows among the first `i` (`LoopKeepsBest`), because `Prefer` adds one row to them
(`PreferKeepsBest`). `FetchInvariance` is the invariant of the walk, `FetchInv`: every dependency in a manifest
that was read is walked, still in the list, or behind a name that was listed before (`WalkInv`), and the list is
empty when the walk ends (`ListEnds`). No assumption excludes cycles: those matter for the end of
the walk only.

Only model-checked is liveness, because fairness is beyond the prover: `AbandonedIsCollected`, `WaitReturns`,
`CallReturns`, `CommandsEnd`, `MigratedInTheEnd`, `DeletedInTheEnd` and `FetchEnds`. Every other property that a
passing run checks is a theorem.

## 6. What the runs found

Four runs expect a violation. Each property states what a document or comment says.

- `doc_waited`: `status --wait` may return for a pod that is prepared and never ran. It found
  the pod in `prepare/`; the creator renamed it and unlocked; the probe then succeeded and the pod
  was taken for a failed prepare (`pods.go:652`).
- `doc_collected`: a gc killed in `RemoveAll` after `stage1ID` was unlinked leaves a pod that
  no later gc deletes: `deletePod` cannot read `stage1ID` and gives up (`gc.go:193`).
- `doc_remote`: `fetch` writes the remote after it has released the image's lock; an
  `image rm` in between leaves a remote whose key no record has (`store.go:488`), which
  `fetch --local` returns.
- `doc_exclusive`: `NewStore` opens the directory for its shared lock and never locks it
  (`store.go:123`), so that the exclusive lock of a migration excludes other migrations only: a
  process of an earlier release goes on with a database of the new version.

Observations met while modelling, for which no run is kept. Pods:

- `rm` refuses a pod that gc has marked: `isExited` is tested before `isExitedGarbage`, and
  `xToExitedGarbage` refuses a marked pod (`rm.go:119`; `commands.md:555`).
- `rm` of a pod that a concurrent gc deletes panics: `removePod` is called with a nil pod (`rm.go:77`).
- `getPod` may report a pod as running while the lock is a deleter's: the pod was found in
  `run/`, exited, was marked and locked before the probe (`pods.go:253`;
  `pod-lifecycle.md:98` says the failed lock shows it alive).
- `rm` gives up when it loses a rename: a `*os.LinkError` never equals `os.ErrNotExist`
  (`rm.go:120`; `pod-lifecycle.md:104` says losers can ignore the error).
- the sweep takes a blocking lock (`gc.go:110`; `pod-lifecycle.md:94` says locked directories are
  skipped).
- `renameExpired` may be called on a pod that has run and exited (`pods.go:137`), and
  `xToGarbage` answers with its internal error (`pods.go:464`).
- `getPID` clears `ErrChildNotReady` and then returns -1 without an error instead of waiting
  (`pods.go:821`).

Store and migration:

- fetching a recorded image again truncates its manifest in place (`store.go:322`): a crash leaves
  a recorded image that cannot be read; `RecordedHasBlob` speaks of blobs for this reason.
- `DoTx` ignores the error of `Commit` (`db.go:112`), and `TreeStore.Remove` that of removing
  the flag (`tree.go:120`, shadowed). `RecordedHasBlob` and `FlagMeansComplete` except the image and
  the tree concerned.
- `migrate` drops the error of `updateDBVersion` (`migrate.go:50`): the tables are migrated and
  committed with an old row or none, and every later `NewStore` fails; each makes a backup first, so that the
  copy of the old database is pruned in time. `MigratedInTheEnd` and `MigratedIsBackedUp` except it.
- a copy that fails or is killed leaves `backups/tmp`; `CopyTree` refuses an existing target, so that
  every later `NewStore` that has to migrate fails (`backup.go:35`). `MigratedInTheEnd` excepts it.
- processes that waited for the store lock back the migrated database up again: with more than
  `backupsNumber` of them the backup of the old database is pruned.
- `CopyTree` takes no lock on the database: a command of an earlier release that writes meanwhile
  leaves a torn backup.
- a process that waited while a newer release migrated opens the newer database: `migrate` does
  nothing then, where the first check would have refused.

Services of a pod:

- a `forwardPorts` that fails, and a kill before `Save`, leave the networks set up: gc finds no
  `net-info.json` and removes the directory.
- a `Save` that fails or is killed half way leaves a part of `net-info.json`: stage1's gc refuses the
  pod for ever. `DeletedInTheEnd` excepts it.
- a network whose configuration cannot be read is left out of a teardown, and a teardown that cannot
  enter the host's namespace gives nothing back (`networking.go:140`, `188`); the directory goes all the same.
- a network namespace that could not be unmounted, or that a killed run left mounted without
  `net-info.json`, makes `RemoveAll` fail after it has removed `stage1ID`: the pod stays for ever.
- a registration whose answer is lost, or that is killed before `mds-registered` is created, and a
  creation of that file that fails, leave the pod registered: `unregisterPod` sends nothing without
  the file.
- the second try of a PUT has no body: the first has read and closed the file.
- a service killed by `SIGKILL` leaves its unix socket, which the next one cannot bind.

Fetching:

- a dependency cycle is walked for ever: a name that was seen is appended before it is looked up
  (`FetchEnds` assumes there is no cycle).
- a name that is listed twice ends the loop over the rest of its manifest, and the error is dropped
  (`images.go:168`); so is the error of a manifest that cannot be read (`images.go:180`, `187`). Both
  leave dependencies out of a fetch that succeeds, against the comment at `images.go:176`.
- importing an image again under a versioned name resets its `latest` flag.
- of a downloaded image the name is compared with what was asked for, the version is not.
- names with two or more labels are spelled by iterating over a Go map, so that `seen` may take one
  name for two.

## 7. Not modelled

I/O errors of `fsync`, `open` and `stat` of the pod directories other than "not there"; the same pod
given twice to `rm`; promotion and demotion of a lock on one descriptor; `getPID` and the reading of
exit statuses; in the store prefixes of keys, renders of images with dependencies and the pods that
refer to an image; the handlers of the metadata service that only read, and the signing of pod
identities; the kvm flavor of networking and what a plugin does; the discovery protocol, signatures, and
images given as hash, file, URL or docker name; the key store, whose commands copy or remove single
key files; the translation of a pod manifest to systemd units; configuration files, tar extraction and
uid ranges. `PROJECT.json` gives the reason for each component. The bytes of images, manifests and
units, parsing and formatting are outside the questions asked. The vendored libraries under
`Godeps/_workspace` - an SQL engine, the ACI tools, CNI and others - are nine tenths of the repository's
lines; they are not rkt's own logic and appear only as the transactions, plugins and requests the
code above makes of them.

## 8. Plan

1. Done: `PodLifecycle`, `PodPhases`, `KeyLock`, `RWLock`, `ImageStore`, `Migration`, `BackupLog`,
   `MetadataService`, `PodServices`, `ImageFetch`, their runs and the theorems above.
2. `GetPid`: `getPID` and `getChildPID` beside the pod's own process, `enter` and `status`.
3. Composition of `ImageStore` with the pods that refer to images, for the window that `image rm`
   leaves open; renders of images with dependencies.
4. stage0 and stage1: the order of mounts, files and exec in `Run`, and the units that stage1
   makes of a pod manifest, as functions.
5. Proofs: the liveness properties stay with TLC; the modules of items 2 to 4, once written.
