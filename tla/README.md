# TLA+ models of WinProfile

WinProfile is a Windows administration tool that lists the user profiles registered
under `ProfileList`, repairs broken registrations, copies a profile to another place,
opens a TrustedInstaller console, and keeps an audit journal of all of it in
`%ProgramData%\WinProfile`. This directory holds TLA+ specifications of its
stateful parts, TLC configurations that check them on small instances, and TLAPS
proofs for every size. Source paths below are relative to `src/`.

## 1. Inventory

| Component | State | Operations | Interacts with |
|---|---|---|---|
| Legacy storage recovery (`crates/audit-journal/src/legacy.rs`) | names under ProgramData, phase markers and lock in `WinProfile.Bootstrap`, the `MigrationStateRecord` in memory | inspect, execute (start or resume), complete | storage handles, startup runtime, audit journal; other instances through the file system |
| Startup runtime (`crates/app-ui/src/main.rs`, `startup.rs`) | `startup_busy`, recovery slot, controller slot | proceed, retry, quit, close | recovery on a worker thread, then the controller |
| Protected storage (`storage.rs`) | retained directory and file handles | open, create, lock, rename and publish by handle | everything under ProgramData |
| Audit journal (`journal.rs`) | journal file, rotated files, export copies, recent entries, operation lock | log, rotate, load, export, acquire operation guard | every audited operation |
| Snapshots (`snapshot.rs`) | hive file and metadata per snapshot | create, list, validate, clean up | repair, rollback |
| Rollback (`rollback.rs`) | none of its own | restore a snapshot over a key | repair |
| Repair (`crates/core-profiles/src/repair.rs`) | `RegistryMutation`, list of snapshots | validate, dry run, execute, verify, roll back | registry, snapshots, journal, Restart Manager |
| Migration (`migration.rs`, `platform-win32/src/secure_fs.rs`) | `CopyTransaction`: retained handles of created objects, receipt manifest | validate, copy, verify, cancel, roll back | controller's cancellation token, journal |
| Scanner (`scanner.rs`, `models.rs`) | none: a report per scan | enumerate, evaluate each key, mark collisions, compute health | registry, Restart Manager, journal, window |
| TrustedInstaller launch (`controller.rs`, `platform-win32/src/tokens.rs`, `security.rs`) | operation guard, duplicated token, enabled privileges, process handle | check the session, start and poll the service, capture its token, create the console, compensate | service control manager, journal |
| Controller (`crates/app-ui/src/controller.rs`) | active operation, deferred close flag, cancellation token slot, preflight token, progress queue, last report | scan, select, validate, repair, migrate, cancel, export, launch, close | worker threads, event loop, all engines |
| Main window (`crates/app-ui/ui/main-window.slint`) | busy, running, confirmation overlay, form fields | enables and disables the controls | controller |
| Registry, Restart Manager, handles, locale (`crates/platform-win32`) | Win32 handles | single Win32 calls | all engines |

What is hard here:

- **Several instances.** Nothing forbids a second WinProfile process; they meet on the
  file system through sharing modes, names and two named locks.
- **Crashes.** The recovery is designed to be cut off between any two calls. A repair
  is not: what it leaves behind when it is cut off is a question worth asking.
- **Calls that fail after their effect.** A published marker whose synchronization
  fails, a journal line that is written and reported as failed.
- **Threads.** Workers and the UI thread share two atomics and two mutex slots, and
  each worker ends with three separate writes (slot, active, close flag) before its
  result reaches the event loop.
- **A moving world.** Keys come and go while they are enumerated by index, programs open
  a hive between the call that counts them and the call that lists them, the service stops
  between the poll and the capture of its token, the user closes a console that is about
  to be terminated.
- **Stale decisions.** Consent for an identity, a preflight for a draft, a
  confirmation for a selection, a loaded flag from a scan.

What makes each part correct: the recovery never detaches what nobody consented to,
never claims a phase that did not happen, keeps every journal, and finishes; a repair
either repairs or restores, and says which; the window never lets the process end
inside an operation, never leaves the controls locked, and acts on what it shows.
What the journal acknowledged survives a loss of power and only rotation drops it; a failed
migration removes exactly what it created; a snapshot is complete or absent; an
undisturbed scan reports exactly what is there, and a hive in use is not offered for repair; a console never exists without its request
in the journal.

## 2. Modules

| Module | Models | Source |
|---|---|---|
| `LegacyRecovery` | recovery, startup worker, sharing rules, crashes, other software | `legacy.rs`, `storage.rs`, `startup.rs`, `main.rs` |
| `RootReplacement` | what the recovery promises, without processes, handles, markers or failures | `legacy.rs`, `startup.rs` |
| `LegacyRefinement` | the mapping from `LegacyRecovery` to `RootReplacement` | |
| `MCLegacyRecovery` | symmetry for TLC | |
| `LegacyRecoveryProofs` | inductive invariant and theorems of the recovery | |
| `LegacyRefinementProofs` | the recovery implements `RootReplacement` | |
| `StorageRoot` | the root and who created it, the storage lock, the ways a storage call stops | `storage.rs` |
| `AuditJournal` (extends `StorageRoot`) | start, append, rotation, export, display buffer | `journal.rs`, `storage.rs` |
| `SnapshotEngine` (extends `StorageRoot`) | capture, cleanup, retained hives, listing | `snapshot.rs`, `storage.rs` |
| `ProtectedStore` | journal and snapshots composed over one lock, crashes, losses of power; the properties | |
| `MCProtectedStore` | symmetry for TLC | |
| `ProtectedStoreProofs` | theorems about the journal and the snapshots | |
| `TrustedInstallerLaunch` | the audited launch, service, privileges, compensation | `controller.rs`, `tokens.rs`, `security.rs` |
| `TrustedInstallerLaunchProofs` | theorems about the launch | |
| `ProfileScanner` | the scan, its event, the rescan after a repair, the report and the selection, Windows around it | `scanner.rs`, `models.rs`, `restart_manager.rs`, `registry.rs`, `controller.rs`, `state.rs` |
| `MCProfileScanner` | small registries and disks for TLC | |
| `ProfileScannerProofs` | theorems about the scan | |
| `RepairTransaction` | one repair transaction per process, registry, journal events, logons | `repair.rs`, `rollback.rs`, `snapshot.rs`, `registry.rs`, `journal.rs` |
| `MCRepairTransaction` | symmetry and dirty initial keys for TLC | |
| `RepairTransactionProofs` | theorems about the repair | |
| `MigrationTransaction` | one migration: tree walk, chunked copy, verification, cancellation, rollback | `migration.rs`, `secure_fs.rs` |
| `MCMigrationTransaction` | a small profile for TLC | |
| `MigrationTransactionProofs` | theorems about the migration | |
| `OperationControl` | UI thread, workers, event loop | `controller.rs`, `main.rs`, `main-window.slint` |
| `OperationControlProofs` | theorems about the coordination | |

Definitions ending in `_Something` with a comment that begins *Mutant* are plausible
wrong versions of the definition that follows them. No specification uses them; each
shows that some property would notice that mistake.

### LegacyRecovery

A directory object is its file identity. It is *protected* (it satisfies
`validate_production_root`) or *permissive*, which is decided when it is created.
`active`, `next[i]` and `legacy[i]` are the objects at the names `WinProfile`,
`WinProfile.Next.<i>` and `WinProfile.Legacy.Untrusted.<i>`. `markers` are the
published state files, `lock` the share-zero bootstrap lock, `events` the terminal audit
events with the root whose journal holds them. Per process there is a program counter
over the system calls of the start-up worker, the recovery offered, the record being
advanced, and the handles held, those with DELETE access apart.

Sharing is modelled by two predicates. Every product handle shares READ and WRITE but
not DELETE, so `OpenableShared` fails when some handle has DELETE access and
`OpenableForDelete` fails when there is any handle. One action per call that changes
or tests shared state; `Refused` collects the error returns of all checks, `Fault*`
are calls that fail although they could succeed, before or after their effect, `Crash`
drops the process's handles, `Substitute` is other software at the production name,
which can touch neither a protected root nor a pinned directory.

Abstracted: contents of descriptors and identities, file formats, the temporary file of
a marker (publication is by rename, so a reader sees a whole marker or none), and the
lock's timeout, which is a refusal while someone else holds the lock.

### RootReplacement and LegacyRefinement

`RootReplacement` has the production name, the detached objects, at most one job with its
stage, the terminal events and the finished replacements. `Record`, `Detach`, `Replace`,
`Audit` and `Finish` happen once each and in this order; `Elsewhere` is everything else
that may happen at the production name, and it cannot touch a protected root nor bring
a detached object back. The mapping reads a job's stage off the names, not off the
markers: a marker is published after the rename it records, so between the two the
abstract step has happened and the marker is behind. Crashes, retries, refusals, faults,
locks and handles are stutters. `ReplacesOnce` implies `AuditBeforeDone` and `DetachedStays`, which
`LegacyRecovery` states too; section 5 proves all three.

### RepairTransaction

The keys of one SID: canonical, `.bak`, and `.pre-repair-<time>` names. A key is its
path, State and RefCount, the last two as clean or dirty. The program counter follows
`execute_plan`; rollback is modelled call by call (undo each rename, restore each
snapshot, log the summary), since every one of these can fail and the code goes on.
A journal write that fails does so with or without its line in the file. A restore first
creates the key and then fills it; it can fail before, between and after. Logon and
logoff are Windows: a logon uses the canonical key or registers a new profile.

Abstracted: the guid and flags of a key (carried unchanged), the SID and path syntax
checks and the lock inspection as refusals, the two writes of `reset_state` as one
action at two labels.

### OperationControl

Operations are numbered. The UI thread runs handlers one at a time, so a handler is one
action, with one exception: `handle_close_requested` loads `active` and later takes the
mutex and stores the flag, and a live worker may run in between (`CloseRequested`,
`DeferClose`). A worker ends in the order of the code: empty the slot (migrations),
store Idle, swap the close flag, post the result. `loop` is the event queue; progress
callbacks are coalesced. Hiding the window ends the process. The work itself is opaque:
it ends, and a scan or a repair may or may not deliver a report that resets the form.
`start_migration` has two returns before it takes the preflight token: for a loaded source it
changes nothing, and for an incomplete form it registers Idle and clears `busy` without having
begun (`controller.rs:1291-1316`). The button is enabled only for a validated, complete form and
a source that is not loaded (`main-window.slint:718`), so neither is reached and neither is an action.

Abstracted: status texts, locale, audit display, elevation (a missing one refuses before
anything is registered), poisoned mutexes (no code panics while holding one).

### MigrationTransaction

A path is a node of a constant tree, the same in the source and below the target;
`MigrationConstants` says that it is one (no node below itself) and that each root of a scope is
a path of it. A directory is listed in the order of its `Children`, which stands for the sort by
name. What a migration selects is the smallest set that holds its roots and the children of every
directory in it. The
recursion of `copy_tree_verified` is a stack of tasks (a root, a directory to open or
create, a directory to enumerate, an entry), the copy loop goes buffer by buffer, and
every place where the code calls `is_cancelled` tests `cancel` in its guard. `created`
is the list of retained handles. They have DELETE access and share none, so nobody else
can rename or remove a created object and its node identifies it; rollback pops them and
cannot delete a directory that is not empty. A new object whose handle fails a check is
deleted at once, and given up (`history.orphan`) when that fails too. Equal data stands for
equal SHA-256; a defective medium may keep another buffer than the one written.

Abstracted: path syntax, loaded profiles and overlap checks (all refusals), the names of
folders, and a foreign *file* at the name of a directory, which is a failing call.
Directories of the source do not change during the run; files do unless they are open.

### StorageRoot, AuditJournal, SnapshotEngine, ProtectedStore

A start opens the root or creates it (`OpenRoot`), and the process keeps that handle as long as it
runs. `create_protected_child` asks for DELETE access, which no other open of the root shares: while
the creating process (`creator`) runs, no other process starts, and its own `entries()`, which opens
the root once more by its path, is refused. `list_snapshots` therefore fails in that process until it
ends; `ListFails` has this cause beside the others, and `InventoryBrokenForCause` names it.

Every storage call opens `.storage.lock` without sharing, works, and drops it. What a call
computes before the lock is local, so a call begins by acquiring it; waiting and its timeout
are `LockRefused`. Journal and snapshot steps interleave only through the lock and `pc`, and
`ProtectedStore` composes them: `Crash` and `PowerLoss` hit both at once.

A log file is the sequence of pieces that appends left in it. `writeln!` writes the entry and
its newline separately, so a piece is *some* bytes, the *body* without its newline or the whole
*line*, with its length; `Bytes` is what rotation and the export compare. A line is readable when
it holds exactly one entry; the start refuses a log with an unreadable line. Rotation goes one
archive at a time, each turn a step that can fail or be the last before a crash. A loss of
power removes or shortens the one piece that `sync_data` has not flushed. `written` remembers
everything appended and not lost with power, `acked` what `log()` returned Ok for.

A snapshot is its hive, its metadata file and how its capture ended: *failed* when the error
reports no trouble with the cleanup, *unclean* when it does. A hive stays open with DELETE access
after a successful capture until the repair ends. `stray` is the one silent leftover: `create_file`
drops the error of deleting a file it could not inspect.

What the model shows besides its properties: a torn line glues to the next acknowledged entry
and the next start then refuses the log; archives are not read at the start; a listing is
refused while another transaction holds a hive, because the listing does not share DELETE; in the
process that created the root every listing is refused, for the same reason.

Abstracted: the content of entries and hives, digests and file identities (a whole hive matches
its metadata), descriptor checks of opened files (a failing call), `BufferPoisoned` (no code
panics under the buffer's mutex).

### TrustedInstallerLaunch

A worker per process follows `execute_trustedinstaller_launch`: guard, request, session, service
start and polls, `SeDebugPrivilege` around the capture, `SeImpersonatePrivilege` around the
creation, terminal audit. The three places that terminate a console share `Terminate` and
`WaitForExit`; `clean` says whether every compensation so far worked, which decides between
the errors that report a compensated console and those that do not. `enabled` and `previous` are the
process token and what the guard restores. A journal write fails with or without its line. The
service moves at any time and TrustedInstaller stops when idle, and the capture, which opens the
process by the id of the poll, may still succeed while it is stopping; the user closes consoles; the
kernel completes a termination late or never before the timeout.

Abstracted: paths, command line, environment block, access masks, process ids.

### ProfileScanner

One scan at a time, as `begin_operation` admits. `RegEnumKeyExW` is a step per index over the
keys *as they are then*; then each key is opened, its values read, its hive and directory
probed, its lockers counted and listed by two calls, its size measured. `Names` fixes the
enumeration order. A path is a directory with or without a trailing separator, the empty
path when the value is missing. An account that is gone (`Orphan`) does not resolve, nor does a
`.pre-repair-*` name, which is enumerated like any other.

There are two ways to a report (`purpose`). A *scan* logs its event and then queues its report, or
queues a failure. A *repair* that succeeded is followed by a scan of the same kind
(`BeginRescan`, `execute_repair`) that logs nothing: its report is shown, or its failure leaves the
report from before the repair, and the journal has `RepairSuccess` alone. What the repair does to the
keys is `Repaired`; `RepairTransaction` has it step by step. Both end in `cache_and_apply_report`
(`ApplyResult`), which drops the selection; `selected` copies what `apply_selected_profile` copies.

`Path::is_dir` and `Path::is_file` answer false when the path cannot be examined. `Probe` lets each
of them fail, as well as the open of `HKEY_USERS`: a directory that could not be examined is
reported as missing, an NTUSER.DAT that could not be examined leaves no anomaly at all, and in both
cases nobody asks who has the hive open. `overlooked` remembers it. `LockedHiveBlocksRepair` excepts
these rows, because the code really offers them; the repair engine looks again with `try_exists`,
which reports the error, and inspects the hive itself before it touches a key (`repair.rs:93-120`).
`overlooked`, `quiet` and `locked` are history.

Besides its properties the model shows that a key that vanishes after its enumeration fails
the whole scan, and that a key removed or added during the enumeration can make another one be skipped
or appear twice, in which case it collides with itself. `QuietScanIsExact` therefore speaks of
undisturbed scans only.

Abstracted: case and separators inside a path (`SamePath` compares normalized paths, and the trailing
separator stands for all of normalization), sizes, names of accounts and processes, GUIDs and flags.

## 3. Runs

Passing runs:

| Run | Instance | Shows |
|---|---|---|
| `legacy_safety` | 2 processes, 2 identifiers, 3 protected and 2 permissive objects, 2 faults, 2 crashes, 1 substitution; about 380,000 states | `TypeOK`, `JournalConsistent`, `PhaseMatchesNamespace`, `DetachedWasConsented`, `DashboardRootPinned`, `AuditedRootKept`, and the refinement `ReplacesOnce` |
| `legacy_liveness` | 1 process, 3 identifiers, 1 fault, 1 crash | `StartupCompletes` |
| `repair_transaction` | 2 processes, 2 repairs, 2 paths, 2 backup names, 2 faults, 1 crash, 1 logon; about 1.6 million states | `TypeOK`, `SuccessIsTruthful`, `FailedRepairRestores`, `SuccessRepairs`, `RegistrationsSurvive` |
| `migration_transaction` | 4 directories, 2 files of up to 2 buffers, 2 faults, 1 foreign object, 1 source change; about 1.2 million states | `RolledBackIsGone`, `SuccessIsComplete`, `CancelHonoured`, `JournalTellsOutcome`, `ForeignKept`, `ProgressMonotone`, `MigrationEnds` |
| `control_coordination` | 2 profiles, 1 target, 4 operations, 2 progress reports each | `NoExitDuringOperation`, `BusyCoversOperation`, `DeferredCloseCancels`, `PreflightIsCurrent`, `ConfirmationIsCurrent`, `OperationEnds` |
| `protected_store` | 2 processes, 4 counted calls, 2 archives, entries of 3 and 6 bytes in logs of 5, 1 fault, 1 crash or loss of power, with and without the root; about 1.7 million states | `JournalIsSuffix`, `AckedIsDurable`, `LogBounded`, `ExportsComplete`, `HeldSnapshotIntact`, `FailedSnapshotLeavesNothing`, `InventoryBrokenForCause` |
| `trustedinstaller_launch` | 2 processes, 2 launches, 2 polls, 2 faults, 1 crash; about 130,000 states | `ConsoleAccounted`, `PrivilegesRestored`, `OutcomeFollowsRequest`, `LaunchEnds` |
| `profile_scan` | 15 starting machines with up to 4 keys and 2 directories, 2 scans or a scan, a repair and its rescan, 1 change, 1 fault, up to 2 lockers; about 2.3 million states | `QuietScanIsExact`, `ShownIsAudited`, `LockedHiveBlocksRepair` |

Why these bounds are enough to be interesting. In `legacy_safety` two processes can both
be past consent, one can crash at any step and be resumed by the other, a second
migration can follow the first, and a fault can hit the resume of a crashed attempt;
the proofs of section 5 remove the bounds for the safety part. `legacy_liveness` has
one identifier and one object more than attempts that can be wasted. In
`repair_transaction` two faults make a failing repair whose rollback also fails, and
two repairs let one start from what a crash of the other left. In `migration_transaction`
two faults make a copy whose rollback fails, or an object that is given up; a nested
directory with a sibling file after it and two roots exercise the walk, two buffers
the loops, and the foreign object can be a target, a directory copied into or a file in
the way. One scope alone is the case in which the other's root is missing. In
`control_coordination` the first operation is the scan of the start-up; three more allow a
migration, a close that races its end, and a further migration that meets the stale flag.
Keys of the registry start dirty in both values so that a forgotten reset is seen.
In `protected_store` an entry fits a log once, so each append rotates; with two archives the
fourth call drops one, and a fault or a crash leaves any prefix of a rotation for the next
process. The root exists at the start or is created by the first process, so the other is
refused until that one ends. A cut append leaves a log that holds both the cut piece and a further line. In
`trustedinstaller_launch` two faults make a console that fails its audit and its termination; two
launches overlap if the guard does not stop them, and two polls separate the last from the
others. In `profile_scan` the machines cover two spellings of one directory, a temporary
profile, a missing path, a junction, a bare directory, a missing one, a loaded hive and an
account that is gone; a second scan lets a report replace another under a selection, and as a
rescan it meets the key a repair has preserved; one change falls between any two steps, and two lockers
let their number grow between the two calls.

The type invariants of `OperationControl`, `MigrationTransaction`, `ProtectedStore`,
`TrustedInstallerLaunch` and `ProfileScanner` are stated in the modules and hold in the same
instances; their runs spend the time on the other properties.

`repair_transaction`, `migration_transaction`, `control_*`, `trustedinstaller_launch` and `profile_scan`
switch the deadlock check off, because a finished budget of repairs, launches or scans, a migration
that returned and a hidden window really end the behaviour.

Runs that show a disagreement between the code and its documentation:

- `legacy_misclassified` (`OnlyPermissiveDetached`). The instance that created the root
  keeps a handle with DELETE access. A second instance's open is refused by the sharing
  rules, and inspection takes any error but *not found* for a permissive root. When the
  operator closes the first instance, as the documentation asks, and consents, the
  protected root is detached with its journal.
- `legacy_stuck` (`MigrationSettles`). Inspection reads the markers without the lock, so another
  instance can create a root during a migration. If it does so between the two renames, the replacement collides with it on every resume. The violation
  is found under fairness of everyone, closing dashboards included.
- `control_close` (`CloseHonoured`). A migration that finishes between the close handler's
  read of `active` and its store of the flag never sees the flag: the window reports that
  it waits, and stays. The flag remains set and cancels the next migration.

- `journal_rotation` (`ArchiveDroppedWhenFull`). A rotation removes the highest archive first and
  is started over when it stopped half-way. By then the highest slot can hold what the first
  attempt moved there; it is removed although a lower slot is free. `JournalIsSuffix` still
  holds: only the oldest part is lost, but more of it than the five archives say.

Three more disagreements follow from the models and have no run of their own. An instance
that inspects before `Prepared`, or finds the production name free, builds its controller
during another instance's migration, while `docs/architecture.md` constructs it only after
`Done`. A bootstrap directory that was just created is held with DELETE access while its
listing reopens it without sharing DELETE, so the first consented recovery on a machine ends
in an error and the retry succeeds, which is what `legacy_liveness` relies on. A failing open of
`ProfileList` after `RepairStarted` returns without a terminal event, while `README.md` says that a
failed repair records its outcome.

`ShownIsAudited` and `LockedHiveBlocksRepair` are conditional in the same way as the code: the
rescan after a repair has no event of its own, of which no document speaks, and a row whose `is_dir`
or `is_file` failed may be offered for repair. `CHANGELOG.md:34` says that scanner failures are
visible and fail closed; a swallowed `is_file` error is neither in the scanner, and what keeps a
locked hive from being repaired then is the second inspection of the repair engine (`README.md:11`).

`RegistrationsSurvive` has a condition worth knowing: when a step of the rollback fails, the
restore of the canonical snapshot can overwrite the only live copy of the `.bak` key. The
code reports the rollback as failed, and the snapshot files remain. `RolledBackIsGone` has
one too: a target directory whose creation was half done and could not be deleted at once
never enters the transaction, so it stays while the journal says `MigrationRolledBack`.

## 4. Fairness

- `LegacyRecovery!FairSpec`: weak fairness of the worker thread (the scheduler runs it)
  and of relaunching; strong fairness of *proceed* and *retry*, since the operator may quit
  in between but, as `docs/storage-recovery.md` asks, retries. Faults, crashes and
  substitutions are bounded and never fair. `ClosingSpec` adds that dashboards are closed.
- `MigrationTransaction!FairSpec`: weak fairness of the worker, no fairness of cancellation
  or of other software.
- `TrustedInstallerLaunch!FairSpec`: weak fairness of each worker, which has only bounded waits
  (`SERVICE_START_POLL_ATTEMPTS`, `TI_TERMINATION_TIMEOUT`). None of the service, the user or the
  kernel's termination: a launch ends even if they never move.
- `OperationControl!FairSpec`: weak fairness of the event loop and of each worker thread.
  Workers have no unbounded wait except the named locks, which time out. No fairness is
  assumed of the operator.

## 5. Proofs

Every invariant and every action property that a passing run checks is also a theorem, for any
processes, keys, files, sizes and budgets. The bounds of section 3 are bounds of TLC's instances
only; in the proofs they are arbitrary naturals. What is assumed of the constants is stated next to
them and evaluated by TLC in each run:

| Assumption | Says |
|---|---|
| `LegacyConstants` | protected and permissive objects are disjoint, `None` is none of them or of the processes |
| `RepairConstants` | `None` is no process and no backup name, backup names are neither `canonical` nor `bak` |
| `MigrationConstants` | `Children` describes a tree without cycles and each root is a path in it |
| `ControlConstants` | `None` is no profile, target, kind or draft; at least the scan of the start-up |
| `StorageConstants`, `JournalConstants` | an entry has a body and a newline, there is room for a byte and for one archive |
| `LaunchConstants` | the service is polled at least once |
| `ScannerConstants` | `Names` has no name twice, machines start with keys from `KeyChoices` |

Each proof module has its inductive invariant at its head, a lemma for every action (or for
every group of actions that disturbs the same conjuncts), and its theorems at the end.

**LegacyRecoveryProofs**: `TypeCorrectness`, `JournalStaysConsistent`, `PhasesAreTrue`,
`ConsentBeforeDetach`, `AuditPrecedesDone`, `DashboardKeepsRoot`, `AuditIsKept` and
`DetachedNeverReturns`. None of the safety properties is inductive alone. `IInv` adds what the
code relies on:

- `Mutex`: whoever is past `AcquireLock` holds the lock, so markers have one writer;
- `MarkerInv`, `ConsentInv`: markers and executed recoveries carry consented sources, which
  makes a resume by a process that never asked for consent legitimate;
- `HandleInv`, `SourceExclusive`: from opening the source to renaming it nobody else holds
  the production root, so the object renamed is the one whose identity was compared and
  no dashboard stands on it;
- `RecordInv`: the record in memory is unpublished with no pending migration, or it is the
  one pending marker;
- `LabelInv`: what phase, names and handles are at each label;
- `EventInv`: journals with terminal events belong to protected roots, which other
  software cannot replace.

A publication extends exactly one sequence by its next phase (`PublishFirst`, `PublishNext`,
summarised by `PublicationAdds`); `Frame` lists what each action leaves alone; then one lemma
per conjunct goes through the actions that can disturb it.

**LegacyRefinementProofs**: `RecoveryReplacesOnce`, the refinement. `IInv` says what a marker
implies about the names; the mapping reads the names, so `NameInv` adds the converse (the
replacement keeps its own name until it is activated, the detached name of a migration is free until
its source is renamed) and `BornInv` that whatever has a name was created before. Each renaming is
the one abstract step of its job, each publication of `Prepared` and `Done` begins and finishes it,
and everything else is `Elsewhere` or a stutter.

**RepairTransactionProofs**: `TypeCorrectness`, `SuccessTruthful`, `FailedRepairsRestore`,
`SuccessesRepair`, `RegistrationsAreKept`. While no logon interferes the registry is a function of
what the repair found and the mutation it remembers (`Base`): going forward exactly, during the
rollback up to the keys whose snapshots are still to be restored. For `RegistrationsAreKept`, which allows logons,
`PlaceInv` only says where each key found has been put, by its path.

**MigrationTransactionProofs**: `RollbackRemovesOurs`, `SuccessComplete`, `CancelIsHonoured`,
`JournalNamesOutcome`, `ForeignObjectsKept`, `ProgressNeverGoesBack`. `CreatedInv` says that what
is ours is in the transaction, given up, or left by a removal that failed; `ParentInv` and `TodoInv` that
every object and every task has its directory, so an object given up below the target keeps the
target from being removed. `CompleteInv` says that every selected file nobody touched is copied,
being copied, or below a task of the plan; a directory's task is replaced by tasks for its entries
(`BelowSplit`), and an empty plan leaves only copied files. `ProgressInv` says that the manifest alone
covers what was reported between two files, and manifest and `hashed` during one.

**OperationControlProofs**: `ExitWaits`, `CloseCancels`, `PreflightCurrent`,
`ConfirmationCurrent`, `BusyCovers`. Only the last operation can have a worker, `active` names it until
the worker stores Idle, and the event queue holds its result exactly between the post and its use
(`QueueInv`); from that no operation begins before the result of the last one was applied.

**ProtectedStoreProofs**: `TypeCorrectness`, `AcknowledgedEntriesAreDurable`,
`HeldSnapshotsStayIntact`, `FailedCapturesLeaveNothing`, `ListingBrokenForCause`,
`FilesAreBounded`, `PublishedExportsAreComplete`, `RotationLosesOnlyTheOldest`. `StoreInv` has the
exclusion of the storage lock, the durable part of the history (`DurableInv`) and the ownership
of captures. `RootInv` says that a process that created the root is the only one running, which
is what `ListingBrokenForCause` needs. `SizeInv` carries the size check of the rotation to the write that it is made for. An export is a
beginning of its source, and a piece has at least one byte, so equal lengths are equal
contents (`ExportInv`). For the rotation `SegmentInv` says that there are places in the history at which the files
begin and end, one after the other (`Cuts`): a renaming moves a cut, a dropped archive gives up
the oldest part, a file that is missing in the middle of a rotation is an empty segment.

**TrustedInstallerLaunchProofs**: `ConsolesAreAccounted`, `PrivilegesAreRestored`,
`OutcomesFollowRequests`. The operation guard excludes (`GuardExclusive`), hence the request is
the last event until its outcome is recorded (`TrailInv`); a live `PrivilegeGuard` remembers exactly what it
enabled (`PrivilegeInv`); `ConsoleInv` says what a worker knows of its console when it reports.

**ProfileScannerProofs**: `ShownAudited`, `LockedHivesBlockRepair`, `QuietScansAreExact`. `ScanInv`
follows a row from its inspection to the report, the result queue, the window and the selection;
`PurposeInv` keeps the events of a scan and of a rescan apart, so that a report queued by `Refresh` has
`RepairSuccess` and one queued by `Audit` its own event. `BeginRescanInv` shows that the keys a repair leaves
(`RepairedKeys`) are again keys a scan may find.
`QuietInv` says what an undisturbed scan has found at each step: during the enumeration the
names of the first ranks among the keys, afterwards every key once (`RankedListed`: every rank below
the number of keys is taken, by exactly one key), then a row for each name but the system's, with
the anomalies its steps so far can give.

`Bytes` and `TotalBytes` are sums by a recursive function. The prover cannot use the library's
induction theorems, which take an operator; what is needed of these sums, and of the ranks, is proved by
the least counterexample instead (`LeastNatural`, from `WFMin`, and `UpTo`).

Only model-checked: liveness (`StartupCompletes`, `OperationEnds`, `MigrationEnds`,
`LaunchEnds`), which needs fairness and `ENABLED` and is out of the prover's reach, and all violations, which are traces
of small instances. `AuditBeforeDone` and `DetachedStays` are proved and have no run of their own,
since `ReplacesOnce` implies them. The types of the launch and of the coordination are part of their
inductive invariants; of the migration's and the scan's types the invariants have what the proofs need.

## 6. Not modelled

- Win32 wrappers without state of their own (`platform-win32`: handles, locale, folder dialog),
  the shutdown of locking processes, which has no caller, text tables and view formatting, the
  layout of the window, `webbrowser-shim`, build and packaging scripts.
- `change_locale`: it renders cached state again in another language and changes nothing else.
- The recorded descriptors and NT attributes behind `validate_production_root` and the ancestry
  checks of the migration: decided once per object, and a failing call where they fail.
- Losses of power in `LegacyRecovery`, `RepairTransaction` and `MigrationTransaction`: a crash there keeps published names. Only
  the journal, which relies on `sync_data` for what it acknowledges, has a model of one.

## 7. Plan

1. The remaining type invariants as theorems (`MigrationTransaction`, `ProfileScanner`).
2. An abstract *all or nothing* repair implemented by `RepairTransaction` when nothing fails during
   rollback, and `TakeSnapshot` as the abstraction of `SnapshotEngine`'s capture.
3. More of the controller: the migration form's view state, and the audit display.
