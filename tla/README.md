# Verification of dcc-mcp-material-maker

TLA+ models of the parts of `dcc-mcp-material-maker` that have something to get wrong: the owned native process on POSIX and on Windows, the atomic export, the project walk, the install lifecycle, the validation of a distribution and the release publication. TLC checks each of them on small instances; TLAPS proves the most important invariants for every value of the constants.

Paths below are relative to the repository. `bridge.py`, `install.py`, `server.py` and `_process_supervisor.py` are in `src/dcc_mcp_material_maker/`.

To check a model: `tlc -config NativeRun_tree.cfg NativeRun.tla` (the run list in `PROJECT.json` names the module of each configuration). To check the proofs: `tlapm` on each module whose name ends in `Proofs`.

## 1. The system

The adapter lets an MCP client export PBR textures with Material Maker. It drives the native executable with a fixed command line and never loads code into it.

| Component | State it keeps | Operations | Talks to | Hard part |
|---|---|---|---|---|
| Bounded native run (`bridge.py:42-134, 154-158, 436-536`, `_process_supervisor.py`) | process group, status pipe, two pipe collectors, pending exception, deadlines | `_run_process`, `poll_target`, `terminate`, `finish` | supervisor process, native tree, kernel, Core's cancellation | processes, threads and clock interleave; timeout, cancellation, completion and a failing cleanup race |
| Windows job (`bridge.py:161-296`) | job handle, suspended main thread | `__init__`, `assign_and_resume`, `terminate`, `close` | kernel | every call may fail between the creation of a suspended process and its ownership; the bridge may die there |
| Material export and readiness probe (`bridge.py:410-434, 539-566, 668-832`) | staging directory, destination | `export_material`, `status` | file system, native run, project's author | check-then-act on shared paths, partial output, crash with staging on disk |
| Project validation (`bridge.py:569-666`) | stack, four counters | `validate_project` | project file | three limits that end different loops |
| Configuration and discovery (`bridge.py:335-409`) | none after construction | `from_env`, `inspect_project`, `_environment_int` | environment | none for a model |
| Install lifecycle (`install.py`) | managed root, receipt, staging, backup, quarantine, copy | `install`, `upgrade`, `uninstall`, `status`, `verify`, `doctor`, `configure` | file system, export (readiness) | every call can fail half way; runs overlap; rollback of a rollback |
| Release publication (`.github/workflows/release.yml`, `tools/release_guard.py:1355-2330`) | tag, releases, PyPI files, workflow artifact | `stage`, `pypi-preflight`, `pypi-verify`, `publish-assets`, `finalize` | GitHub, PyPI, other workflow runs | two services, no transaction, lost responses, re-runs |
| Distribution validation (`release_guard.py:229-1105`) | manifest, dist directory, what each reader has seen | `create_manifest`, `verify_manifest`, the wheel and the sdist reader | zipfile, tarfile, the jobs and the upload that share the directory | two readers of the same bytes must agree; order, nesting and limits of members; re-runs find sidecars |
| Release detection | none | `detect-release` | git | one comparison per push |
| MCP server and skills (`server.py`, `skill_tools.py`, `skills/`) | one global server | `start_server`, `stop_server`, skill scripts | dcc_mcp_core | the queue and the cancellation are Core's |
| Developer tools and CI | none | smoke scripts | the above | none |

How they interact: a skill script calls `export_material` or `status`, which calls `validate_project`, then `_run_process`, then inventories and publishes. `install.py` calls `status` and `inspect_project` (`_verify_host`, `_preflight_config`) before and after it publishes the state. The release workflow is independent of all of it.

What makes each part correct:

* **Native run.** When the call is over no process of its group lives, whatever ended it. A result carries the real exit code, and the code of a run that was in time is not lost to an exception. Cleanup never signals a group that has inherited the number. The capture is bounded and its `truncated` flag exact. The call ends.
* **Export.** A destination changes only from nothing to a whole, inventoried directory. One of two racing exports wins. A failed call leaves nothing at its destination, and nothing beside it unless a removal failed.
* **Windows.** Whatever runs is in a job that dies with the bridge, and the contract is that of the POSIX run.
* **Validation.** The verdict is that of a declarative definition of a well-formed document; the work is within the budget on any document.
* **Lifecycle.** Commands that do not overlap are transactions. A command prints one result. Commands that overlap, fail or die never lose the last intact state, unless an uninstall was asked for.
* **Distribution.** An accepted archive unpacks to the same files on every file system and for every reader. What a later job verifies is what was built, and the upload's own sidecars do no harm.
* **Release.** The public release of a tag holds exactly the files of PyPI, from one build; nothing becomes public before the packages; interrupted runs can be resumed to a green end.

## 2. Modules

| Module | Models | Uses |
|---|---|---|
| `BoundedRun` | abstract: what callers rely on of a native run | |
| `NativeRun` | `_run_process` on POSIX with its environment | implements `BoundedRun` |
| `NativeRunProofs` | theorems about `NativeRun` | |
| `WindowsRun` | `_run_process` on Windows with `_WindowsJob` and failing calls | implements `BoundedRun` |
| `WindowsRunProofs` | theorems about `WindowsRun`, and its refinement of `BoundedRun` | |
| `AtomicPublish` | abstract: what an export may do to the directory tree | |
| `ExportMaterial` | `export_material` and `status`, concurrent calls | implements `AtomicPublish`; uses a native run through the contract of `BoundedRun` |
| `MCExportMaterial` | output trees and run endings for TLC | |
| `ExportMaterialProofs` | theorems about `ExportMaterial`, and its refinement of `AtomicPublish` | |
| `ProjectValidation` | `_validate_data` | |
| `MCProjectValidation` | documents for TLC | |
| `ProjectValidationProofs` | theorems about `ProjectValidation` | |
| `Lifecycle` | abstract: a command is a transaction | |
| `ManagedState` | the lifecycle commands, one step per file system call | implements `Lifecycle` when commands do not overlap |
| `MCManagedState` | command lines and initial roots for TLC | |
| `ManagedStateProofs` | theorems about `ManagedState`, commands overlapping or not | |
| `LifecycleProofs` | theorems about commands that do not overlap, and the refinement of `Lifecycle` | extends `ManagedStateProofs` |
| `ArchiveMembers` | names, limits and topology of members (`_canonical_archive_member_key`, `_validate_archive_members`) | |
| `SdistScan` | `_validate_sdist_metadata`: raw tar headers, tarfile's view, members | extends `ArchiveMembers` |
| `WheelScan` | `_validate_wheel_metadata`: end record, directory, local headers, zipfile's view, members | extends `ArchiveMembers` |
| `Distribution` | `create_manifest` and `verify_manifest` over a directory that changes | composes `SdistScan` and `WheelScan` |
| `MCDistribution` | wheels and sdists for TLC | |
| `DistributionProofs` | theorems about `Distribution` and both readers | |
| `Publication` | abstract: what the workflow promises of one version | |
| `ReleaseGuard` | the jobs of `release.yml` and the commands they call | implements `Publication` |
| `MCReleaseGuard` | files and builds for TLC | |
| `ReleaseGuardProofs` | theorems about `ReleaseGuard`, and its refinement of `Publication` | |

Definitions whose comment starts with "Mutated form of" are not part of the system. Each is a plausible mistake in one definition of the code, kept to show that a property depends on that definition; `PROJECT.json` pairs them.

### NativeRun

`pc` is the statement `_run_process` is at; `pending`, `cleanupError`, `code` are its locals `pending`, the exception raised in the cleanup, and `target_returncode`. `sup` is the supervisor ("booting" before it ignores SIGTERM, "waiting" in `target.wait`, "leader" after it has written its status line, "killed" when it has a SIGKILL pending, "dead" when it is a zombie or reaped). `proc` says where every process of the native tree lives: in the group, outside of it with the pipes, outside of it without them. `written`, `taken`, `buffer`, `truncated`, `drain` are a pipe and its collector.

The polling loop is three steps (status pipe, `process.poll`, limits), because the target may exit and the supervisor write between them. The cleanup is one step per call that can block or signal. The `readline` of the status pipe and what the target writes to it is one value. SIGTERM itself has no effect of its own on the native tree: a process that dies of it is one that `ProcExit` lets die, and one that ignores it lives on, so both happen. `NumberReused` lets a foreign group take the number as soon as the leader has been reaped and the group is empty.

### WindowsRun

The same call with the other owner. `job` is the job object, without its limit ("bare"), with it, or closed; `proc` tells a target that is suspended outside of the job from one that is assigned and from one that runs. Each call of the Win32 API that the code checks is a step that may fail when its name is in `Failing`; the calls on the thread snapshot share one name, and the loop over the snapshot may fail before or after the thread of the target was resumed, when the target may already have started others. `AbortWait` is the `process.wait` of the inner handler: whether it sees the end or times out, an exception is pending. `BridgeDies` may happen at any step and closes the handles of the bridge, which is when `JOB_OBJECT_LIMIT_KILL_ON_JOB_CLOSE` acts. What Windows does is outside of the repository: nothing leaves a job that allows no breakaway, a child of a process in a job is in that job, and what is terminated goes away in the end.

### ExportMaterial

One call is a job with its own `pc`; the destinations (`place`) and the project file are shared. `status` with a probe project is an export into a temporary directory that only it can see: `OpenProbe` and `LeaveProbe` are the two ends of its `with` statement, `opened` says whose directory exists, and an exception of the export passes the second end too (`Raise`, "unwind"). Both removals, that of the staging directory in the `finally` clause and that of the temporary directory, may raise ("rmtree_fails"); the verdict is then "cleanup_failed" if it was the last one of the call, and the temporary directory keeps any part of what was in it (`Remains`). A native run ends in one step, `NativeReturns` or `NativeRaises`, with any output tree and any ending; this is what `BoundedRun` allows, which `NativeRun` is shown to implement. The inventory is one step per directory entry. `Publish` is `os.replace`, which on POSIX replaces an empty directory and refuses everything else that exists. Checks of the target and the file name template read no state and come before everything else; they are left out.

### ProjectValidation

A document is a tree of cells. A cell keeps what the walk asks of a value: its kind, its items in the order they are pushed, its `nodes` and `connections` lists, and for nodes and connections the few fields that are compared. `Pop`, `CheckNode` and `CheckConnection` are the bodies of the three loops, with the `break` of each where the code has it. `IsDocument` says what `json.loads` and the check of the root in `_read_project` guarantee: the root is an object, a scalar holds nothing, and every other value is held exactly once, which is expressed by numbering a value after the one that holds it. `ValidationAssumption` asks it of every document, and TLC evaluates it on those of `MCProjectValidation`.

### ManagedState

A directory is a record: the configuration file, the receipt (as the configuration whose digest it records) and whether paths that nobody owns are in it. `Intact` is `_read_receipt` accepting. Every `mkdtemp`, write, `os.replace`, `copytree` and `rmtree` is a step; a name in `Faults` makes the corresponding call able to raise, and a recursive delete that raises leaves any part of the directory (`Remains`). `Overlap = FALSE` starts a command only when no other is under way.

`verify` stands for `verify`, `doctor` and `configure`, which run the same code on the state. Whether the host passes the readiness export is a free choice in `VerifyHost` and `InstallBegins`. `Emit` counts: `result` is "several" once a second report is printed.

### ArchiveMembers, SdistScan, WheelScan and Distribution

A reader runs over a file that is given by the initial state. What only decides a verdict by itself is a field of that file (`sound`, `proper`, `intact`, `approved`: checksums, magic numbers, encodings, the metadata text), and so is the class of a name's component (`Unsafe`, `Fold`). What decides where the reader looks next, or is compared with another part of the file, is modelled as it is.

* `SdistScan`: a tar stream is a sequence of blocks, and only the reader's position says whether a block is a header. `pending`, `rawTotal`, the keys and `raw` are the locals of `_preflight_sdist_raw_headers`; a step is one header. `TarInfo` is what `tarfile` makes of a member; since the raw scan has accepted every header, `tarfile` sees the same members, and `SdistBind` compares what it may still see differently.
* `WheelScan`: a wheel has end records at places of their own, each with the directory that lies before it, and local headers by offset. `candidate` is where the backwards search of `_wheel_end_record` is. `ZipEnd`, `Shift` and `Infos` are `zipfile`: it takes an end record of its own choice and moves the offsets if the directory is not where the record says. `WheelBind` is where both views meet. Offsets are counted in words, 4 bytes each.
* `ArchiveMembers`: the loop and the final checks that both readers share, a step per member.
* `Distribution`: `create_manifest` (`List`, both readers, `Settle`) and `verify_manifest` (`Verify`, and then the same again). Between commands the directory may change: the upload adds a sidecar (`Upload`), or something else happens (`Disturb`, `Damage`). A content has an edition; digests are equal when editions are. A change of edition does not change what the readers find, since the comparison of digests refuses it before they run.

### ReleaseGuard

A run is at a job and a step of it; the remote state is the tag, the releases of that tag and the files of the version on PyPI. `build` is the manifest (a new run builds again and may get other digests), `artifact` the workflow artifact that ties the later jobs to it. Faults are bounded in number: a job dies, a call takes effect and its response is lost, an upload is cut short, a listing misses a fresh draft, the artifact expires. Nothing serialises runs: `release.yml` has no concurrency group, and a push and a dispatch for one tag may be under way at once.

Taken from outside the repository, as the code in `tools/release_guard.py` relies on them: GitHub refuses to create a tag that exists, refuses a second asset of the same name and a second public release of one tag; PyPI refuses to replace a file. Reads are taken to be current except for the listing of drafts, where the code itself allows for a delay.

## 3. What is checked

Twelve runs. Ten must pass; two are expected to be violated and show a disagreement of the code with what the repository says of it.

| Run | Question | Shows |
|---|---|---|
| `native_tree` | Does the call own its tree? | `GroupGone`, `OnlyFailuresRaise`, refinement of `BoundedRun` (`KeepsContract`), `Terminates` |
| `native_capture` | Is the capture exact, is a result real, and are strangers safe? | `CaptureIsExact`, `ResultIsTheExitCode`, `StrangerNotSignalled`, also when a process leaves the group or somebody kills the supervisor |
| `native_drains` | Does the call end when a descendant left the group and keeps a pipe? | it does not: `Terminates` is violated (section 5) |
| `windows_job` | Does the job own the tree, whichever call fails? | `NeverUnowned`, refinement of `BoundedRun` (`KeepsContract`), `Terminates` |
| `export_calls` | What can appear, what can stay behind, what if calls race or die? | `PublishedIsInventoried`, `OneWinner`, `NoResidue`, refinement of `AtomicPublish` (`PublishesAtomically`) |
| `project_validation` | Is the walk's verdict right? | `VerdictIsExact` against `WellFormed`, `WorkIsBounded`, `WalkEnds` |
| `managed_serial` | Is a command a transaction? | refinement of `Lifecycle` (`RunsAreTransactions`), `UninstallKeepsACopy` |
| `managed_overlap` | Can overlapping commands that fail or die lose the state, or report wrongly? | `NeverLosesState`, `OkLeavesNothing`, `ReportsOnce` |
| `managed_lost_state` | And when a backup cannot be deleted? | it is lost: `NeverLosesState` is violated |
| `distribution` | What does an accepted distribution guarantee? | `AcceptedIsPortable`, `ExtentsDisjoint`, `ReadersAgree`, `SdistVerdictIsExact` against `WellFormed`, `VerifiedIsBuilt`, `UploadsAreHarmless`, `CommandsEnd` |
| `release_overlap` | What do overlapping runs that build differently publish? | `PublicIsPackaged`, `AssetsFollowPackages`, `GreenMeansPublished`, refinement of `Publication` (`PublishesOnce`) |
| `release_duplicates` | Does a version get out in the end? | `EventuallyPublic`, `TurnsGreen` |

`BoundedRun` says that a returned code is the real one, but it always allows an exception, since a caller has to expect one at any time. `OnlyFailuresRaise` therefore says when there is none: nobody cancelled, no deadline passed, and nobody killed the supervisor; then a call that raises never started the executable. Which of two exceptions wins is not checked: the code raises that of the cleanup, and no caller tells them apart. `native_tree` has no supervisor that dies before its report, so what that death may not do, make up a result, is `ResultIsTheExitCode` in `native_capture`, which has it. On Windows that property and the type invariant are proved and in no run (section 4). The modules of the exports, the lifecycle, the distributions and the release check theirs, `TypeOK`, in their first run, as `NativeRun` does.

Deadlock is not checked: every one of these systems stops when its calls have ended.

### Bounds, and why they are enough

* `native_tree`: the target and two workers, so that a worker can outlive both the target and its own parent and be started after the SIGTERM. One unit of output is enough where output does not matter. `native_capture`: chunks of two units around a bound of three and output of up to five, so that the bound falls in the middle of a chunk, at its end, and one unit before the end of the output; no worker, since the number of writers does not matter to a pipe.
* `windows_job`: two workers as above, and every call may fail at every place it is made, any number of times. What is captured is the code of `native_capture` and is left to it.
* `export_calls`: two calls under way, out of two exports and a probe, for one destination: two racers are what the check before the rename has to withstand, and a third would find what the second finds. Limits of two files and three bytes, with trees exactly at, one file over and one byte over them, plus a refused kind of entry; one edit of the project.
* `distribution`: three sets of inputs, each around a good pair. Sdists of one metadata member and up to two more items out of 28, in both orders (clashing names, nested files, payloads that end before, at and after a block, PAX paths that apply, dangle or repeat, sizes at and over each limit), and every ending. Wheels of two members where one entry and its local header each take one deviation, in both orders and each of six header forms; wheels of three members out of 13 names and sizes, and with two of them overlapping; and pairs of end records. The good pair with two changes of its directory, since one change can hide another. Limits are scaled so that two members meet them (4 members, 5 and 9 units, ratio 2).
* `project_validation`: at most two nodes and two connections in the first graph, and a second graph with as many nodes and one connection; limits of two of each and nine containers, so that each limit is met exactly, exceeded in the first graph, in the second, and only in both together.
* `managed_serial`: three commands, since a pair leaves the state a third one finds after a failure; two options and two values, so that a command may give one and inherit the other. The initial roots include a tampered and a foreign one. "restore", "drop_backup" and "drop_copy" are left out: a rollback that fails itself, a backup that cannot be deleted and a copy that cannot be deleted are the cases the code does not make transactional (section 5). `managed_overlap`: two commands, with all of these except "drop_backup".
* `release_overlap`: two files (the wheel and the sdist), two runs, three possible builds that share a file, one fault of any kind. `release_duplicates`: up to three faults and four releases, builds that are reproducible (otherwise PyPI pins the first build and no later one can go on, by design).

### Fairness

* `NativeRun`: weak fairness of the bridge thread, of the supervisor, of each drain thread and of the clock. These are threads and processes the operating system schedules and that never wait for the native tree except where the model says so. The native tree owes nothing: it may never exit, never write and never close a pipe.
* `WindowsRun`: weak fairness of the bridge thread, of the clock, of each drain thread and of the system that removes what was terminated. The bridge may die, and a call may fail as often as it likes: each failure leads to a later step.
* `Distribution`: weak fairness of the command that runs.
* `ProjectValidation`: weak fairness of the walk (a sequential program that is not blocked goes on).
* `ExportMaterial`, `ManagedState`: none, and no liveness is claimed. Their calls are straight lines that end if each step does, and the step that may not, the native run, is the subject of `Terminates`.
* `ReleaseGuard`: the safety run assumes none. The liveness run assumes that a job that can go on does, and that an operator who sees a run stop re-runs the job or starts a new run (the workflow's dispatch exists for that). Faults are bounded, so they end.

## 4. What is proved

`tlapm` checks these for all values of the constants: any number of workers, runs, options, documents, any limits.

| Theorem | Statement | Assumes |
|---|---|---|
| `NativeRunProofs!TypeCorrect` | `Spec => []TypeOK` | `NativeRunAssumption` |
| `NativeRunProofs!GroupIsGone` | `Spec => []GroupGone` | the property itself excludes a supervisor killed by others |
| `NativeRunProofs!StrangersAreSafe` | `Spec => []StrangerNotSignalled` | |
| `NativeRunProofs!ResultIsReal` | `Spec => []ResultIsTheExitCode` | |
| `NativeRunProofs!ResultIsNotLost` | `Spec => []OnlyFailuresRaise` | the property itself excludes a supervisor killed by others |
| `NativeRunProofs!CapturedExactly` | `Spec => []CaptureIsExact` | |
| `NativeRunProofs!ContractKept` | the run implements `BoundedRun` | "supervisor_dies" not in `Faults` |
| `WindowsRunProofs!TypeCorrect` | `Spec => []TypeOK` | `WindowsRunAssumption` |
| `WindowsRunProofs!TreeIsOwned` | `Spec => []NeverUnowned` | any failing calls |
| `WindowsRunProofs!ResultIsReal` | `Spec => []ResultIsTheExitCode` | |
| `WindowsRunProofs!ContractKept` | the Windows run implements `BoundedRun` | |
| `ManagedStateProofs!TypeCorrect` | `Spec => []TypeOK` | `ManagedStateAssumption` |
| `ManagedStateProofs!SuccessIsClean` | `Spec => []OkLeavesNothing` | none: any faults, any overlap |
| `ManagedStateProofs!StateIsNeverLost` | `Spec => []NeverLosesState` | `Runs` finite, "drop_backup" not in `Faults` |
| `LifecycleProofs!EveryEndIsReported` | `Spec => []ReportsOnce` | none: any faults, any overlap |
| `LifecycleProofs!RemovalKeepsACopy` | `Spec => []UninstallKeepsACopy` | not `Overlap`; any faults, crashes included |
| `LifecycleProofs!CommandsAreTransactions` | the commands implement `Lifecycle` | not `Overlap`; none of `Rollbacks` in `Faults` |
| `ExportMaterialProofs!TypeCorrect` | `Spec => []TypeOK` | `ExportAssumption` |
| `ExportMaterialProofs!RaceHasOneWinner` | `Spec => []OneWinner` | |
| `ExportMaterialProofs!OnlyInventoried` | `Spec => []PublishedIsInventoried` | |
| `ExportMaterialProofs!NothingStays` | `Spec => []NoResidue` | the property itself excludes a removal that fails |
| `ExportMaterialProofs!ExportIsAtomic` | the calls implement `AtomicPublish` | any number of calls, any faults |
| `DistributionProofs!TypeCorrect` | `Spec => []TypeOK` | the assumptions of the four modules |
| `DistributionProofs!AcceptedUnpacksAnywhere` | `Spec => []AcceptedIsPortable` | |
| `DistributionProofs!MembersApart` | `Spec => []ExtentsDisjoint` | |
| `DistributionProofs!ReadersSeeTheSame` | `Spec => []ReadersAgree` | |
| `DistributionProofs!OnlyTheBuilt` | `Spec => []VerifiedIsBuilt` | |
| `DistributionProofs!SdistVerdictIsRight` | `Spec => []SdistVerdictIsExact` | |
| `DistributionProofs!UploadsDoNoHarm` | `Spec => []UploadsAreHarmless` | any number of uploads and commands |
| `ReleaseGuardProofs!TypeCorrect` | `Spec => []TypeOK` | `ReleaseAssumption` |
| `ReleaseGuardProofs!AssetsFollow` | `Spec => []AssetsFollowPackages` | any number of runs, releases and faults |
| `ReleaseGuardProofs!PublicIsComplete` | `Spec => []PublicIsPackaged` | |
| `ReleaseGuardProofs!GreenIsPublished` | `Spec => []GreenMeansPublished` | |
| `ReleaseGuardProofs!PublishedOnce` | the workflow implements `Publication` | |
| `ProjectValidationProofs!BudgetHolds` | `Spec => []WorkIsBounded` | `ValidationAssumption` |
| `ProjectValidationProofs!VerdictIsCorrect` | `Spec => []VerdictIsExact` | `ValidationAssumption` |

The arguments:

* **The group is gone.** `GroupGone` speaks of the last state only. The inductive invariant follows the supervisor: while it is not dead it can be signalled, and it dies only of a SIGKILL to the whole group (or while booting, when there is no group yet). So once the bridge has seen it dead, the group is empty and, since new members are forked by members, stays empty (`GroupInv`). A second invariant says that the bridge signals only a supervisor that is not dead, and that a number is reused only after the supervisor was reaped: that is `StrangersAreSafe`. A third one connects the status line, the exit code and the bridge's copy of it; `ResultIsTheExitCode` follows.
* **No code is lost.** `RaiseInv` keeps the reason of every pending exception: a cancellation or a timeout is in the state, an error of the cleanup comes only after its deadline, and the supervisor is alive as long as the loop polls, because until then nobody has signalled its group. So a loop that sees it dead before a status line is impossible, and what remains is a target that was never started.
* **The capture.** The collector keeps one unit more than the bound. The invariant says that what is kept is the smaller of what was read and that bound plus one, and that the flag is set exactly when more than the bound was read; at the end of file what was read is what was written, and a thread that was joined within the deadline has seen the end of file.
* **The contract.** With these invariants every step maps to a step of `BoundedRun` or to a stutter. `Release` is its `Settle`, and needs that the group is empty and that a returned code is the real one.
* **The job.** `JobInv` ties the job to the place in the call: from before `Popen` until the close the bridge holds a limited job, what runs is in it, and outside of it there is at most the suspended target, which is assigned or killed before the cleanup begins. So every way out closes a limited job, whichever calls failed before; `Settle` finds nothing alive, suspended processes included, which is what `BoundedRun` asks. `ResultInv` follows the exit code as for POSIX; nobody is terminated before the polling loop is over, so a target found dead by a poll has exited by itself.
* **The last intact state.** Which directory holds it is not fixed: with overlapping runs each rename may move it, and a run may publish over another's backup. The proof counts instead of naming. `TokenInv` says that there is always at least one intact directory more (the root, or a backup) than runs that have published and may still take a root or a backup away. A publication adds one to both sides, a rollback or the end of a run takes at most one from each, and moving a root aside and back changes neither. Finiteness of `Runs` lets the count be taken; a backup that is deleted in part would be a backup that is not intact, which is why that fault is excluded.
* **One command at a time.** `EveryEndIsReported` needs only what each step has printed so far (`Reported`): nothing before a step that may print, one report behind a check that failed, and no report or one on the way through the rollback, where none is left only to a run that moved a root aside and could not delete it (`install.py:832`). It holds for any overlap and any faults. The other two speak of `Overlap = FALSE`. `Removing` says what an uninstall has on the disk at each of its steps: the root or the quarantine is intact until the deletion starts, and by then the copy holds both files. `Publishing` says the same of an install or an upgrade (which of root, staging and backup is the old state and which the new), and `Ending` what a run that is over leaves; together (`Commanded`) they fix the disk at each step, so a command maps to one step of `Lifecycle`, taken when its outcome is settled. `Frame` carries what the other runs, which are not under way, have on the disk. `Rollbacks` ("restore", "drop_backup", "drop_copy", "crash") are excluded here because each of them does lose the transaction: a rollback that fails leaves neither state at the root.
* **The exports.** `OneWinner` speaks of what two calls have reported; the invariant says where the evidence is. `Accounted`: an export at a destination is that of the job named in it, which has got beyond its rename with a complete inventory of that tree, within the byte limit, after a native run that succeeded. `Reported`: a job that says "done" is the one named at its destination, and what a job still has on the disk (staging directory, temporary directory, a probe's export) is fixed at each step unless its last removal raised. The rename takes effect only on a place that is absent or an empty directory, so an export is never replaced, and two jobs cannot both be named; only a probe takes its own export away again, in part if the removal fails. For the refinement, `Shown` follows the inventory: what was looked at has no link and no empty file, and the bytes counted so far are a running sum of the sizes (`Sums`), extended by each entry. `AtomicPublish` states its limit by that running sum over the whole tree, so that at the rename the two meet. The number of files is bounded on the way (`Shown`) and does not change after the rename (`FewEnough`), which gives both limits in `PublishedIsInventoried`.
* **The members.** Both readers accept only after a loop that keeps, for every member so far, its key and whether it is a file. The invariants say that the keys are those of the members before `place`, all different, and `BelowFile` at the end excludes an ancestor in any order. Extents follow from `RecordEnd`: a payload and its descriptor end at most where the next record or the directory begins, so members do not overlap whatever their order in the directory. `ReadersAgree` needs that the raw scan and `zipfile` have been bound entry by entry, and then that each local header, or its descriptor, states the values of the directory. `VerifiedIsBuilt` rests on a manifest that, if intact, has the digests of the first build, because it is only written once and never after a change.
* **The sdist's verdict.** `WellFormed` knows nothing of positions or counters: it names the headers of a stream by number (`HeaderBlock`, a recursive function) and asks that after n of them only zeros follow, and that these n are as they should be. `SdistInv` says that there is a number n of headers behind the scan such that its position is the n-th, its pending path is the one the last of them announced, its total is their `Bytes`, and its keys are those of the members among them (`Read`, `Collected`); `Listing` maps each entry of the member list to its header. Then each early return of `_preflight_sdist_raw_headers` and of the loop contradicts a conjunct of `WellFormed`, for any number of headers the stream may be cut into (`Shorter`: the scan is never past the end of a sound stream), and coming to the end establishes all of them. That rounding a payload up to blocks is adding the blocks it begins is `BeyondIsAfter`. A recursive function is known to the provers only once it exists; that is argued by the least argument at which it would not.
* **Uploads.** That a directory verifies again needs that a reader comes to the same verdict when it runs again, from whatever its variables were left at. `WheelAccepted` is a condition on the file alone: there is an end record at which the search has to stop (`IsTheEnd`), and the checks of every pass hold of it (`Fits`). They are the definitions of `WheelScan` and `ArchiveMembers` themselves, instantiated at that record and at each place of the list with the keys and the running sum before it (`At`, `Seen`). `ReadInv` says that a reader that accepted has established `WheelAccepted` and that one that refused has refuted it; for sdists `SdistInv` says so of `WellFormed`. So a manifest is only written where both hold, and as no step changes them (`FileOnly`), no later run refuses. `UploadInv` adds that a directory with nothing but uploads has the built files and sidecars of theirs, which is what `Listed` accepts.
* **The release.** Every check of the guard is stale by the time it is used, so the invariant may only say what other runs cannot undo. `Monotonic` is that part: a file on PyPI or in a release is never replaced, a release never goes away or stops being public. `Located` is what a run has seen and can therefore rely on: the release of its snapshot exists; since the job "assets" PyPI holds exactly its build; before the call that makes the release public, the release does too. An upload then adds a file that PyPI has under that name, and a publication makes public what PyPI has in full. Overlapping runs with different builds are no special case: a run whose build is not the one on PyPI never reaches "assets". The refinement follows, since all public releases hold the same files.
* **The budget.** `WorkIsBounded` is not inductive, because each graph may exceed a limit by one. The invariant adds the slack that is left: a walk that goes on is within the container budget, and the graph under inspection has not used its one excess.
* **The verdict.** `Exact` says that an error that was noted is one of the document, and that a walk that goes on has a complete account of what it has visited. There is a set V of visited cells such that: V, with the cells that wait, is closed under holding, each of them once (`Traversal`), and since a document is a tree the walk has been everywhere when nothing waits (`AllVisited`, by the least cell that was not visited); the counters are the numbers of containers, and of entries in the lists of the graphs in V up to the place where the walk stands (`LookedAt`); and if no error was noted, every graph in V but the current one is as it should be, and so is the current one up to that place (`Clean`). A limit is exceeded only when the entries looked at are more than the limit, and they are among those of the document, so leaving a loop early cannot invent an error. That two nodes have the same name exactly when there are fewer names than nodes is `DistinctNames`.

Only model-checked: all liveness (`Terminates`, `WalkEnds`, `CommandsEnd`, `EventuallyPublic`, `TurnsGreen`), which is beyond this prover. Every other property of the passing runs is a theorem. Where an induction was needed and could be said of a set of numbers, the proofs argue by its least element instead (`Least`).

## 5. Where the code and its description differ

Shown by a run:

* `native_drains`: `_PipeCollector.finish` calls `stream.close()` when its thread is still reading (`bridge.py:63`). `close` waits for the lock the blocked `read` holds, so the bounded second `join` and its error are not reached: a process that left the group and keeps a pipe delays the call for as long as it lives. The method is documented as using "bounded pipe drains" (`bridge.py:437`).
* `managed_lost_state`: `shutil.rmtree(backup)` is inside the `try` whose handler rolls back (`install.py:832`). If it fails half way, the verified new state is discarded and what is left of the backup is put in its place (`install.md:121-122`).

Seen while modelling, without a run of their own:

* An error diagnostic is looked for in the captured output, which ends after 131072 bytes (`bridge.py:780`); beyond it an error does not fail the export (`docs/architecture.md:67-70`). `PublishedIsInventoried` therefore speaks of the captured output.
* On Windows the bridge may die after it has created the target and before it has assigned it to the job (`bridge.py:458-459`): the suspended process stays for ever, although nothing of it ever runs. The docstring of `_WindowsJob` says that it owns the tree "from its first instruction", which is true.
* `killpg` reaches the group only: a descendant that calls `setsid` survives (`bridge.py:126`; `README.md:91-92` speaks of the complete native process tree). `NativeRun` has it as the fault "escape", and `GroupGone` speaks of the group.
* An empty directory created at the destination after the check is replaced by the rename (`bridge.py:552, 807`; `README.md:97`). `AtomicPublish` allows it.
* The edition of the project that is validated and the one the native executable loads may differ (`bridge.py:758, 766`; `README.md:95`). `ExportMaterial` records both in `checked` and `used`.
* When the backup cannot be deleted the exception leaves `main` without a JSON result (`install.py:833`), which the docstring of `main` promises ("emit exactly one JSON result", 891). `ReportsOnce` names this end as the only one without a result; its theorem holds with that fault and every other.
* A probe whose temporary directory cannot be removed raises an error of the removal after an export that succeeded, and leaves the directory beside the project (`bridge.py:698-707`). `NoResidue` says that this is the only way it leaves anything.
* Between its two renames an upgrade has no root; a crash there leaves only the backup, which no command looks for (`install.py:478-482`; `install.md:121`). `NeverLosesState` says that the state is still on the disk, not that it is still the root.
* An uninstall that overlaps another command can remove a root it did not verify (`install.py:853, 508`; `install.md:197-198`).
* `find_release_by_tag` prefers drafts to a public release (`release_guard.py:1837-1838`), its docstring says the oldest release (1831-1832). With two drafts and a lost response to the publication, the left-over draft is resumed by every later run, and none ends green although the version is public. `TurnsGreen` therefore assumes that there is one draft; `EventuallyPublic` does not.
* An asset whose upload was cut short keeps the state "starter", which the guard neither accepts nor deletes: the release waits for somebody to delete it (`release_guard.py:1448`). The liveness run has no cut uploads.
* `verify_pypi_publication` is documented as accepting absent or complete (`release_guard.py:1383`) and returns "partial" too (1424), which the preflight accepts (2134-2145).

A result that is not a difference: dropping one of the completeness checks of the release alone (accepting a partial PyPI in `finalize`, or a draft with a missing asset) breaks no property, because each is made again elsewhere. The comparison of digests with PyPI is what carries the safety properties: without it, three of them fail.

## 6. Not modelled

* The rename of `ExportMaterial` and `ManagedState` is POSIX's; Windows refuses some of what it replaces.
* **Configuration and discovery**: reads the environment once and keeps no state; containment in the allowed roots is `Path.resolve` and `relative_to`.
* **Distribution validation**: which characters make a name unsafe, NFKC and case folding, checksums, octal fields, PAX record syntax, and what the metadata says (`_validate_metadata`). These are verdicts on one field, given by constants or fields of the input.
* **Release detection** and release-please: one comparison; the model starts where a release is needed.
* **MCP server and skills**: a composition root. Queueing, cancellation and draining are dcc_mcp_core, of which the repository has only the dependency; cancellation enters `NativeRun` as the action `Cancel`.
* **Developer tools, CI**: sequential scripts without state.
* Corners of the archive readers: a zip64 locator that is hidden in a comment of the end record (`ZipEnd` looks for the record alone), and a ustar prefix together with an empty name (`TarInfo`, `SdistBind`).
* Texts: messages, report layout, the wording of errors; timeouts as numbers (a deadline is an event that may come at any time); JSON and TOML parsing.

## 7. Plan

Done, in this order: `NativeRun` with its contract and proofs; `ExportMaterial` with its proofs; `ManagedState` with its proofs; `ReleaseGuard` with its proofs and its refinement; `ProjectValidation` with its proof; `Distribution` with both readers and its proofs; `WindowsRun` with its proofs and its refinement; the refinements of `Lifecycle` and of `AtomicPublish`, and the exact verdicts of the project walk and of the readers, with `UploadsAreHarmless`.

Next:

1. Composition of `ExportMaterial` with `BoundedRun` as two modules of one specification, and of `ManagedState` with the readiness export.
2. The release commands that the workflow does not use (`capture`, `verify-assets`), and release detection as the step before the first job.
