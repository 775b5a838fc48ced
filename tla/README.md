# A TLA+ model of cpr, the Codex profile runtime

`cpr` is a small macOS command that runs several instances of ChatGPT Desktop
side by side, one per configured *profile*. It has no daemon, keeps no process
ids on disk and takes no locks: each command reads the kernel's process table,
decides which processes belong to a profile, and acts. Everything that makes it
correct is therefore a matter of acting on what was read a moment ago, while
ChatGPT, the user, the kernel and other `cpr` commands go on. That is what is
modelled here.

## 1. Inventory

| Component | State | Operations | Hard part | What makes it correct |
|---|---|---|---|---|
| stop service (`internal/stop/service.go`) | first snapshot's claim, deadline, the residual loop | `Stop` = identify, revalidate, SIGTERM, wait, force main, wait, force residuals, wait, final scan | every call races the process table; ids are reused | signals only the target's own processes, the ones it identified, in the documented order; a reported success is true; it returns |
| ownership rules (same file) | none | evidence, residuals, foreign ownership, ancestry, other profiles | torn snapshots, cycles of parents, adopted helpers | no process belongs to two profiles; the two passes agree |
| process identity (`internal/process/process.go`) | none | `SameIdentity`, `MatchesMainProcess` | reuse of ids | an id alone is never an identity |
| scanner (`internal/process/scanner_darwin.go`) | none | `SnapshotAll`, `Snapshot`, `FindMain`, `Revalidate` | not atomic; silent omissions | sees what was there throughout the scan |
| id listing and argv decoding (same file) | a buffer | ask, enlarge, ask again, filter; skip and cut | processes come and go between the calls; widths of integers; empty arguments | misses no process of the user; reads the profile flags right |
| signaler (`internal/stop/signal*.go`) | none | `Signal` | addresses an id, not a process | - |
| launch service (`internal/launch/launch.go`) | none of its own | `Launch` = directories, instance check, guard, `open -n`, verification | concurrent launches share directories, settings and the process table | refuses a running profile and leaves its settings alone; starts only on private directories; returns |
| runtime policy guard (`internal/launch/runtime_policy.go`) | the profile's `config.toml` | `codex features disable workspace_dependencies` | a command that times out may have written | only before a new instance |
| command runner (`internal/launch/launch.go`) | the environment of the shell | merge the environment, run | repeated variables, variables without a value | only the profile's proxy and home reach a command, everything else is kept |
| runtime paths (`internal/runtime/paths.go`) | directories under the runtime root | normalise, derive, prepare, resolve | Lstat/Mkdir race; links; lexical and canonical forms; working directories | private, not linked, apart, the same path for launch, list and stop |
| list (`internal/list`) | none | one scan, one report | the scan is not atomic | names what was there and nothing else, or refuses |
| configuration (`internal/config`) | none | load, validate, resolve | where HOME and the working directory matter | one root, wherever a command runs |
| command line (`cmd/cpr`) | none | parse, load, look up, call one service | a word that is an option here and a file name there | the call that was meant, or none; a truthful exit code |
| stubs for other platforms | none | return an error | - | - |

Interactions: the command line loads the configuration and calls one service.
`launch`, `list` and `stop` meet only through the machine: the process table
(read by the scanner, changed by `open` and by signals), the runtime directories
and the profiles' settings. `launch` reads the table with `FindMain`, `stop` with
`SnapshotAll` and `Revalidate`. The hazards of these interactions are listed, each
at its line, in `PROJECT.json`.

## 2. Modules

| Module | Models | Uses |
|---|---|---|
| `ProcessInfo` | `process.go`: what is known of a process, and identity | - |
| `Ownership` | the pure rules of `stop/service.go` | `ProcessInfo` |
| `ProcessTable` | the kernel's process table with everything other programs do to it (external), and the scanner that reads it | `Ownership` |
| `StopService` | one `cpr stop`, composed with the table | `ProcessTable` |
| `StopContract` | abstract specification: what a stop promises, as signals and an answer | `ProcessTable` |
| `LaunchService` | several `cpr launch` at once over the directories, the settings and the instances | - |
| `ListService` | one `cpr list`, composed with the table | `ProcessTable` |
| `LaunchScan` | what one `cpr launch` does with the table | `ProcessTable` |
| `ProfileRuntime` | a session: launch, list, stop, one after the other over one table | `LaunchScan`, `ListService`, `StopService` by INSTANCE |
| `PidListing` | `listCurrentUserPIDs` and its growing buffer | - |
| `RuntimePaths` | prepare and resolve over a disk with links | - |
| `ArgvDecoding` | `processArgs` on the kernel's block, `UserDataDirs` | - |
| `ConfigPaths` | expansion and normalisation of paths | - |
| `CommandEnvironment` | `mergeEnvironment` and the two commands of a launch | - |
| `CommandLine` | `cmd/cpr/main.go` | - |
| `Invocation` | the last four, one in each behaviour | `ArgvDecoding`, `ConfigPaths`, `CommandEnvironment`, `CommandLine` by INSTANCE |
| `MC...` | small instances for TLC | the above |
| `TableProofs` | lemmas: the walk over ancestors, the table and its history, a scan | `ProcessTable`, `TLAPS` and the library's theorem modules |
| `StopServiceProofs` | theorems: whom a stop signals, what its answer means, the refinement, and the ownership rules | `StopService`, `MCOwnership`, `TableProofs` |
| `ListServiceProofs` | theorems: the list | `ListService`, `TableProofs` |
| `ProfileRuntimeProofs` | theorems: the session | `ProfileRuntime`, `TableProofs` |
| `LaunchServiceProofs`, `PidListingProofs` | theorems: launches, the id listing | `LaunchService`, `PidListing`, each with `TLAPS` |
| `InvocationProofs` | theorems: command line, paths, environment, argv | `Invocation`, `TLAPS` and the library's theorem modules |
| `RuntimePathsProofs` | theorems: the directories of the profiles on any disk | `RuntimePaths`, `TLAPS` and the library's theorem modules |

### How the model corresponds to the code

*Processes.* A process is a record `[pid, ppid, start, exe, dirs]`. `exe` is a
model value; the code asks of it whether it is the configured main executable
(`MainExe`) and whether it is inside the app bundle (`Bundle`). `dirs` is the set
of cleaned `--user-data-dir` values in argv, all that the code reads of argv. A
profile stands for the directory derived from its id. `start` is unique; it
indexes `owner`, a history variable that records whose launch a process descends
from. No rule of the code reads `owner`: it says what a signal *should* hit.

*Table.* `window` holds the tables that existed since cpr's last step, the current
one last. Each change by the rest of the machine (`Exit`, `Spawn`, `OpenInstance`,
`Exec`) appends a table; each step of cpr starts a new window. A scan lists the
ids in one table of the window and reads each process in that table or a later
one, so a snapshot may show processes that never existed together. `ScanFaults`
adds what can go wrong without an error: `"read"`, any process may be left out of
a snapshot and any revalidation may fail; `"probe"`, a whole scan may come back
empty, because one of its calls of `proc_listallpids` failed and returned 0.

*Stop.* `pc` is the next call of `Stop` to its inspector or signaler; an action is
that call with the decisions taken on its result up to the next one.

| Action | Code |
|---|---|
| `RefuseRequest`, `ScanFails` | the early returns before the first scan; an error of any scan |
| `Identify` | first scan, `identifyConfiguredProfiles`, `captureOwnershipEvidence` |
| `RevalidateMain` | `revalidateMain` before SIGTERM, and the same check in `forceMain` |
| `SignalMain`, `SignalFails` | `Signaler.Signal` on the main process; no process has the id |
| `AwaitMain` | one turn of `waitForMainExit`, and what `Stop` does when it ends: residuals, timeout, the first check of `forceMain` |
| `Rescan`, `RevalidateResidual`, `KillResidual` | one turn of the loop of `forceResiduals` |
| `AwaitResiduals` | one turn of `waitForResidualExit` |
| `FinalScan` | `verifyFinalState` and `verifyOtherProfiles` |

`claim` is what the code keeps of the first snapshot (`targetIdentity`,
`otherIdentities`, `evidence`), `pending` and `fresh` belong to the residual
loop, `sent` is the history of delivered signals with the process meant and the
process hit, and `result` names the error returned.

*Launch.* Each launcher walks `MakeRoot`, then `Inspect` and `Mkdir` for each of
the four directories, `CheckRunning`, `Guard`, `Open` and `Await`; the steps of
two launchers interleave. `fs` says of each path whether it is missing, a private
directory, one with a wider mode, a link or a file. `since` is a history variable:
the instances that have been running ever since the launcher began.

*Contract.* `StopContract` knows nothing of revalidations, deadlines or residuals. A
stop *settles* on a main process and on neighbours to spare, it *signals* processes
of its own profile (TERM first and once, no main process but the one settled on),
it may *look* again at any time, and it *answers*: stopped only if no main process
of the profile lasted from its last look to its answer and every neighbour was
there as that began. `StopService!Contract` maps `claim` to the settlement, `sent`
to the hits, and every error to one failure; the contract is not mapped to lines
of the code, being what the documents say of it.

*List and session.* `ListService` is one scan (`Scan`) and one decision
(`Identify`); after the scan the table is not read again, so the window stays as
the record of the time the answer is about. `LaunchScan` has the launch's scans:
`Check`, `Open` (the guard and `open -n`) and `Await`. An opened instance appears
through the table's `OpenInstance`, like any other. `ProfileRuntime` runs the three
commands one after the other, each with its own state and nothing carried over
but the table; while a finished command's answer stands, the window is kept.

*Listing and decoding.* `PidListing` has one action per call of
`proc_listallpids`, and `Filter`; integers have the widths `IntMax` and `CIntMax`,
and the conversion to a C int wraps. `since` is a history variable: the user's
processes that have been there since the first call; `hidden` is another: what a
call that failed without an error kept out. Either call of `proc_listallpids` may
return 0 when it fails, and then hides every process (`Estimate`, `ListNothing`); a
negative answer, of the second call, is an error (`ListError`); a user that cannot
be asked for hides that one id (`Filter`). `ArgvDecoding` lays out a
block as the kernel does (path, padding, arguments, environment) and reads it as
`processArgs` does; a symbol stands for a run of characters, one of them for the
text of the flag.

*Paths.* In `RuntimePaths` a path is a sequence of components and the disk maps
physical paths to directories (private or not), files and links. `EvalSymlinks` is
path resolution: as long as a link stands on the way (`Stops`: the first component
that is no directory), and at most `MaxLinks` times, it is replaced by what it
leads to (`Follow`); what is left at the end (`Target`) has nothing but
directories on its way, or is `Missing`, or is `Broken` (a link too many, or a
file on the way). A launch is one step that keeps, when it is refused, what it had
done. Between launches the user deletes, links, moves and opens up what is there.
`IdentityKept` evaluates `ResolveProfilePaths` on every disk that comes about.
`OnlyOwnTouched` holds a step that is a launch of `p` to the four directories of
`p`, so that a launch of A that followed a link into B's directories and changed
only those would break it; its mutant does just that. In `ConfigPaths` a path is
what stands between its slashes, so that `.`, `..`, empty parts and `~` can be
told apart, and nothing is asked of a disk.

*Command line and environment.* `CommandLine` reads one word per step; its
properties compare what was read with what each word means by its position.
`CommandEnvironment` merges the environment of the shell, a sequence of
`[key, value]` records in which keys may repeat and `Bare` entries have no value.

### Assumptions of the model

- Within one window an id is not handed out again: the kernel allocates ids in
  sequence and wraps around. Across windows, reuse is unrestricted.
- The path, metadata and argv of one process are read at one instant.
- A signal does not change the table. The process it hit may end at any later
  moment, like any other, or not at all.
- Main processes do not exec. An unflagged helper of the bundle may exec a program
  outside of it; a program started inside an instance's process tree without a
  flag counts as that instance's.
- The scanner always reports a start time, so the zero-time cases do not arise.
- In `LaunchService`, `FindMain` is one step and finds a running instance; no
  other program replaces a runtime directory during a launch.
- The path that `Snapshot` reads to choose a process and the one that
  `inspectProcess` reads right after it are the same: main processes do not exec.
- `ProfileRuntime` is about scans without silent faults, as `stop_reports` is.
- In `PidListing` the machine has few enough processes that twice their ids fit in
  a C int (`KernelAssumption`; macOS has less than 100,000). An id that changes
  hands between two calls counts as a new process.
- Home directories, roots and working directories in `ConfigPaths` are given by
  the text of `HOME`; without one, the command line stops before.

## 3. What the runs check

| Run | Question | Instance |
|---|---|---|
| `stop_signals` | Whom does a stop signal? `NoForeignSignal`: never a process started for another profile or by hand, nor one that names another directory. `SignalsHitMeant`: the very process identified, though its id may have been reused. `KillDiscipline`: the documented order. `NewcomerSpared`: no main process but the one identified. | ids 2..4, profiles A and B, both scanner faults, windows of 2 tables, 4 processes ever; nothing outside the bundle, so that no helper execs |
| `stop_reports` | Is what a stop reports true? `ReportedAbsent`, `SuccessLeavesNoOwned`, `SuccessLeavesNoNamed`, `SuccessSparesOthers` | no silent faults, windows of 3 tables, a program outside the bundle to exec |
| `stop_contract` | `ImplementsContract`: does a stop keep its promise, a profile that runs twice included? `StopReturns`: does every stop return? | six machines, windows of 2 tables, no exec; weak fairness of `Stop` |
| `stop_blank_scan` | expected violation, see Findings | `"probe"` fault only |
| `ownership_rules` | `AncestryIsReachability`, `EvidenceExclusive`, `EvidenceIsResidual` | every snapshot of three processes with any parents, executable and flags, profiles that run twice included |
| `launch` | `DuplicateRefused`, `RunningSettingsKept`, `DirectoriesPrivate`; `LaunchReturns`: does a launch return? | two launchers, two profiles, six layouts of the disk; weak fairness of each launch |
| `launch_independent` | expected violation, see Findings | an empty disk |
| `list` | `ListedRan`: is nothing listed that did not run for that profile? `LastingListed`: is nothing missing? | windows of 4 tables, 5 processes ever; idle, two profiles, one doubled, one naming both |
| `profile_runtime` | `LaunchTruthful`, `ListKnowsLaunched`, `StopKnowsLaunched`, `SessionCloses`: do the commands agree on who the instance is? | two ids, three machines, other launches of the same profile at any time |
| `pid_listing` | `LastingListed`, `BufferSizeExact`, `ListingReturns`, `TypeOK` | five ids, two users, estimates from none and far too low to right, a failure at any call, with an error or in silence, a Go int of 7 so that growth is refused |
| `runtime_paths` | `IdentityKept`, `IdentitiesDisjoint`, `LaunchedPrivate`, `OnlyOwnTouched` | a root behind a directory that may be a link, a second place, two profiles, five changes by the user |
| `invocation` | Does what a command is given arrive as it was meant? `CallIsMeant` (arguments), `RootIsNormal`, `RootIsStable`, `DefaultsAgree` (paths), `ProxyOnlyFromProfile`, `HomeIsProfiles` (environment), `ArgvExact` (the argv of a process) | every command with up to three of ten words; every raw root of up to three parts, five home directories; every environment of up to three entries over four keys; up to three arguments and three variables, empty strings too |

`Invocation` joins the four modules in which nothing interleaves: each behaviour
takes one of them through its inputs while the others stand still.

*Bounds.* Three ids hold a main process, its helper and either a second helper,
another profile's main process or a newcomer; with four processes ever started
(`MaxBorn`) at least one of them is started during the run and can take an id that
was freed. A window of two tables (`MaxWindow`) is the least that tears a
snapshot; three let a process leave and another arrive during one scan. One sleep
per wait (`MaxPolls`) separates "still waiting" from "deadline reached"; the
deadline itself may strike at any turn, since time is not modelled. The boot
machines are those that lead to different branches: one profile, two, one opened
from a terminal inside the other, two helpers, a helper with two flags, a profile
opened twice. `stop_signals` and `stop_contract` have no program outside the bundle,
so there a helper never execs one; `stop_reports` has one, and the theorems about
signals and the contract (section 4) hold for any.

The other bounds follow the same rule. Four tables in the window of `list` let a
process leave, its children be adopted and two others start within one scan. In
`profile_runtime` two ids are enough for the launched instance and one other, and
three births for the instance to be opened, doubled and replaced. `pid_listing`
needs a machine of more ids than its lowest estimate doubled (five, from an
estimate of one), so that the first buffer is too small; with a Go int of 7 a
buffer of 2 or 3 may be doubled and one of 4 may not. Five edits of
`runtime_paths` (`MaxEdits`) let the user move the root away, put a link in its
place and then rearrange a profile. Three links (`MaxLinks`) resolve every chain
those edits can build, and still end a loop. Three words (`MaxWords`) are
`--config` before an option, and one more to be read after them; three entries
(`MaxEntries`) a variable that is set twice around another; three arguments and
three variables (`MaxArgs`) an empty argument between two others with enough
environment behind it to be read instead.

Snapshots in which a process is silently missing are left out of `stop_reports`
on purpose: with them a stop can report anything (next section), and the run asks
whether the algorithm is right when the scanner is.

*Fairness.* `cpr` is one thread that makes its next call as long as it has one,
and every call returns: `WF(Stop)`, `WF(Launch(l))`, and for a listing
`WF(Answered)`, an answer other than a failure, so that it cannot return just
because the kernel fails at last. Nothing is assumed of the
rest of the machine: instances need not appear, processes need not die, a new
main process may be opened after every scan. `StopReturns` and `LaunchReturns`
hold because every wait has a deadline; their mutants are waits whose deadline
moves. `ListingReturns` holds because the buffer doubles and the machine
does not.

*Exceptions the properties name.* Four properties hold only with an exception that
came out of checking them, and each is a limit of the code worth knowing.
`SuccessLeavesNoNamed`: a helper that is given the id of the stopped main process
is passed over by the residual rule (`service.go:373`). `IdentityKept`: when the
runtime root is removed while an instance runs, and its path went through a link,
`stop` and `list` look for the instance under the lexical path (`paths.go:177`).
`ArgvExact`: an empty argument makes `processArgs` read on into the environment,
which is harmless only as long as no variable begins like the profile flag.
`LastingListed` of `PidListing`: what a call that failed in silence hid is missing,
everything after a failed call for the ids (finding 1), one id when its user could
not be asked for. What remains of it is that the growing buffer never cuts an id
off, whatever starts and ends between the calls, and that a failure hides no more.

### Findings

1. `stop_blank_scan`. `listCurrentUserPIDs` (`scanner_darwin.go:186`) treats a
   size probe that fails as a machine without processes and returns no error. The
   call that fetches the ids is no different: libproc returns 0 when it fails, and
   `pidListResult` (`scanner_darwin.go:226-232`) takes only a negative answer for
   an error, so that a 0 is a complete listing of nothing. Two such scans in a
   row, after SIGTERM and at the end, make `stop` report success over a main
   process that is still running; `README.md:209` and
   `docs/architecture-v0.1.md:258` promise that the final scan verifies that it is
   gone.
2. `launch_independent`. On a fresh root, launches of A and B at the same time
   both find `profiles` missing; the slower `Mkdir` (`paths.go:221`) fails with
   "file exists" and its launch with it, while `docs/architecture-v0.1.md:278`
   wants B to be launchable at the same time.

Also met while modelling, without a run: the check at `scanner_darwin.go:309`
compares `offset > len(data)` where `offset` never passes `len(data)`, so its
error ("returned truncated argv") is never returned. The blocks of the model are
complete, as the kernel makes them.

## 4. What is proved

Thirty-seven theorems, for all values of the constants that satisfy the named
assumptions: any finite set of ids, any executables, directories and profiles,
any boot table, any bounds. Each leaf is checked by TLAPS; each invariant was
checked by TLC before it was proved.

| Module | Theorem | States | Scanner |
|---|---|---|---|
| `StopServiceProofs` | `TypeCorrect` | `Spec => []TypeOK` | any faults |
| | `SignalsReachMeant` | `Spec => []SignalsHitMeant` | any faults |
| | `SignalsDisciplined` | `Spec => []KillDiscipline` | any faults |
| | `SignalsStayHome` | `Spec => []NoForeignSignal` | any faults |
| | `NewcomersSpared` | `Spec => []NewcomerSpared` | any faults |
| | `OthersSpared` | `Spec => []SuccessSparesOthers` | any faults |
| | `AbsenceTrue` | `Spec => []ReportedAbsent` | no silent fault |
| | `OwnedGone` | `Spec => []SuccessLeavesNoOwned` | no silent fault |
| | `NamedGone` | `Spec => []SuccessLeavesNoNamed` | no silent fault |
| | `StopKeepsContract` | `Spec => ImplementsContract` | no silent fault |
| | `WalkFindsAncestors` | `RulesSpec => []AncestryIsReachability` | any snapshot |
| | `EvidenceNeverShared` | `RulesSpec => []EvidenceExclusive` | any snapshot |
| | `PassesAgree` | `RulesSpec => []EvidenceIsResidual` | any snapshot |
| `ListServiceProofs` | `ListingTrue` | `Spec => []ListedRan` | any faults |
| | `ListingComplete` | `Spec => []LastingListed` | no silent fault |
| `ProfileRuntimeProofs` | `ListNamesLaunched` | `Spec => []ListKnowsLaunched` | no silent fault |
| | `StopMeansLaunched` | `Spec => StopKnowsLaunched` | no silent fault |
| | `SessionsClose` | `Spec => []SessionCloses` | no silent fault |
| | `LaunchesTruthful` | `Spec => LaunchTruthful` | no silent fault |
| `LaunchServiceProofs` | `TypeCorrect` | `Spec => []TypeOK` | - |
| | `DuplicatesRefused` | `Spec => []DuplicateRefused` | - |
| | `SettingsKept` | `Spec => RunningSettingsKept` | - |
| | `OpenedPrivate` | `Spec => []DirectoriesPrivate` | - |
| `PidListingProofs` | `TypeCorrect` | `Spec => []TypeOK` | - |
| | `BufferSizesExact` | `Spec => []BufferSizeExact` | - |
| | `ListingComplete` | `Spec => []LastingListed` | - |
| `InvocationProofs` | `CallsMeant` | `Spec => []CallIsMeant` | - |
| | `RootsNormal` | `Spec => []RootIsNormal` | - |
| | `RootStays` | `Spec => RootIsStable` | - |
| | `DefaultsAgreed` | `Spec => []DefaultsAgree` | - |
| | `ProxyIsProfiles` | `Spec => []ProxyOnlyFromProfile` | - |
| | `HomeIsTheProfiles` | `Spec => []HomeIsProfiles` | - |
| | `ArgvRead` | `Spec => []ArgvExact` | - |
| `RuntimePathsProofs` | `IdentityIsKept` | `Spec => []IdentityKept` | - |
| | `ProfilesStayApart` | `Spec => [](RootsApart => IdentitiesDisjoint)` | - |
| | `DirectoriesArePrivate` | `Spec => LaunchedPrivate` | - |
| | `LaunchTouchesItsOwn` | `Spec => OnlyOwnTouched` | - |

`RulesSpec` is the specification of `MCOwnership`: processes appear, change and go
one at a time in any way, so that every snapshot is reached.

*The scanner.* What a command does to processes is proved whatever the scanner
leaves out in silence. What it says of them cannot be: `stop_blank_scan` is a
stop that reports success after blank scans. The theorems marked "no silent fault"
have the hypothesis `ScanFaults = {}`, under which `stop_reports`, `stop_contract`
and `profile_runtime` check the same properties; torn snapshots, reused ids and
everything else the environment does remain.

*Assumptions.* Of `ProcessInfo`: ids are naturals other than 0 and 1, the main
executable is in the bundle, profiles are directories, `Absent` is no process. Of
`ProcessTable`: the ids are a finite set (cpr counts the main processes of a
profile); boot tables are indexed by id, with distinct start times that have been
handed out (`BootAssumption`), and what descends from an instance in them is owned
as `owner` says (`BootOwnerAssumption`, the property `Descent` that the
environment keeps: a child belongs to its parent's owner unless it was opened for
a profile of its own). Of the commands: the target is a configured profile
(`TargetAssumption`), and the claim before the first scan is none
(`NoClaimAssumption`). `LaunchService` and `PidListing` have their own. Of
`Invocation`: strings of argv and of the environment are sequences of symbols other
than the NUL, no variable begins with the profile flag, homes and parts of paths
are such, and a variable without a value is not the profile's home. Nothing is
assumed of the length of any input. Of `RuntimePaths`: the root, the places of the
user's edits and what is on the first disk are paths, and `/` is a directory that
the user does not delete (`PlacesAssumption`, `DiskAssumption`), profile ids are
names, the limit on links is a natural number, and `Missing` and `Broken` are not
paths. Nothing is assumed of the disk itself: its links may lead anywhere, in
loops and to places that are not there, and an entry may even stand below a path
that is no directory.

### The walk over ancestors

`hasAncestryTo` follows parents for at most as many steps as there are processes.
`WalkFindsAncestors` says that this finds every ancestor and nothing else, cycles
included. `Lineage` is a recursive function; `WalkExists` and `LineageLemma` show
that it satisfies its equation, `FoundIsAncestor` that what it visits is in every
upward closed set, `AncestorIsFound` that an ancestor is reached before any id
repeats, hence within the bound. The inductions are by least counterexample: the
set of failing numbers has a least member (`LeastNumber`, from the library's
`WFMin`), which the step refutes. `AncestorsWithin`, what holds of the parent and
is passed on to parents holds of all ancestors, is what the proofs about a stop
use. `EvidenceNeverShared` and `PassesAgree` leave the walk closed;
the former needs no profile to run only once, since evidence for one is never below
the main process of another, whichever was picked.

### The table

`TableInv`: the table has its type, every table of the window is `Keyed` by id,
start times are `Born`, and an id has `OneHolder` within a window. It carries
`TypeOK`, which is not inductive without it.

`HistoryInv` says how tables follow each other. `Aging`: the same start time in two
tables of a window is one process, and the later record is what the earlier one
`Became`: same id, same parent unless launchd adopted it, same executable and
flags unless it is a helper that ran a program outside the bundle. `Unbroken`: what
is there at two moments is there between them. `Families`: every table satisfies
`Descent`. `EnvironmentSucceeds` shows that each change of the environment yields a
table that `Succeeds` the last; `EnvironmentHistory` and `SettleHistory` that the
invariant survives it and the start of a new window. The bridge between windows
is `Known(x)`: whatever now has the start time of `x` is what `x` became, and was
there when the window began.

A scan is related to the window by three lemmas: what it shows was true at some
moment (`ScanSeen`); without silent faults it shows everything that is the same
throughout (`ScanComplete`); hence a main process that lasts is shown
(`LastShown`) and one that is not shown did not last (`NoneLasting`).

### Whom a stop signals

Between the revalidation and the signal the only thing that protects an id is that
both happen in one window, in which it has one holder. So `SignalInv` says that,
when the next call is a signal, the process to be signalled was in the first
table of the present window, with the start time that was revalidated
(`ValidatedInv`). The rest of it ties `pc` to what has been sent (`PhaseInv`) and
keeps `pending` disjoint from what was killed already (`PendingInv`).

Whose process it is needs ownership over time. `OwnInv` adds to `HistoryInv` that
everything a stop remembers in order to signal it (`Remembered`: the main process
and its evidence; `pending`) or has hit (`Hits`) is `Ours`: known, owned by the
target in the history `owner`, naming no other directory; and that no residual is
a main process. The steps that bring in something new are the first scan and each
rescan. `EvidenceOwned` and `ResidualOwned` show that what the rules of the code
accept is owned: a process that names the profile alone was opened for it
(`NamedOwned`); one accepted for its ancestry has the owner of its parent
(`ParentOwned`), and so on up to the main process (`AncestorsWithin`), since another
profile's main process on the way would have made it that profile's. The snapshot
may be torn, so each link is placed in the table in which the child was read, and
`OneHolder` says that the parent shown is the parent there. No fault of the scanner
matters: a process that a scan leaves out breaks every path through it, so that
nothing below it is accepted for its ancestry.

### What its answer means

A success is read off the final scan; `SuccessLeavesNoOwned` and
`SuccessSparesOthers` relate it to the first. `MemoryInv` keeps that scan:
`FirstScan(s)` says that `claim` was made on `s`, that all it showed is `Known`, and,
without silent faults, that `Kin(s)`: a process of it that still runs and was not
adopted still has the parent it had, which still runs and was shown too.
`NoneOwned` is the core: a process that the first scan attributed to the profile
and that lasts through the final scan has no ancestor then that it did not have
before (`StillKin`), so it has not become a neighbour's and is a residual there;
a success, which found none, refutes it. `NeighboursLasted` needs no such argument,
since the final check compares records and a process that was shown later was
there when the window began.

### The refinement

`StepKinds` sorts the steps of a stop into seven: it `Fails`, `FindsNothing`, ends
`FinalOk`, `GoesOn`, `Claims`, `Signals`, or the `World` moves. `ContractInit` maps the
initial states, and one lemma per kind maps it to a step of `StopContract`
(`Finished` stutters):

| Step | Contract | Lemma |
|---|---|---|
| `Claims` | `Settle` | `SettleStep` |
| `Signals` | `Signal` | `SignalStep` |
| `GoesOn` | `Look` | `LookStep` |
| `FinalOk`, `FindsNothing`, `Fails` | the answers | `StoppedStep`, `AbsentStep`, `FailStep` |
| `World` | the environment | `WorldStep` |

The invariants are all of the above with `DoneInv` (an answer ends a stop) and
`HitIds` (the process hit has the id of the one meant). The code keeps ids apart
and the contract processes; `SignalsHitMeant` and `HitIds` carry one over to the
other. `StopContract` has no fairness, so this is the whole of `ImplementsContract`;
`StopReturns` is not part of it.

### List and session

`ListInv` is `TableInv` and `HistoryInv` with: what the snapshot shows of an id was in
some table of the window (`Seen`), and the answer is what the snapshot yields
(`Answered`). Completeness adds `Shown`: a main process that lasts is in the
snapshot. Later tables only make fewer processes last.

`SessionInv` carries one part per command over the whole session, beside
`TableInv` and `HistoryInv`. `LaunchInv`: after a launch that succeeded, `found`
was a main process of the profile in its window, and from the next command on it
is `Known`, so that as long as it runs it is a main process still (`FoundLasts`: it
cannot exec). `ListInv`: the snapshot of the list shows every main process that
lasts through its scan. `StopInv`: after a success no main process has lasted.
The three commands are instances of `LaunchScan`, `ListService` and `StopService`;
`SameRules` and `SameScans` identify their operators with the session's, and
`LaunchKinds`, `ListKinds` and `StopKinds` say all that is needed of their steps.
`ListNamesLaunched` then follows because an answer requires one main process per
profile, and `found` is one of them.

### Launches and the id listing

In `LaunchServiceProofs`, `TypeInv` adds to `TypeOK` where a launch is in its walk
(`Walking`). `SinceInv` says that what a launch remembers as running is running
(`SinceRunning`): so its check finds it. `DirectoriesPrivate` speaks of the moment
of opening only and is not inductive; `Passed` says it of every directory a launch
has gone past, which stays so because no launch makes a private directory
anything else.

In `PidListingProofs`, `TypeInv` adds that the buffer `Fits` a C int and is not empty
when the kernel is asked. It is inductive because the kernel fills no more than it
was given (`FilledLemma`), so a buffer is doubled only when it was full, that is,
no larger than the machine has ids. `ListedInv` adds that what has lasted is still
there and, unless it is `hidden`, among the ids that were returned: a buffer that was
not full has them all, or the call has failed and hidden them (`NothingLemma`; a
failed call is never taken for a full buffer, which has a place at least).

### The parts of an invocation

Each of the four parts reads a sequence of any length with a recursive function,
so each proof is an induction: `SetInduction` and `SequenceInduction`, again by least
counterexample, over a set in place of a predicate. `Recursion` gives a function
defined by its next value, `FoldTyped` that a recursive definition whose steps stay
within a set `Folds` the sequence it reads, and `FoldAppend` how such a fold grows with
one more element. The four parts use these as lemmas on sequences that grow at
their end.

*Command line.* `LineInv` says at each word what has been read so far: the profile,
`--force` and the path given last are what the words before it mean by their
position (`ReadRight`). Which words are paths does not depend on the words that
follow (`IsPathLemma`), so a word adds one of two things: a plain word
(`ReadPlainLemma`) or a path, within the word or behind it (`ReadPathLemma`). When
all words are read this is what `CallIsMeant` asks for (`AllReadLemma`).

*Environment.* `WithoutLemma` says what dropping keys leaves and in which order,
`MergeLemma` what all overrides together leave: the overrides, and of the shell's
entries those neither scrubbed nor overridden. `EnvironmentInv` says it of the
command that was started, for the overrides of the guard and of `open`.

*Paths.* `RootIsStable` needs little: the root that is kept is the one that is
computed (`PathsFixed`), and a working directory matters for a relative home only,
which is refused. Normal form is what `CleanNormal` is about: cleaning yields one and
leaves one as it is. `CleanBelow` says that a normal path hangs below another as it
is, and `DefaultsAgreed` follows for every form the home may have.

*Argv.* `LaidOut` gives the offset of each string in the kernel's block.
`processArgs` reads from one string to the next that is not empty (`NextText`,
`StringEnds`), so that the k-th argument it reads is the string with the number
`p[k]` (`ReadsBy`, `StartsLemma`). `ReadsAll`: none that is not empty is passed
over, and without empty arguments each is read in its place. With empty ones the
last reads are of the environment, whose variables do not begin with the flag
(`NoneFlagged`), so the profile directories are right in any case. `ArgvInv` says that
what was decoded is what these rules read off the block of the argv and the
environment.

### The directories of the profiles

*Resolution.* A path that stands for itself is `Real`: something is there, and only
directories on the way. Resolution yields a real path or fails (`EvalReal`), and
leaves a real path as it is (`RealStays`). At most one component stops a path
(`StopsOnce`), so that the choice in `Follow` is none, and once there is no link
left `Target` does not move on (`TrailStays`). `EvalExtends` is what the rest needs:
on a disk on which there is more, but no other kind of thing at any place, a path that
could be resolved resolves to the same. `EvalBelow` and `MissingBelow` go one name
further down, since a directory is created below what its parent resolves to.

*A launch.* Each step of it either leaves the disk alone or puts one private
directory where nothing or a directory was. `Grown` says of two disks what a
launch may have done between them: the later one extends the earlier, and differs
only at the root, the four directories of the profile and on the missing part of
the way to the root. `MkdirAllLemma` shows it of `os.MkdirAll`, with the extra that
the root is a directory afterwards; `EnsureLemma` of `ensureDirectoryWithin`, which
leaves the directory private with no link on the way, or has refused. `PrepareLemma`
puts the steps together. Because a later step only extends the disk, what an earlier
one made private is so at the end, and what the root resolved to it still does.

*Instances.* `DiskInv`: the disk keeps its form under every edit of the user.
`LaunchedInv`: the identity of an instance is the one derived from the directory
its root stood for. `IdentityIsKept` follows, since resolution can only come to the
derived paths or refuse. `LaunchTouchesItsOwn` and `DirectoriesArePrivate` are what
`PrepareLemma` says of a step that launches one given profile.

`ProfilesStayApart` has a hypothesis. Below one root the directories of two
profiles are apart, links or not. But the user may redirect the root between two
launches, and into a directory of a profile that was launched under the old one:
then the new root, with everything below, is inside that profile's directory, and
no check of a single launch could know. `RootsApart` excludes just that: two roots
that instances were launched under are the same directory, or neither is in the
other. The edits of `runtime_paths` nest no two places, so TLC checks
`IdentitiesDisjoint` there without it.

### What stays with TLC

- Liveness and everything about `ENABLED`: `StopReturns`, `LaunchReturns`,
  `ListingReturns`.
- The counterexamples of the two runs that expect a violation.

Every other property of a passing run has a theorem.

## 5. Not modelled

- The stubs for other platforms return an error and do nothing else.
- `config.Decode` is the JSON library's; the patterns for profile ids and proxies are
  each one predicate on one string, without state, and are tested as such.
- The two output formats of `list`, and all messages.
- The checks of the guard on the files it needs (`runtime_policy.go:19-34`) and
  `ValidateApp` appear as failures only.
- Crashes: `cpr` keeps nothing on disk but the directories and the guard's setting;
  a launch that is killed leaves what one that fails at the same step leaves, and
  that is modelled.
- `validate`'s arguments are read by the `flag` package; only the outcomes appear.
- The composition of the path modules with the process table: a stop whose paths
  are resolved just before the first launch ever creates the root (hazard at
  `service.go:67`).

## 6. Plan

Done: the modules of section 2 and the proofs of section 4. What could come next:
the preparation of `RuntimePaths` step by step, so that a launch may meet an edit of
the user half way, and its composition with the process table (hazard at
`service.go:67`).
