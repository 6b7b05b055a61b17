# Verification of the programs of MSYS2-packages

The repository holds some 590 package recipes (`PKGBUILD`, patches, `.install`
scripts).  Most of that is data: instructions to build other people's programs.
The code of its own is small and spread out: one C program, the scripts that build
and publish the packages, the scripts that run on a user's machine, and the patches
that MSYS2 itself wrote for pacman and the runtime.  This project is about that code.

`PROJECT.json` maps every definition to the lines it models and lists the runs, the
mutants, the findings, the hazards and the theorems.  Run a configuration with

    tlc -config scan.cfg MCLockingProcesses      # TLC, one configuration
    tlapm LockingProcesses_proofs.tla            # the proofs of a module

## 1. Inventory

| component | state it keeps | operations | what is hard | what makes it correct |
|---|---|---|---|---|
| `msys2-unlocker/main.c`, scan | list of locking processes (`GlobalState`), pid buffer, scratch buffer, last error of the thread | `EnumerateLockingProcesses`, `EnumerateOpenProcessModules`, `FilterConflictingModule`, `UpdateState`, loop of `main` | processes start, exit and (un)load modules between any two calls; one buffer read and written at once; the last error is shared by all calls; a cached list | what is listed did lock a file; what locks one all along is listed; the list changes when and only when the answer does |
| `msys2-unlocker/main.c`, arguments | `Arguments` | `ParseArguments`, `FilenameToLongFilename` | two passes that must agree on sizes; early returns | the names stored are the names given |
| `msys2-unlocker/main.c`, splash | `InterfaceState`, shared by two threads; a message queue | `InterfaceStateInit`, `SplashThread`, `SplashWndProc` | handshake with a timeout, timer and paint messages, exit while the thread draws | main goes on only when the UI stands or the time is over; the pictures come in order |
| `.ci/ci-get-build-order.py` | package table, processed marks, result | `list_packages`, `get_pkginfo`, `get_build_order` | names that collide, cycles, a pool of threads | every changed package once, after its dependencies |
| `.ci/ci-build.sh`, `fetch-validpgpkeys.sh` | list of packages, directory `B`, local repository, installed packages, artifacts | build loop, install, uninstall | any step may fail; state left by one package for the next | each package is built clean, on its new dependencies; what is uploaded is usable |
| `ca-certificates/certdata2pem.py` | parser state, certificate map, trust map, output files | parse, legacy trust, p11-kit files | multi-line values, order of objects, flags that override one another | a distrusted certificate is marked so, a trusted one is what the text says |
| `ca-certificates/update-ca-trust` | extracted bundles | `p11-kit extract` and copies | - | straight-line script |
| pacman core update (`pacman/0011`, `0033`) | targets of the transaction, list of processes | `core_update`, `kill_all_other_msys_processes`, `sync_trans` | processes that start while the list is made; upgrade in two phases | core packages are replaced alone, and no process of the old runtime survives |
| runtime, `0035` | pid list | `exit_process`, `exit_process_tree`, `kill_via_console_helper` | processes spawn after the snapshot; timeout against a late helper | all descendants are signalled; the result tells the truth |
| `update-patches.sh` (runtime, pacman) | patch files, `PKGBUILD`, git index | the whole script | a failure between two steps | the `PKGBUILD` lists the patches there are |
| first start: `filesystem/profile`, `*.post` | files under `/etc` and `/home` | post-install scripts | several first starts at once, interrupted ones | what is said to be ready is; what a shell has set up itself stays |
| `filesystem/msys2_shell.cmd`, `start`, `shell` | option variables, count of shifted words | option loop | quoting | what is left goes to the shell |
| recipes, third-party patches, workflows, `genrc.py`, `makepkg-mingw` | - | - | - | data, declarations or stateless |

How they interact: `main` of the unlocker parses its arguments, starts the splash thread
and then scans for ever; the threads share `InterfaceState` and an event.  The build
script reads the order the Python program prints through a process substitution, and
talks to pacman through a repository in a directory that the workflow uploads in the end.
`certdata2pem.py` writes what `update-ca-trust` has p11-kit extract later.  Login shells set
up an installation that they find new; pacman refuses packages the keyring made there does
not vouch for, and `core_update` ends the shells, in the middle of their set-up too.  The
runtime ends trees of Windows processes with `exit_process_tree`.

## 2. What is modelled

| module | code | state and actions |
|---|---|---|
| `LockingProcesses` | `main.c`: 345-600, 710-760, 1083-1095 | The variables are the locals of `EnumerateLockingProcesses` and `EnumerateOpenProcessModules`, the list in `GlobalState`, and the thread's last error.  One step is one Windows call with the code up to the next: `EnumProcesses*`, `OpenProcess`/`OpenFails`, `Modules*` (one attempt at `EnumProcessModules`), `Filter*`, `Record*` and `KeepList`/`ReplaceList`/`ReallocFails`.  `Environment` is the other processes.  The list buffer is one sequence, as the two pointers of the code alias; entries that this scan has not written are `Junk`.  `stack` counts the DWORDs the attempts have taken, so that the loop, which runs past the last array, is seen to come to the earlier arrays and then to the scratch buffer (`InScratch`, `Overwritten`).  The check of that buffer is arithmetic modulo `SizeModulus`; `alloca` is counted against `StackLimit`. |
| `LockMonitor` | none: what `main.c` promises | The abstract specification of the scan: a look at the processes begins, they change, and a list is published that names everyone who was sure to be found and nobody without a reason; or the look is given up, or the list lost.  `ImplementsMonitor` of `LockingProcesses` is this specification under a refinement mapping. |
| `UnlockerArguments` | `main.c`: 245-345 | An argument is a switch or a file with the lengths of its name and of its full path.  One action for each kind of argument and pass. |
| `SplashThread` | `main.c`: the splash window, 955-1012 | Two threads, the event, the timer and the window's messages.  `h_splash_wnd` starts unset, as in the code.  A picture is an image, `NULL` where GDI+ could not decode it (the status is ignored at 792, and 856 draws nothing), or unset; without the first picture the window may have no inside and is then never painted. |
| `Unlocker` | `main.c`: `main`, 1052-1096 | The parser, the splash thread and the ways `main` ends, composed as `main` calls them: refused arguments, an interface that fails, help, the loop.  The scan itself is one step that changes nothing here. |
| `BuildOrder` | `ci-get-build-order.py` | `StartReading`/`EnterAlias` are the threads that enter a package under its names, one dictionary assignment at a time; `Descend`/`Skip`/`WarnCycle`/`Ascend` are the recursive walk with its stack written out.  The walk takes names in any order; the code sorts, so its order is one of these. |
| `CIBuild` | `ci-build.sh`, one command of it `fetch-validpgpkeys.sh` | Extends `BuildOrder`: the build script runs the Python program and reads its order.  One action for each command that changes files, the repository or what is installed; `Fail` is any of them failing. |
| `CertData` | `certdata2pem.py` | A parser that takes a line at a time, then one action for each object.  The maps are functions of the objects read. |
| `CertText` | none: `certdata.txt` | A text read as a whole: its objects, said without a parser, and what makes it well-formed (`WellFormed`). |
| `ExitProcessTree` | `msys2-runtime/0035`: `exit_process.h` | The snapshot in any order, the passes over it (`PassOver`, `SignalMsys`, `AddPid`, each with the loop's `Advance`), then the list from its end: `Open`, the methods of `exit_process` one after the other, `Terminate`.  Meanwhile processes end, spawn others and take over the ids of those that have ended, and helpers that were given up finish late. |
| `FirstStart` | `filesystem/profile`, `05-home-dir.post`, `07-pacman-key.post` | Where each login shell is in the set-up, the home directories, which of them hold the skeleton, and how far the keyring has come.  The test for a home directory and `mkdir -p` are two steps (`LookForHome`, `MakeHome`), as are the guard of the keyring and the two halves of `pacman-key --init`.  `home_part` and `keyring_part` remember whether a shell found a part there, has done it itself, or failed in it. |
| `CoreUpdate` | `pacman/0011`, `0033` | Which version of the runtime each process has loaded, the lock, and for each pacman its transaction and its list of processes.  `CountEntries` and `ListProcesses` are the two passes over `/proc`. |
| `Installation` | the two above | Composes them: the shells of `FirstStart` are the processes that `CoreUpdate` ends, and nothing is installed unless the keyring is trusted. |

`MC*` modules hold the inputs for TLC, `*_proofs` the theorems, `Progress` what the
proofs that loops come to an end have in common.  Definitions whose comment
begins with "Mistake" are wrong on purpose: each is a plausible slip in the code that one
of the properties must notice, and none is used by a specification.

### Environment and external code

Windows, git, pacman, makepkg and openssl are modelled by what the code relies on.
`EnumProcesses` returns each process once in any order; a process id is not reused while a
handle to it is open; `EnumProcessModules` fails with `ERROR_PARTIAL_COPY` for some
processes and otherwise writes what fits.  A snapshot of the process table holds who runs at
that moment, in any order.  `pacman` fetches a package if its database lists it and the file
is there.  Any command may fail.

`CoreUpdate` takes each pass over `/proc` for one reading of who runs at that moment; opening
`/proc/<pid>/winpid` succeeds exactly for processes that are there; and a Windows id that
becomes free between the list and taskkill is not taken by a process outside MSYS2.  What is
written past the end of `args` may end the program or do it no harm.

`certdata.txt` comes from NSS, and `certdata2pem.py` tests nothing of it.  `TextsAssumption`
of `CertData` says what it relies on: one `BEGINDATA`; the lines of a multi-line value are
octal digits and comments up to its `END`, and there are digits; an object begins with its
class and has no field twice; certificates and trust have a label and a serial number.
Each part is needed: without it the program ends in an exception or makes other objects of
the text.  TLC evaluates it on the texts of the run `certdata`.  Of the recipes `BuildOrder`
assumes that the names in them are finitely many (`FiniteNamesAssumption`), which only the
theorem that the program comes nearer to its end needs.

## 3. The runs

| run | question | properties |
|---|---|---|
| `scan` | Is the list right while processes come and go, cannot be opened or walked, handles are two words, the loop reads into the scratch buffer, paths overrun it and debug output walks the list; does a scan end; and does the loop implement `LockMonitor`? | `TypeOK`, `CompactionIntact`, `EntriesWereLocking`, `SteadySmallFound`, `ListSound`, `ReallocOnlyOnChange`, `ScanEnds`, `ImplementsMonitor` |
| `unlocker` | Do two passes with early returns agree with the command line as a whole, does `main` do what it says, and does the splash come up and play beside it? | `UnlockerTypeOK`, `AnswerAsMeant`, `WatchedAsGiven`, `HelpAsAsked`, `SplashInOrder`, `StartEnds`, `SplashPlays` |
| `ci_build` | Is the order right for every graph, cycles included, and every interleaving; is each package built clean, on new dependencies, and is the upload usable, whatever fails? | `CITypeOK`, `EachOnce`, `DepsFirst`, `WarnedOnlyOnCycles`, `ExactlyChangedIfDistinct`, `RepoServable`, `CleanSystem`, `NoStaleDeps`, `UploadClosed`, `SuccessMeansAll`, `BuildEnds` |
| `certdata` | Does the trust written follow the text? | `TypeOK`, `ObjectsAsWritten`, `TrustedOnlyAsSaid`, `DistrustHolds`, `BlacklistHolds` |
| `exit_tree` | Is the list a tree while ids are used again, is nobody else ended, is whoever stays met, and does the call return? | `TypeOK`, `ListIsTree`, `OnlyDescendants`, `SteadyHandled`, `ZeroMeansTerminated`, `TreeEnds` |
| `installation` | Do shells that set up, pacmans that upgrade, and one that ends all the others get along? | `InstallationTypeOK`, `OldRuntimeGone`, `DoneIsThere` |

These hold.  Six runs show where the code does not do what it says:

| run | what it shows |
|---|---|
| `steady_found` | `main.c:386`: the last error is read when no call has failed.  After a process that gave `ERROR_PARTIAL_COPY`, a locking process with more modules than the first attempt has room for is given up and not listed. |
| `list_current` | `main.c:570`: the list is rebuilt only when an entry found differs from the old one.  Processes that have gone from its end stay listed for ever. |
| `changed_built` | `ci-get-build-order.py:63`: a changed package is left out when another changed package provides its name (`uutils-coreutils` provides `coreutils`). |
| `detection` | `ci-build.sh:57`: when the Python program fails, the script reports success, "No changes in package recipes". |
| `kill_ends_all` | `0035-…-Ctrl-C.patch:482`: subprocesses are opened without the right to terminate them, which is asked for only when that is refused, so SIGKILL leaves those running that could be opened at once: a process that the killed one has spawned runs on. |
| `ready_when_said` | `07-pacman-key.post:3`: the guard asks for the directory that `pacman-key --init` makes first.  A second login finds it while the first is still at it, passes, and says "Initial setup complete. MSYS2 is now ready to use." (`profile:164`) with a keyring that cannot be used.  A set-up that was ended leaves the same to every later one that is taken up, and a home directory whose files were not copied yet (`05-home-dir.post:215`) does too. |

Seen while reading, without a run of their own: `args.action` is read at `main.c:1078`
but only some switches set it (`UnlockerArguments` starts it at any value, and
`HelpAsAsked` says when that value decides); the name of a file is stored in full but the
place of the next is reckoned from the shorter name given (`main.c:325-326`), so that it
overwrites the end of the one before (`WatchedAsGiven` therefore speaks of the names only
when all files are given in full; `NamesIntact` without that is false of the code);
`--console` is in the help (`main.c:231`) but the parser knows `--tui` (285), so it is taken
for a file; `--query` is to "list locking processes and exit" (224), and the loop of `main`
never looks at it; the wait at 1007 compares its result with `INFINITE`, so the timeout is
never noticed (`StartEnds` holds all the same); `ci-build.sh:155` is
never reached; the branch at `certdata2pem.py:265` raises a `TypeError`, bytes not being
text (`CertData` models that as the end of the program); `/proc` may have outgrown the
arguments counted for it when it is read again (`0011-Core-update.patch:205`);
`num_processes` is increased once more after the list of pids is complete (`main.c:528`), so
that the loop reads 512 DWORDs that this call has not written, most of them beyond its array.
`TypeOK` says how far it gets: with `kProcessIncrement` no larger than the scratch buffer
(`SizesAssumption`; 512 DWORDs and 4096 bytes in the code) it stays within what the function has
taken off the stack itself, and `EntriesWereLocking` what it makes of the numbers found
there: whatever is taken for an id is opened and looked into like any other, and only an
entry read from under a path being copied (`astray`) may be reported under another id.

### Bounds, and why they are enough

- `scan`: two process ids, two changes of the process table in a behaviour,
  increments of 2.  Two ids and two changes are what reuse of an id takes (one exits,
  another starts under its number), and what it takes for one process to disturb the
  handling of another (a last error, a shared buffer, a list with something after the
  entry compared).  A process has up to two modules of two words each, so that it fits the
  first attempt or does not.  `StackLimit` lets a few attempts happen before `alloca` runs
  out.  `ScratchSize` of 4 bytes and `DwordSize` of 2 hold two names or as many ids as the
  loop goes too far, so that ids are read from the buffer, and from under the paths in it.  The loop of `main` is not bounded: any number of scans
  follow one another.  `MaxChurn` also bounds other processes for `ScanEnds`, which the
  stack would end too.
- `unlocker`: up to three arguments and two files stand for 32; too many, too long and
  `--help` between files all occur; a file is given in full, by a shorter name, or by one
  that is too long.  Three frames stand for eighteen: a first, whose picture gives the window
  its size, a last, with which the page is opened, and one between them that is treated like
  all the others.  Any of them may have no picture.
- `ci_build`: all graphs of three packages with at most two dependencies each by any of
  four names, all subsets changed, two threads.  Three packages make every cycle
  (of one, two and three), a shared dependency and a chain; a package the system needs, one
  of the list not to be installed, and a split one are among them.
- `certdata`: every combination of four marks for three purposes, before and after the
  certificate; triples of seven objects that share labels, serial numbers or file names;
  in two layouts, with a value over two lines and a comment between them.
- `exit_tree`: three processes and three ids, so that one can take over the id of
  another while the third looks on, and a main process whose dead parent's id is in use
  again; one of the three may be an MSYS process, leader of its group or not; room for four
  ids, which the cycle of ids fills; one late helper at a time.
- `installation`: two shells, two pacmans, the runtime and one other package, two
  versions.  Two pacmans are what it takes for one to be ended by the other in the middle of
  a transaction, two shells for one to look at what the other has half done.
  `OtherEntries = 0` lets `/proc` outgrow the room counted for it.  Of versions there is one
  to come, so that a second pacman installs the same one at most; that a runtime upgraded
  once more does no harm is left to the theorem, which is for any number of versions.
  `ready_when_said` has the one package that matters to it.  Shells are alike, and
  pacmans are: the two runs use both symmetries, which is sound, their properties being
  invariants and an action property that treat them alike.

No other run uses symmetry.

### Fairness

`FairSpec` of `LockingProcesses` has weak fairness of the program only: its thread is
scheduled; other processes need do nothing.  `UnlockerSpec` assumes the same of both threads,
that timers come due, and that messages due are served; nothing is assumed of the loop of
`main` returning.  `CIBuild` assumes that the programs run on and the commands they
call return; which of success and failure a command has is open.  `FairSpec` of
`ExitProcessTree` assumes that the calls return, as they do: a helper is waited for ten
seconds at most.  `Installation` promises nothing that must happen in the end: any process
in it may be ended, and a user may never answer.

## 4. What is proved

Every theorem is for all values of the constants that meet the `ASSUME`s of its module: any
number of processes, ids, packages, threads, arguments, frames, versions, any size of the
buffers.  `PROJECT.json` lists them with what each says.

`LockingProcesses_proofs`

- `TypeCorrect`: `TypeInv` adds to `TypeOK` where the loop is: `locking_count`
  is less than `i`, `i` at most one past the bound, the entries recorded are numbers read, and
  the one a handle is open for is a process id.  The bound itself is the number of
  live processes, less than the last array held, and one increment: it goes past that array
  but, from `SizesAssumption`, not past what the call has taken off the stack.
- `CompactionSafe`: with these, `LayoutInv` is inductive: from `i` on the buffer is as
  listed, because what is written lies before what is read; and what is listed lies in the
  arrays, out of reach of the paths.
- `ScanSound`: `EvidenceInv` follows an entry from the moment its handle is opened: as long
  as it is open the id is not reused, so what the modules say and the path recorded are of
  one process, or that process is gone and there is no path.  Entries read from under a
  path are the exception that `EntriesWereLocking` names.
- `ListIsSound`, `NoNeedlessRealloc`: `ListInv` says that at every
  moment of the loop `old_state_invalid` is false exactly if the entries found so far agree
  with the old list.
- `ScanCompleteForSmall`: `CompleteInv` says that a process that has locked a file all
  along is reported, or ahead in the buffer, or the one in hand; as its modules fit
  the first attempt, the last error of another process is not looked at.

- `LoopImplementsMonitor` is the refinement.  The mapping takes the list of `GlobalState` for
  the monitor's list, the time between `EnumProcesses` and the update for a look.
  `RecordedInv` says that what is recorded of a process that stays is its own path.  Each
  action is shown to be a step of the monitor or to stutter.

`BuildOrder_proofs`: `Invariance` proves one invariant, `IInv`, in every state.  Its parts:
`StackInv` (what is processed is in the result or on the stack, each once),
`DepsInv` (a name of a package being visited is still to do, or the next call visits it, or
it is in the result or warned about), `NamesInv` and `PathInv` (a call is reached from every
call below it, which makes a warning true), `AliasInv` and `RootInv` (if no two packages share
a name, each is in the table under its own, and the outermost call misses none).
From it: `OrderTypeCorrect`, `OrderedOnce`,
`DependenciesFirst`, `WarningsTrue` and `ChangeIsOrdered`.

`CIBuild_proofs`: `OrderIsRun` shows that a build is a behaviour of `BuildOrder`, so the
order that is read has all that was proved of it.  `CIInv` says what each command leaves for
the next (`BeforeInv`, `TurnInv`, `RepoInv`, `CleanInv`); from it `BuildTypeCorrect`,
`RepositoryServable` and `TurnsClean`.  `BuildInv` relates the script to the order:
`ListInv` (what is still to build is the rest of the order), `StoredInv` (what is stored is
what the turns so far have built, or part of the next), `UpgradedInv`.  With
`DependenciesFirst` this gives `FreshDependencies`, `UploadUsable` and `SuccessIsComplete`.

`Unlocker_proofs`: `ParserInv` says what the parser knows when it has read the arguments
before `argi` (`Passed`, `Counted`, `Stored`, `Acted`, `Answered`): the second pass comes
only when nothing in the line stops the first, so that it stores as many names as were
counted.  `PlayInv` ties the frames drawn to the pictures there are before the one
that is due, and `MainInv` the way `main` ends to the parser's answer.  From these:
`UnlockerTypeCorrect`, `AnswerIsAsMeant`, `WatchesAsGiven`, `HelpIsAsAsked`,
`SplashIsInOrder`.  `ParserIsRun` says that the program treats the command line as `ParseArguments` by itself does.  `RoomInv` follows the room for
the names: the first pass sums it up, and there is one list of sums (`Sums`) that both what
was reckoned and what is filled are taken from.  `FullNamesFit` shows with it that names
are overwritten only where a file was given by a name of another length than its full path:
if all are given in full, the names fill the allocation exactly.

`CertData_proofs`: `ParserInv` says what the parser holds when it has read the lines before
`at`: the objects of the text that are complete by then, the object in hand, and the bytes of
the value in hand, in the words of `CertText`, which knows nothing of a parser.  That the
bytes taken up line by line are those of the value, and that what is one object of the text
is one for the parser, is induction over the lines; it is done with the least line that would
be an exception, which needs no operator as a parameter.  `ObjectsAreAsWritten` follows for
well-formed texts of any length.  `FilesInv` says that a file holds the entry of one of the
trust objects done so far that have its name, and that each of them has one.  From both:
`TrustIsAsSaid`, `DistrustIsKept`, `BlacklistIsKept`, which assume nothing more of the
objects, and `CertTypeCorrect`, the types of the parser's variables and of what is written.

`ExitProcessTree_proofs`: `TypeInv` has the process table in it, with the ids of running
processes different from one another (`TableOK`), and what is known of the snapshot
(`SnapshotOK`).  `TreeInv` is the list: a pass that has added nothing so far has left
nothing behind (`PassClosed`), and a whole pass of that kind is what ends the walk, which is
why the order of the snapshot does not matter.  `DescentInv` follows ids from the list to
late helpers; `HandledInv` follows the end of the list downwards.  `ResultInv` is about the
return value.

`Installation_proofs`: `TypeInv` needs two parts more, `Bounded` (a version to come is
counted) and `HomesMade` (who goes on has a home).  `RuntimeInv` says that whoever is neither
listed nor the pacman itself has loaded a runtime at least as new as the one it brought:
a process loads what is installed, and versions only grow.  Hence `OldRuntimeIsGone`.
`DoneInv` ties what a shell has done itself to what is there: nobody takes back what another
has made (`Further`), so that two shells at one home or at the keyring do each other no harm,
and neither does one that is ended.  Hence `DoneStays`.

Each proof has one step for every action and the three facts initial state, step and
implication; the last step is temporal.

### Progress

That a loop comes to an end has a part that can be proved: each of its steps lowers a rank,
and nobody else raises it.  A rank is four natural numbers of which the first that differs
decides (`Progress`), and `RanksDoNotFallForEver` says that no sequence of them falls for
ever.  The ranks, and what each step of the program lowers in them:

| theorem | what the rank counts down | who must not raise it |
|---|---|---|
| `LockingProcesses_proofs.ScanComesNearer` | the stack left for attempts at the list of pids; then the entries of the list to look at, the stages of the one in hand, the stack left for attempts at its modules | processes that start, end and load modules |
| `Unlocker_proofs.StartComesNearer` | the stages of the start; the passes and the arguments still to read | the splash thread |
| `Unlocker_proofs.SplashComesNearer` | the stages of the thread; the frames still to draw; whether a timer message is due | `main` |
| `BuildOrder_proofs.OrderComesNearer` | the packages no thread has finished with, the aliases to enter; then the packages not yet processed, the names left to the calls on the stack, the depth of the stack | nobody: the threads are in it |
| `CIBuild_proofs.BuildComesNearer` | the rank of the order while that is made; then the packages still to build, the stages of the turn in hand, the binaries to install and to remove | nobody: failures are steps too |
| `ExitProcessTree_proofs.TreeComesNearer` | the room left in `pids` when the pass began, the rest of the pass; then the ids still to end, the methods left for the one in hand | processes that are spawned and end, helpers that are late |

The theorems are of the form `Spec => [](Rank \in Ranks) /\ Nears`.  With the fairness of
section 3 they are the argument behind `ScanEnds`, `StartEnds`, `SplashPlays`, `BuildEnds`
and `TreeEnds` for every value of the constants.  The last step, from a rank that falls with
each step to the end that is reached, needs that some step of the program is enabled until
then, and `ENABLED` is out of the provers' reach: that step is left to TLC.

Only model-checked are therefore these five liveness properties.  All other properties of
the passing runs are theorems.

## 5. What is not modelled, and why

- `update-ca-trust`, the workflows, `makepkg-mingw` and `genrc.py` have no state or branches
  worth a model.
- `update-patches.sh` is a straight sequence of git and sed commands.  A failing one stops it,
  and the next call asks for a clean tree before it changes anything.
- `msys2_shell.cmd`, `start` and `shell` take option words apart and set environment
  variables for one child; what is hard there is the quoting of `cmd.exe`, which is text.
- Recipes and third-party patches are data.  Patches to other programs whose source is not
  here (most of `pacman/` and `msys2-runtime*/`) would need a model of those programs.
- Of the unlocker: drawing, `--debug`, console handles, and the unused `RestartManager` and
  service code.  Of `ci-build.sh`: diffs and listings that are only printed.  Of
  `certdata2pem.py`: encodings and key material.
- Of the core update: `--print`, `--downloadonly` and another root, replacers and ignored
  packages, hooks, and libalpm itself, which replaces one package after the other.
- Of the first start: devices, mtab and the files copied from Windows, which every set-up
  looks for and makes up for by itself; the settings of `profile`.
- How `get_wow` finds out what machine a process is for is one choice: it fails or does not.

## 6. What could come next

- `exit_process_tree` with several MSYS processes and room for two late helpers.
- A set-up that is taken up again, should the guards of the first start come to ask for what
  the steps leave when they are through: `ReadyWhenSaid` would then be a property that holds.
- What becomes of the stack after a path has run over the scratch buffer.
- The settings of `profile` that each shell reads, if they come to depend on one another.
