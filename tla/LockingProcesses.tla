--------------------------- MODULE LockingProcesses ---------------------------
(***************************************************************************)
(* msys2-unlocker/main.c: the main thread's endless loop, which lists the  *)
(* processes that hold one of the watched files as a loaded module and     *)
(* keeps that list in GlobalState between the scans.                       *)
(*                                                                         *)
(* One step is one Windows call of the code, with the code up to the next  *)
(* call: between two of them any process may start, exit, or load or drop  *)
(* the watched module.                                                     *)
(***************************************************************************)
EXTENDS Naturals, Sequences, FiniteSets

CONSTANTS
  Pids,               \* process ids the system hands out
  NoPid,              \* a number that is no process id
  Junk,               \* a DWORD of the stack that this scan has not written
  Absent,             \* "no process has this id"
  Kinds,              \* the processes that may run: see KindRecords
  Paths, EmptyPath,   \* executable paths; "" of a process that is gone
  NameLen,            \* strlen + 1 of each path
  ProcessIncrement,   \* kProcessIncrement
  ModulesIncrement,   \* kModulesIncrement
  HandleWords,        \* sizeof(HMODULE) / sizeof(DWORD)
  ScratchSize,        \* bytes of locking_filenames_scratch
  DwordSize,          \* sizeof(DWORD)
  SizeModulus,        \* 2^(width of size_t)
  StackLimit,         \* DWORDs of stack that alloca may take
  MaxChurn,           \* bound: changes of the process table in a behaviour
  MoveSuffix,         \* --move-suffix was given
  Debug               \* the program is built with _DEBUG

KindRecords ==
  [path : Paths, mods : Nat \ {0}, locks : BOOLEAN,
   access : {"ok", "denied", "partial", "fails"}]

ASSUME PidsAssumption == /\ IsFiniteSet(Pids)
                         /\ NoPid \notin Pids /\ Junk \notin Pids
                         /\ Junk # NoPid
ASSUME KindsAssumption == Kinds \subseteq KindRecords /\ Absent \notin Kinds
ASSUME PathsAssumption == /\ EmptyPath \in Paths
                          /\ NameLen \in [Paths -> Nat \ {0}]
ASSUME SizesAssumption ==
  /\ ProcessIncrement \in Nat \ {0} /\ ModulesIncrement \in Nat \ {0}
  /\ HandleWords \in {1, 2}
  /\ ScratchSize \in Nat /\ SizeModulus \in Nat \ {0}
  /\ DwordSize \in Nat \ {0} /\ ProcessIncrement <= ScratchSize \div DwordSize
  /\ StackLimit \in Nat /\ MaxChurn \in Nat
ASSUME FlagsAssumption == MoveSuffix \in BOOLEAN /\ Debug \in BOOLEAN

VARIABLES
  os, churn,                          \* the process table (external)
  pc,                                 \* where the main thread is
  num_processes, stack, processes,    \* EnumerateLockingProcesses: the loop's
                                      \* bound, the DWORDs it has had from
                                      \* alloca, what lies from the array on
  i, locking_count, names, filename_length, old_state_invalid,
  num_modules, frame, listed,         \* EnumerateOpenProcessModules
  lasterr,                            \* GetLastError() of the main thread
  p_allocated, p_locking_processes, num_locking_processes, \* GlobalState
  snap, steady, lockers, astray       \* history, read by properties only

osVars   == <<os, churn>>
enumVars == <<num_processes, stack>>
scanVars == <<i, locking_count, names, filename_length, old_state_invalid>>
modVars  == <<num_modules, frame, listed>>
stateVars == <<p_allocated, p_locking_processes, num_locking_processes>>
histVars == <<steady, lockers, astray>>
vars == <<os, churn, pc, num_processes, stack, processes, i, locking_count,
          names, filename_length, old_state_invalid, num_modules, frame,
          listed, lasterr, p_allocated, p_locking_processes,
          num_locking_processes, snap, steady, lockers, astray>>

-----------------------------------------------------------------------------
(* The process table, as the program finds it through the Windows API.     *)

Live == {p \in Pids : os[p] # Absent}
Locking(table) == {p \in Pids : table[p] # Absent /\ table[p].locks}
Lockers(table) == {<<p, table[p].path>> : p \in Locking(table)}
\* What the program can open and look into, and what it then should report.
Visible(table) == {p \in Locking(table) : table[p].access = "ok"}

\* EnumProcesses promises no order: every listing of a finite set, which has
\* each member once, having no room for another one.
Enumerations(S) ==
  {s \in [1 .. Cardinality(S) -> S] :
     \A x \in S : \E k \in 1 .. Cardinality(S) : s[k] = x}

pid == processes[i]
\* A process id is not handed out again while a handle to it is open.
HandleOpen(p) == pc \in {"modules", "filter", "record"} /\ pid = p

-----------------------------------------------------------------------------
Init ==
  /\ os \in [Pids -> Kinds \cup {Absent}] /\ churn = 0
  /\ pc = "update"
  /\ num_processes = 0 /\ stack = 0 /\ processes = <<>>
  /\ i = 1 /\ locking_count = 0 /\ names = <<>> /\ filename_length = 0
  /\ old_state_invalid = FALSE
  /\ num_modules = 0 /\ frame = 0 /\ listed = FALSE /\ lasterr = "ok"
  /\ p_allocated = FALSE /\ p_locking_processes = <<>>
  /\ num_locking_processes = 0
  /\ snap = <<>> /\ steady = {} /\ lockers = {} /\ astray = {}

-----------------------------------------------------------------------------
(* Other processes.                                                        *)

TableBecomes(p, k) ==
  /\ churn < MaxChurn /\ churn' = churn + 1
  /\ os' = [os EXCEPT ![p] = k]
  /\ steady' = steady \ {p}
  /\ lockers' = lockers \cup Lockers(os')
  /\ UNCHANGED <<pc, enumVars, processes, scanVars, modVars, lasterr,
                 stateVars, snap, astray>>

Start(p, k) == os[p] = Absent /\ ~HandleOpen(p) /\ TableBecomes(p, k)

Exit(p) == os[p] # Absent /\ TableBecomes(p, Absent)

\* A running process loads or unloads modules, the watched one or others.
Reload(p, k) ==
  /\ os[p] # Absent /\ os[p] # k
  /\ k.path = os[p].path /\ k.access = os[p].access
  /\ TableBecomes(p, k)

Environment ==
  \E p \in Pids : \/ \E k \in Kinds : Start(p, k) \/ Reload(p, k)
                  \/ Exit(p)

-----------------------------------------------------------------------------
(* UpdateState                                                             *)

\* Files are to be moved into place and none of the replacements exists.
NoReplacements ==
  /\ pc = "update" /\ MoveSuffix
  /\ pc' = "exited"
  /\ UNCHANGED <<osVars, enumVars, processes, scanVars, modVars, lasterr,
                 stateVars, snap, histVars>>

\* EnumerateLockingProcesses is called: its locals are set.
StartScan ==
  /\ pc = "update"
  /\ pc' = "enum"
  /\ num_processes' = 0 /\ stack' = 0 /\ processes' = <<>> /\ snap' = <<>>
  /\ i' = 1 /\ locking_count' = 0 /\ names' = <<>> /\ filename_length' = 0
  /\ old_state_invalid' = FALSE
  /\ num_modules' = 0 /\ frame' = 0 /\ listed' = FALSE
  /\ steady' = Visible(os) /\ lockers' = Lockers(os) /\ astray' = {}
  /\ UNCHANGED <<osVars, lasterr, stateVars>>

-----------------------------------------------------------------------------
(* The loop around EnumProcesses.  Every attempt takes a new array off the *)
(* stack, which alloca only gives back when the function returns.  The     *)
(* stack grows downwards: behind the last array lie the earlier ones, and  *)
(* behind those, as the first thing that was taken, the scratch buffer.    *)

Room(n) == stack + frame + n <= StackLimit

EnumProcessesOverflow ==
  /\ pc = "enum" /\ ~Room(num_processes)
  /\ pc' = "crashed"
  /\ UNCHANGED <<osVars, enumVars, processes, scanVars, modVars, lasterr,
                 stateVars, snap, histVars>>

\* The call failed, or the buffer is full to the last entry.
EnumProcessesAgain ==
  /\ pc = "enum" /\ Room(num_processes)
  /\ stack' = stack + num_processes
  /\ num_processes' = num_processes + ProcessIncrement
  /\ \/ Cardinality(Live) >= num_processes /\ lasterr' = lasterr
     \/ lasterr' = "other"
  /\ UNCHANGED <<osVars, pc, processes, scanVars, modVars, stateVars, snap,
                 histVars>>

\* Mistake: a full buffer is taken for the whole list.
EnumProcessesTrusted ==
  /\ pc = "enum" /\ Room(num_processes)
  /\ stack' = stack + num_processes
  /\ \E s \in Enumerations(Live) :
       /\ snap' = [k \in {x \in 1 .. Len(s) : x <= num_processes} |-> s[k]]
       /\ num_processes' = Len(snap') + ProcessIncrement
       /\ processes' = snap' \o [k \in 1 .. ProcessIncrement |-> Junk]
  /\ pc' = "open"
  /\ UNCHANGED <<osVars, scanVars, modVars, lasterr, stateVars, histVars>>

\* Mistake: the increase after the loop is made twice.
EnumProcessesTwiceMore ==
  /\ pc = "enum" /\ Room(num_processes)
  /\ Cardinality(Live) < num_processes
  /\ stack' = stack + num_processes
  /\ num_processes' = Cardinality(Live) + 2 * ProcessIncrement
  /\ \E s \in Enumerations(Live) :
       /\ snap' = s
       /\ processes' = s \o [k \in 1 .. 2 * ProcessIncrement |-> Junk]
  /\ pc' = "open"
  /\ UNCHANGED <<osVars, scanVars, modVars, lasterr, stateVars, histVars>>

\* Some space is left.  num_processes becomes the number of ids and is then
\* increased once more all the same: the loop below goes over ProcessIncrement
\* DWORDs that this call has not written, and past the end of the array, which
\* has room for as many as num_processes has been until now.
EnumProcessesDone ==
  /\ pc = "enum" /\ Room(num_processes)
  /\ Cardinality(Live) < num_processes
  /\ stack' = stack + num_processes
  /\ num_processes' = Cardinality(Live) + ProcessIncrement
  /\ \E s \in Enumerations(Live) :
       /\ snap' = s
       /\ processes' = s \o [k \in 1 .. ProcessIncrement |-> Junk]
  /\ pc' = "open"
  /\ UNCHANGED <<osVars, scanVars, modVars, lasterr, stateVars, histVars>>

-----------------------------------------------------------------------------
(* for (i = 0; i < num_processes; ++i)                                     *)

NextProcess == pc' = "open" /\ i' = i + 1

\* Reading what this call has not written yields whatever the stack held, which
\* may be a process id: earlier lists lie there, and behind them paths.
Read(k) == IF processes[k] = Junk THEN Pids \cup {NoPid} ELSE {processes[k]}

Opens(p) == p \in Live /\ os[p].access # "denied"

\* OpenProcess fails; so does CloseHandle(NULL) at the end of the body.
OpenFails ==
  /\ pc = "open" /\ i <= num_processes
  /\ \E p \in Read(i) : ~Opens(p) /\ processes' = [processes EXCEPT ![i] = p]
  /\ lasterr' = "other"
  /\ NextProcess
  /\ UNCHANGED <<osVars, enumVars, locking_count, names, filename_length,
                 old_state_invalid, modVars, stateVars, snap, histVars>>

OpenProcess ==
  /\ pc = "open" /\ i <= num_processes
  /\ \E p \in Read(i) : Opens(p) /\ processes' = [processes EXCEPT ![i] = p]
  /\ num_modules' = 0 /\ frame' = 0 /\ listed' = FALSE
  /\ pc' = "modules"
  /\ UNCHANGED <<osVars, enumVars, scanVars, lasterr, stateVars, snap,
                 histVars>>

-----------------------------------------------------------------------------
(* EnumerateOpenProcessModules and FilterConflictingModule                 *)

Attempt == num_modules + ModulesIncrement
Gone == os[pid] = Absent
Enumerable == ~Gone /\ os[pid].access = "ok"
Needed == os[pid].mods * HandleWords

\* How EnumProcessModules fails for a process it cannot walk.
Errors == IF Gone THEN {"partial", "other"}
          ELSE IF os[pid].access = "partial" THEN {"partial"} ELSE {"other"}

ModulesOverflow ==
  /\ pc = "modules" /\ ~Room(Attempt)
  /\ pc' = "crashed"
  /\ UNCHANGED <<osVars, enumVars, processes, scanVars, modVars, lasterr,
                 stateVars, snap, histVars>>

\* Mistake: the next attempt is no larger.
GiveUpOrRepeat ==
  IF lasterr' = "partial" THEN NextProcess /\ UNCHANGED modVars
                          ELSE UNCHANGED <<pc, i, modVars>>

\* What follows an attempt without a result: the code asks for the last
\* error, also after a call that succeeded with too small a buffer.
GiveUpOrRetry ==
  IF lasterr' = "partial"
    THEN NextProcess /\ UNCHANGED modVars
    ELSE /\ num_modules' = Attempt /\ frame' = frame + Attempt
         /\ UNCHANGED <<pc, i, listed>>

ModulesFail ==
  /\ pc = "modules" /\ Room(Attempt) /\ ~Enumerable
  /\ lasterr' \in Errors
  /\ GiveUpOrRetry
  /\ UNCHANGED <<osVars, enumVars, processes, locking_count, names,
                 filename_length, old_state_invalid, stateVars, snap, histVars>>

ModulesTooMany ==
  /\ pc = "modules" /\ Room(Attempt) /\ Enumerable /\ Attempt < Needed
  /\ lasterr' = lasterr
  /\ GiveUpOrRetry
  /\ UNCHANGED <<osVars, enumVars, processes, locking_count, names,
                 filename_length, old_state_invalid, stateVars, snap, histVars>>

ModulesListed ==
  /\ pc = "modules" /\ Room(Attempt) /\ Enumerable /\ Needed <= Attempt
  /\ num_modules' = Needed /\ frame' = frame + Attempt
  /\ listed' = os[pid].locks
  /\ pc' = "filter"
  /\ UNCHANGED <<osVars, enumVars, processes, scanVars, lasterr, stateVars,
                 snap, histVars>>

\* The name of each listed module is asked of the process, as it now is.
\* num_modules counts DWORDs, so with wider handles junk handles follow.
NamesFail == Gone \/ os[pid].mods # num_modules
LastErrorAfterFilter == {lasterr} \cup (IF NamesFail THEN Errors ELSE {})
MaskLocked == listed /\ ~Gone /\ os[pid].locks

FilterFindsNone ==
  /\ pc = "filter" /\ ~MaskLocked
  /\ lasterr' \in LastErrorAfterFilter
  /\ NextProcess
  /\ UNCHANGED <<osVars, enumVars, processes, locking_count, names,
                 filename_length, old_state_invalid, modVars, stateVars, snap,
                 histVars>>

FilterFindsLock ==
  /\ pc = "filter" /\ MaskLocked
  /\ lasterr' \in LastErrorAfterFilter
  /\ pc' = "record"
  /\ UNCHANGED <<osVars, enumVars, processes, scanVars, modVars, stateVars,
                 snap, histVars>>

-----------------------------------------------------------------------------
(* The rest of the loop body: a locking process is written to the front of *)
(* the buffer that is being read, and its path behind the earlier ones.    *)

module_path == IF Gone THEN EmptyPath ELSE os[pid].path
Lengthened == filename_length + NameLen[module_path]

\* locking_filenames - locking_filenames_scratch - filename_length <= 0, a
\* size_t: "<= 0" is "= 0".
Insufficient ==
  (filename_length + SizeModulus - (Lengthened % SizeModulus)) % SizeModulus = 0

\* The entry of the old list at index locking_count.  Past its end lie the
\* names (or foreign memory), which do not read as the id of this process.
InOldList == locking_count < num_locking_processes
\* Mistake: only the ids are compared.
SameIdAsOld(id) == /\ p_allocated /\ InOldList
                   /\ p_locking_processes[locking_count + 1].id = id
\* Mistake: compared with the entry behind, as if the count were increased.
SameAsNextOld(id) == /\ p_allocated /\ locking_count + 1 < num_locking_processes
                     /\ p_locking_processes[locking_count + 2].id = id
                     /\ p_locking_processes[locking_count + 2].name = module_path
SameAsOld(id) == /\ p_allocated /\ InOldList
                 /\ p_locking_processes[locking_count + 1].id = id
                 /\ p_locking_processes[locking_count + 1].name = module_path

\* Entry k of processes lies in the scratch buffer, or some of its bytes do
\* that the path is copied to.
InScratch(k) == stack < k
ScratchByte(k) == (k - stack - 1) * DwordSize
Overwritten(k) == /\ InScratch(k) /\ ScratchByte(k) < Lengthened
                  /\ filename_length < ScratchByte(k) + DwordSize

\* processes[i] is read again when the path has been copied.
IdsRecorded == IF Overwritten(i) THEN Pids \cup {NoPid} ELSE {pid}

\* The path runs over the end of the scratch buffer, or the id is written into
\* it and over the paths.  What follows is not modelled.
RecordOverrun ==
  /\ pc = "record" /\ ~Insufficient
  /\ Lengthened > ScratchSize \/ InScratch(locking_count + 1)
  /\ pc' = "overrun"
  /\ UNCHANGED <<osVars, enumVars, processes, scanVars, modVars, lasterr,
                 stateVars, snap, histVars>>

\* Mistake: the entry is compacted one place too far, or not at all.
RecordAt(place) ==
  /\ pc = "record" /\ Lengthened <= ScratchSize
  /\ filename_length' = Lengthened
  /\ lasterr' \in IF Gone THEN {"partial", "other"} ELSE {lasterr}
  /\ names' = Append(names, module_path)
  /\ old_state_invalid' = (old_state_invalid \/ ~SameAsOld(pid))
  /\ processes' = [processes EXCEPT ![place] = pid]
  /\ locking_count' = locking_count + 1
  /\ NextProcess
  /\ UNCHANGED <<osVars, enumVars, modVars, stateVars, snap, histVars>>
RecordShifted == RecordAt(locking_count + 2)
RecordInPlace == RecordAt(i)

Record ==
  /\ pc = "record"
  /\ Insufficient \/ (Lengthened <= ScratchSize /\ ~InScratch(locking_count + 1))
  /\ filename_length' = Lengthened
  /\ lasterr' \in IF Gone THEN {"partial", "other"} ELSE {lasterr}
  /\ IF Insufficient
       THEN /\ pc' = "update"     \* kFailInsufficientBuffer, which main ignores
            /\ UNCHANGED <<processes, i, locking_count, names,
                           old_state_invalid, astray>>
       ELSE /\ names' = Append(names, module_path)
            /\ \E id \in IdsRecorded :
                 /\ old_state_invalid' = (old_state_invalid \/ ~SameAsOld(id))
                 /\ processes' = [processes EXCEPT ![locking_count + 1] = id]
            /\ astray' = IF Overwritten(i) THEN astray \cup {locking_count + 1}
                                           ELSE astray
            /\ locking_count' = locking_count + 1
            /\ NextProcess
  /\ UNCHANGED <<osVars, enumVars, modVars, stateVars, snap, steady, lockers>>

-----------------------------------------------------------------------------
(* After the loop: "Something changed"                                     *)

Found == [k \in 1 .. locking_count |-> [id |-> processes[k], name |-> names[k]]]

ScanOver == pc = "open" /\ num_processes < i

\* The list of the last scan is kept, without a look at its length.
KeepList ==
  /\ ScanOver /\ ~old_state_invalid
  /\ pc' = "update"
  /\ UNCHANGED <<osVars, enumVars, processes, scanVars, modVars, lasterr,
                 stateVars, snap, histVars>>

\* Printing "Old:" walks a list that a failed realloc has lost.
PrintsLostList == Debug /\ ~p_allocated /\ num_locking_processes > 0

PrintOldCrashes ==
  /\ ScanOver /\ old_state_invalid /\ PrintsLostList
  /\ pc' = "crashed"
  /\ UNCHANGED <<osVars, enumVars, processes, scanVars, modVars, lasterr,
                 stateVars, snap, histVars>>

\* Mistake: the count of the old list is kept.
ReplaceListOnly ==
  /\ ScanOver /\ old_state_invalid /\ ~PrintsLostList
  /\ p_allocated' = TRUE /\ p_locking_processes' = Found
  /\ pc' = "update"
  /\ UNCHANGED <<osVars, enumVars, processes, scanVars, modVars, lasterr, snap,
                 histVars, num_locking_processes>>

ReplaceList ==
  /\ ScanOver /\ old_state_invalid /\ ~PrintsLostList
  /\ p_allocated' = TRUE
  /\ p_locking_processes' = Found
  /\ num_locking_processes' = locking_count
  /\ pc' = "update"
  /\ UNCHANGED <<osVars, enumVars, processes, scanVars, modVars, lasterr, snap,
                 histVars>>

\* realloc fails: the pointer is overwritten with NULL, the count is not.
ReallocFails ==
  /\ ScanOver /\ old_state_invalid /\ ~PrintsLostList
  /\ p_allocated' = FALSE
  /\ p_locking_processes' = <<>>
  /\ lasterr' = "other"
  /\ pc' = "update"
  /\ UNCHANGED <<osVars, enumVars, processes, scanVars, modVars,
                 num_locking_processes, snap, histVars>>

-----------------------------------------------------------------------------
EnumerateProcesses ==
  EnumProcessesOverflow \/ EnumProcessesAgain \/ EnumProcessesDone
EnumerateModules ==
  \/ ModulesOverflow \/ ModulesFail \/ ModulesTooMany \/ ModulesListed
  \/ FilterFindsNone \/ FilterFindsLock
Publish == KeepList \/ PrintOldCrashes \/ ReplaceList \/ ReallocFails

Program ==
  \/ NoReplacements \/ StartScan
  \/ EnumerateProcesses \/ OpenFails \/ OpenProcess \/ EnumerateModules
  \/ RecordOverrun \/ Record
  \/ Publish

\* main returns when there is nothing to move; after a crash, or with its
\* memory overwritten, the program is followed no further.
Stopped == pc \in {"exited", "crashed", "overrun"} /\ UNCHANGED vars

Next == Environment \/ Program \/ Stopped

Spec == Init /\ [][Next]_vars
FairSpec == Spec /\ WF_vars(Program)

-----------------------------------------------------------------------------
(* Properties                                                              *)

Entries == [id : Pids \cup {NoPid}, name : Paths]
LastErrors == {"ok", "partial", "other"}

InLoop == pc \in {"open", "modules", "filter", "record"}

TableOK ==
  /\ os \in [Pids -> Kinds \cup {Absent}] /\ churn \in Nat
  /\ steady \in SUBSET Pids /\ lockers \in SUBSET (Pids \X Paths)
  /\ astray \subseteq 1 .. locking_count
LoopOK ==
  /\ pc \in {"update", "enum", "open", "modules", "filter", "record",
             "exited", "crashed", "overrun"}
  /\ num_processes \in Nat /\ stack \in Nat
  /\ processes \in Seq(Pids \cup {NoPid, Junk}) /\ snap \in Seq(Pids)
  /\ i \in Nat \ {0} /\ locking_count \in Nat
  /\ InLoop => /\ Len(processes) = num_processes
               /\ num_processes <= stack + ScratchSize \div DwordSize
NamesOK ==
  /\ names \in Seq(Paths) /\ Len(names) = locking_count
  /\ filename_length \in Nat /\ old_state_invalid \in BOOLEAN
ModulesOK ==
  /\ num_modules \in Nat /\ frame \in Nat /\ listed \in BOOLEAN
  /\ lasterr \in LastErrors
ListOK ==
  /\ p_allocated \in BOOLEAN
  /\ p_locking_processes \in Seq(Entries) /\ num_locking_processes \in Nat

\* Every variable holds a value the code's variable can hold.  The loop runs
\* past its array (num_processes is increased once too often), but never past
\* the arrays before it and the scratch buffer behind them: what it takes for
\* process ids is memory of this very call.
TypeOK == TableOK /\ LoopOK /\ NamesOK /\ ModulesOK /\ ListOK

\* locking_processes aliases processes: what is written to the front of the
\* buffer never reaches an entry the loop has still to read.
CompactionIntact ==
  InLoop => \A k \in i .. Len(snap) : processes[k] = snap[k]

\* Whatever is about to be reported held a watched file at some moment of
\* this scan, and the path belongs to the process that held it, even when its
\* id has changed hands in between; only of a process that is gone is the path
\* missing.  Only an entry that was read out of the scratch buffer, from under
\* the path then copied there, may have another id than the process it is of.
EntriesWereLocking ==
  InLoop => \A k \in 1 .. locking_count :
              \E l \in lockers : /\ l[1] = processes[k] \/ k \in astray
                                 /\ names[k] \in {l[2], EmptyPath}

\* A scan that ran to its end and returned kSuccess.
Completed == pc = "update" /\ 0 < num_processes /\ num_processes < i

Reported(p) == \E k \in 1 .. locking_count : processes[k] = p

\* A process that held a watched file all through a completed scan, and that
\* the code could look into, is found by it.
SteadyFound == Completed => \A p \in steady : Reported(p)

\* The same for processes whose modules fit the first attempt of
\* EnumerateOpenProcessModules: no error left over from another process,
\* no exit and no new process makes the scan miss them.
SteadySmallFound ==
  Completed => \A p \in steady :
                 os[p].mods * HandleWords <= ModulesIncrement => Reported(p)

\* After a completed scan the list in GlobalState starts with what the scan
\* found: it is never out of order or out of date in the entries compared.
FoundIsPrefix ==
  Completed /\ p_allocated =>
    /\ locking_count <= Len(p_locking_processes)
    /\ \A k \in 1 .. locking_count : p_locking_processes[k] = Found[k]

\* "Don't want to call realloc/malloc un-necessarily": the list is only
\* rebuilt when the scan found something the list does not say.
ReallocOnlyOnChange ==
  ScanOver /\ old_state_invalid /\ p_allocated => p_locking_processes # Found

\* num_locking_processes counts the list whenever there is one.
NumMatchesList ==
  p_allocated => num_locking_processes = Len(p_locking_processes)

\* Failed reallocs and abandoned scans included, the list that is kept has the
\* length recorded for it and begins with what the last scan found.
ListSound == NumMatchesList /\ FoundIsPrefix

\* The list says what the last completed scan found.
ListCurrent == Completed /\ p_allocated => p_locking_processes = Found

-----------------------------------------------------------------------------
(* The loop implements LockMonitor: the list is what the allocation holds, *)
(* and sure to be found are the locking processes whose modules fit the    *)
(* first attempt.                                                          *)

LockingKinds == {k \in Kinds : k.locks}
EasyKinds == {k \in LockingKinds : /\ k.access = "ok"
                                   /\ k.mods * HandleWords <= ModulesIncrement}

InScan == pc = "enum" \/ InLoop
\* The last scan ran to its end and there is a list.
Fresh == /\ pc \in {"update", "exited"} /\ p_allocated
         /\ 0 < num_processes /\ num_processes < i
SureNow == {<<p, os[p].path>> : p \in {q \in steady : os[q] \in EasyKinds}}
Listed == {<<p_locking_processes[k].id, p_locking_processes[k].name>> :
             k \in 1 .. Len(p_locking_processes)}

Monitor == INSTANCE LockMonitor
             WITH table <- os, looking <- InScan, held <- lockers,
                  sure <- SureNow, fresh <- Fresh, list <- Listed,
                  garbled <- (astray # {})

\* Whatever the processes do while it runs, every completed scan leaves a list
\* with each process that was sure to be found, under its own path, and with
\* nobody who neither held a watched file during the scan nor was listed before;
\* with the path of such a process only, where its id was overwritten.
ImplementsMonitor == Monitor!Spec

\* Every scan comes to an end: back in main, at the end of the stack, or where
\* the paths overrun their buffer.
ScanEnds == pc = "enum" ~> pc \in {"update", "crashed", "overrun"}

===============================================================================
