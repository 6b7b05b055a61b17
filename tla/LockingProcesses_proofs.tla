------------------------ MODULE LockingProcesses_proofs ------------------------
(***************************************************************************)
(* Proofs about LockingProcesses, for every set of process ids, every kind *)
(* of process and every size of the buffers.                               *)
(***************************************************************************)
EXTENDS LockingProcesses, Progress, FiniteSetTheorems, SequenceTheorems, TLAPS

HandleHeld == pc \in {"modules", "filter", "record"}
bufferVars == <<num_processes, stack, processes, snap, locking_count, astray>>
Ends == {"crashed", "overrun"}

(* Where the loop stands in its buffer: the front holds what was recorded,  *)
(* and the entry whose handle is open is a process id.                      *)
IndexOK ==
  /\ pc = "enum" => i = 1 /\ locking_count = 0
  /\ InLoop =>
       /\ locking_count < i /\ i <= num_processes + 1
       /\ \A k \in 1 .. locking_count : processes[k] \in Pids \cup {NoPid}
       /\ HandleHeld => i <= num_processes /\ pid \in Pids

TypeInv == TypeOK /\ IndexOK

\* The number of live processes is a number.
LEMMA LiveFinite == IsFiniteSet(Live) /\ Cardinality(Live) \in Nat
  BY PidsAssumption, FS_Subset, FS_CardinalityType DEF Live

\* What EnumProcesses leaves in the buffer: the ids listed, then junk.
LEMMA BufferLaidOut ==
  ASSUME NEW s \in Enumerations(Live), Cardinality(Live) \in Nat,
         NEW b, b = s \o [k \in 1 .. ProcessIncrement |-> Junk]
  PROVE  /\ s \in Seq(Pids) /\ Len(s) = Cardinality(Live)
         /\ \A p \in Live : \E k \in 1 .. Len(s) : s[k] = p
         /\ b \in Seq(Pids \cup {NoPid, Junk})
         /\ Len(b) = Cardinality(Live) + ProcessIncrement
         /\ \A k \in 1 .. Len(s) : b[k] = s[k]
<1> DEFINE n == Cardinality(Live)
           S == Pids \cup {NoPid, Junk}
           tail == [k \in 1 .. ProcessIncrement |-> Junk]
<1>1. /\ s \in [1 .. n -> Pids]
      /\ \A p \in Live : \E k \in 1 .. n : s[k] = p
  BY DEF Enumerations, Live
<1>2. s \in Seq(Pids) /\ Len(s) = n /\ s \in Seq(S)
  BY <1>1
<1>3. tail \in Seq(S) /\ Len(tail) = ProcessIncrement
  BY SizesAssumption
<1>4. /\ s \o tail \in Seq(S) /\ Len(s \o tail) = Len(s) + Len(tail)
      /\ \A k \in 1 .. Len(s) + Len(tail) :
           (s \o tail)[k] = IF k <= Len(s) THEN s[k] ELSE tail[k - Len(s)]
  <2> HIDE DEF tail, S
  <2> QED BY <1>2, <1>3, ConcatProperties
<1>5. \A k \in 1 .. Len(s) : k \in 1 .. Len(s) + Len(tail) /\ k <= Len(s)
  BY <1>2, <1>3, SizesAssumption
<1> HIDE DEF tail
<1>6. QED
  BY <1>1, <1>2, <1>3, <1>4, <1>5 DEF tail

LEMMA ErrorsTyped == Errors \subseteq LastErrors
  BY DEF Errors, LastErrors

-----------------------------------------------------------------------------
(* Which steps change which part of the state.                             *)

LEMMA LoopFrame ==
  ASSUME [Next]_vars
  PROVE  \/ UNCHANGED <<bufferVars, i, pc>>
         \/ UNCHANGED <<bufferVars, i>> /\ pc' \in {"update", "exited"} \cup Ends
         \/ UNCHANGED <<bufferVars, i>> /\ HandleHeld /\ HandleHeld'
         \/ UNCHANGED bufferVars /\ HandleHeld /\ NextProcess
         \/ StartScan \/ EnumProcessesAgain \/ EnumProcessesDone
         \/ OpenFails \/ OpenProcess \/ Record
<1> USE DEF bufferVars, enumVars, scanVars, histVars, Ends
<1>1. CASE EnumerateModules
  BY <1>1
  DEF EnumerateModules, ModulesOverflow, ModulesFail, ModulesTooMany,
      GiveUpOrRetry, ModulesListed, FilterFindsNone, FilterFindsLock, HandleHeld
<1>2. CASE Publish \/ RecordOverrun \/ NoReplacements \/ EnumProcessesOverflow
  BY <1>2
  DEF Publish, KeepList, PrintOldCrashes, ReplaceList, ReallocFails,
      RecordOverrun, NoReplacements, EnumProcessesOverflow
<1>3. CASE Environment \/ Stopped \/ UNCHANGED vars
  BY <1>3
  DEF Environment, Start, Exit, Reload, TableBecomes, Stopped, vars
<1>4. QED
  BY <1>1, <1>2, <1>3 DEF Next, Program, EnumerateProcesses

LEMMA ListFrame ==
  ASSUME [Next]_vars
  PROVE  ReplaceList \/ ReallocFails \/ UNCHANGED stateVars
  BY DEF Next, Environment, Start, Exit, Reload, TableBecomes, Program,
         NoReplacements, StartScan, EnumerateProcesses, EnumProcessesOverflow,
         EnumProcessesAgain, EnumProcessesDone, OpenFails, OpenProcess,
         EnumerateModules, ModulesOverflow, ModulesFail, ModulesTooMany,
         ModulesListed, FilterFindsNone, FilterFindsLock, RecordOverrun, Record,
         Publish, KeepList, PrintOldCrashes, Stopped, vars, stateVars

LEMMA TableFrame ==
  ASSUME [Next]_vars
  PROVE  \/ \E p \in Pids, k \in Kinds \cup {Absent} : TableBecomes(p, k)
         \/ StartScan
         \/ UNCHANGED <<osVars, steady, lockers>>
  BY DEF Next, Environment, Start, Exit, Reload, Program,
         NoReplacements, EnumerateProcesses, EnumProcessesOverflow,
         EnumProcessesAgain, EnumProcessesDone, OpenFails, OpenProcess,
         EnumerateModules, ModulesOverflow, ModulesFail, ModulesTooMany,
         ModulesListed, FilterFindsNone, FilterFindsLock, RecordOverrun, Record,
         Publish, KeepList, PrintOldCrashes, ReplaceList, ReallocFails, Stopped,
         vars, osVars, histVars

LEMMA ModulesFrame ==
  ASSUME [Next]_vars, lasterr \in LastErrors
  PROVE  \/ StartScan \/ OpenProcess \/ ModulesFail \/ ModulesTooMany
         \/ ModulesListed \/ FilterFindsNone \/ FilterFindsLock
         \/ UNCHANGED modVars /\ lasterr' \in LastErrors
  BY DEF Next, Environment, Start, Exit, Reload, TableBecomes, Program,
         NoReplacements, EnumerateProcesses, EnumProcessesOverflow,
         EnumProcessesAgain, EnumProcessesDone, OpenFails,
         EnumerateModules, ModulesOverflow, RecordOverrun, Record,
         Publish, KeepList, PrintOldCrashes, ReplaceList, ReallocFails, Stopped,
         vars, modVars, LastErrors

-----------------------------------------------------------------------------
(* Type correctness, one part of the state after the other.                *)

LEMMA InitTypeInv == Init => TypeInv
<1> SUFFICES ASSUME Init PROVE TypeInv
  OBVIOUS
<1>1. TableOK
  BY DEF Init, TableOK
<1>2. LoopOK /\ IndexOK
  BY DEF Init, LoopOK, InLoop, IndexOK
<1>3. NamesOK
  BY EmptySeq DEF Init, NamesOK
<1>4. ModulesOK
  BY DEF Init, ModulesOK, LastErrors
<1>5. ListOK
  BY EmptySeq DEF Init, ListOK
<1>6. QED
  BY <1>1, <1>2, <1>3, <1>4, <1>5 DEF TypeInv, TypeOK

\* Only a scan that is over writes to GlobalState.
LEMMA ListStep == TypeInv /\ [Next]_vars => ListOK'
<1> SUFFICES ASSUME TypeInv, [Next]_vars PROVE ListOK'
  OBVIOUS
<1>1. CASE ReplaceList
  <2>1. \A k \in 1 .. locking_count :
        processes[k] \in Pids \cup {NoPid} /\ names[k] \in Paths
    BY <1>1, ElementOfSeq
    DEF ReplaceList, ScanOver, TypeInv, IndexOK, InLoop, TypeOK, NamesOK
  <2>2. Found \in Seq(Entries)
    BY <2>1 DEF Found, TypeInv, TypeOK, LoopOK, Entries
  <2>3. QED
    BY <1>1, <2>2 DEF ReplaceList, TypeInv, TypeOK, LoopOK, ListOK
<1>2. CASE ReallocFails
  BY <1>2, EmptySeq DEF ReallocFails, TypeInv, TypeOK, ListOK
<1>3. CASE UNCHANGED stateVars
  BY <1>3 DEF stateVars, TypeInv, TypeOK, ListOK
<1>4. QED
  BY <1>1, <1>2, <1>3, ListFrame

\* What was recorded from under a path is one of what was recorded.
LEMMA AstrayStep ==
  TypeInv /\ [Next]_vars => astray' \subseteq 1 .. locking_count'
<1> SUFFICES ASSUME TypeInv, [Next]_vars
             PROVE  astray' \subseteq 1 .. locking_count'
  OBVIOUS
<1>0. astray \subseteq 1 .. locking_count /\ locking_count \in Nat
  BY DEF TypeInv, TypeOK, TableOK, LoopOK
<1>1. CASE UNCHANGED bufferVars
  BY <1>0, <1>1 DEF bufferVars
<1>2. CASE StartScan
  BY <1>2 DEF StartScan
<1>3. CASE Record
  <2>1. CASE Insufficient
    BY <1>0, <1>3, <2>1 DEF Record
  <2>2. CASE ~Insufficient
    <3>1. /\ locking_count' = locking_count + 1
          /\ astray' \subseteq astray \cup {locking_count + 1}
      BY <1>3, <2>2 DEF Record
    <3>2. /\ 1 .. locking_count \subseteq 1 .. locking_count'
          /\ locking_count + 1 \in 1 .. locking_count'
      BY <1>0, <3>1
    <3>3. QED
      BY <1>0, <3>1, <3>2
  <2>3. QED
    BY <2>1, <2>2
<1>4. CASE EnumProcessesAgain \/ EnumProcessesDone \/ OpenFails \/ OpenProcess
  BY <1>0, <1>4
  DEF EnumProcessesAgain, EnumProcessesDone, OpenFails, OpenProcess, scanVars,
      histVars
<1>5. QED
  BY <1>1, <1>2, <1>3, <1>4, LoopFrame DEF bufferVars

\* Other processes come and go; a scan starts the history anew.
LEMMA TableStep == TypeInv /\ [Next]_vars => TableOK'
<1> SUFFICES ASSUME TypeInv, [Next]_vars PROVE TableOK'
  OBVIOUS
<1>0. astray' \subseteq 1 .. locking_count'
  BY AstrayStep
<1> USE DEF TypeInv, TypeOK
<1>1. ASSUME NEW p \in Pids, NEW k \in Kinds \cup {Absent}, TableBecomes(p, k)
      PROVE  TableOK'
  <2>1. os' \in [Pids -> Kinds \cup {Absent}]
    BY <1>1 DEF TableOK, TableBecomes
  <2>2. Lockers(os') \in SUBSET (Pids \X Paths)
    BY <2>1, KindsAssumption DEF Lockers, Locking, KindRecords
  <2>3. lockers' \in SUBSET (Pids \X Paths)
    BY <1>1, <2>2, Zenon DEF TableOK, TableBecomes
  <2>4. churn' \in Nat /\ steady' \in SUBSET Pids
    BY <1>1 DEF TableOK, TableBecomes
  <2>5. QED
    BY <1>0, <2>1, <2>3, <2>4 DEF TableOK
<1>2. CASE StartScan
  <2>1. Lockers(os) \in SUBSET (Pids \X Paths)
    BY KindsAssumption DEF Lockers, Locking, KindRecords, TableOK
  <2>2. QED
    BY <1>0, <1>2, <2>1 DEF StartScan, TableOK, Visible, Locking, osVars
<1>3. CASE UNCHANGED <<osVars, steady, lockers>>
  BY <1>0, <1>3 DEF osVars, TableOK
<1>4. QED
  BY <1>1, <1>2, <1>3, TableFrame

LEMMA ModulesStep == TypeInv /\ [Next]_vars => ModulesOK'
<1> SUFFICES ASSUME TypeInv, [Next]_vars PROVE ModulesOK'
  OBVIOUS
<1> USE SizesAssumption, ErrorsTyped DEF TypeInv, TypeOK, ModulesOK, modVars
<1>1. CASE StartScan
  BY <1>1 DEF StartScan
<1>2. CASE OpenProcess
  BY <1>2 DEF OpenProcess
<1>3. CASE ModulesFail \/ ModulesTooMany
  BY <1>3 DEF ModulesFail, ModulesTooMany, GiveUpOrRetry, Attempt
<1>4. CASE ModulesListed
  <2>1. pid \in Pids /\ os[pid] \in Kinds
    BY <1>4 DEF ModulesListed, Enumerable, Gone, TableOK, IndexOK, InLoop,
                HandleHeld
  <2>2. Needed \in Nat /\ os[pid].locks \in BOOLEAN
    BY <2>1, KindsAssumption DEF Needed, KindRecords
  <2>3. QED
    BY <1>4, <2>2 DEF ModulesListed, Attempt
<1>5. CASE FilterFindsNone \/ FilterFindsLock
  BY <1>5 DEF FilterFindsNone, FilterFindsLock, LastErrorAfterFilter
<1>6. CASE UNCHANGED modVars /\ lasterr' \in LastErrors
  BY <1>6
<1>7. QED
  BY <1>1, <1>2, <1>3, <1>4, <1>5, <1>6, ModulesFrame

\* The path and its length are typed as the process with the open handle is.
LEMMA RecordedTyped ==
  ASSUME TypeInv, pc = "record"
  PROVE  /\ i <= num_processes /\ pid \in Pids
         /\ module_path \in Paths /\ Lengthened \in Nat
         /\ Append(names, module_path) \in Seq(Paths)
         /\ Len(Append(names, module_path)) = locking_count + 1
         /\ \A k \in 1 .. locking_count :
              Append(names, module_path)[k] = names[k]
         /\ Append(names, module_path)[locking_count + 1] = module_path
<1> USE DEF TypeInv, TypeOK
<1>1. i <= num_processes /\ pid \in Pids
  BY DEF IndexOK, InLoop, HandleHeld
<1>2. module_path \in Paths
  BY <1>1, KindsAssumption, PathsAssumption
  DEF module_path, Gone, KindRecords, TableOK
<1>3. Lengthened \in Nat
  BY <1>2, PathsAssumption DEF Lengthened, NamesOK
<1>4. QED
  BY <1>1, <1>2, <1>3, AppendProperties DEF NamesOK

\* So is what is recorded as its id, also where its entry is overwritten.
LEMMA RecordedIds ==
  ASSUME TypeInv, pc = "record"
  PROVE  /\ IdsRecorded \subseteq Pids \cup {NoPid}
         /\ ~Overwritten(i) => IdsRecorded = {pid}
  BY RecordedTyped DEF IdsRecorded

LEMMA NamesStep == TypeInv /\ [Next]_vars => NamesOK'
<1> SUFFICES ASSUME TypeInv, [Next]_vars PROVE NamesOK'
  OBVIOUS
<1> DEFINE namesVars ==
             <<locking_count, names, filename_length, old_state_invalid>>
<1>1. CASE StartScan
  BY <1>1, EmptySeq DEF StartScan, NamesOK
<1>2. CASE Record
  <2>1. pc = "record" /\ NamesOK
    BY <1>2 DEF Record, TypeInv, TypeOK
  <2>2. CASE Insufficient
    BY <1>2, <2>1, <2>2, RecordedTyped DEF Record, NamesOK
  <2>3. CASE ~Insufficient
    BY <1>2, <2>1, <2>3, RecordedTyped DEF Record, NamesOK
  <2>4. QED
    BY <2>2, <2>3
<1>3. CASE UNCHANGED namesVars
  BY <1>3 DEF TypeInv, TypeOK, NamesOK
<1>4. StartScan \/ Record \/ UNCHANGED namesVars
  BY DEF Next, Environment, Start, Exit, Reload, TableBecomes, Program,
         NoReplacements, EnumerateProcesses, EnumProcessesOverflow,
         EnumProcessesAgain, EnumProcessesDone, OpenFails, OpenProcess,
         EnumerateModules, ModulesOverflow, ModulesFail, ModulesTooMany,
         ModulesListed, FilterFindsNone, FilterFindsLock, RecordOverrun,
         Publish, KeepList, PrintOldCrashes, ReplaceList, ReallocFails, Stopped,
         vars, scanVars
<1>5. QED
  BY <1>1, <1>2, <1>3, <1>4

\* What the loop's steps do to its position and its buffer: those that keep
\* the body running, and those that go on to the next entry.
LEMMA LoopStep == TypeInv /\ [Next]_vars => LoopOK' /\ IndexOK'
<1> SUFFICES ASSUME TypeInv, [Next]_vars PROVE LoopOK' /\ IndexOK'
  OBVIOUS
<1> USE DEF TypeInv, TypeOK, LoopOK, IndexOK, InLoop, HandleHeld, pid, bufferVars,
            Ends
<1>1. CASE UNCHANGED <<bufferVars, i, pc>>
  BY <1>1
<1>2. CASE UNCHANGED <<bufferVars, i>> /\ pc' \in {"update", "exited"} \cup Ends
  BY <1>2
<1>3. CASE UNCHANGED <<bufferVars, i>> /\ HandleHeld /\ HandleHeld'
  BY <1>3
<1>4. CASE UNCHANGED bufferVars /\ HandleHeld /\ NextProcess
  BY <1>4 DEF NextProcess
<1>5. CASE StartScan
  BY <1>5, EmptySeq DEF StartScan
<1>6. CASE EnumProcessesAgain
  BY <1>6, SizesAssumption
  DEF EnumProcessesAgain, enumVars, scanVars
<1>7. CASE EnumProcessesDone
  <2>1. PICK s \in Enumerations(Live) :
          /\ snap' = s
          /\ processes' = s \o [k \in 1 .. ProcessIncrement |-> Junk]
    BY <1>7 DEF EnumProcessesDone
  <2>2. /\ snap' \in Seq(Pids)
        /\ processes' \in Seq(Pids \cup {NoPid, Junk})
        /\ Len(processes') = Cardinality(Live) + ProcessIncrement
    BY <2>1, LiveFinite, BufferLaidOut
  <2>3. num_processes' <= stack' + ScratchSize \div DwordSize
    <3> DEFINE room == ScratchSize \div DwordSize
    <3>1. room \in Int /\ ProcessIncrement <= room
      BY SizesAssumption
    <3>2. /\ Cardinality(Live) < num_processes
          /\ stack' = stack + num_processes
          /\ num_processes' = Cardinality(Live) + ProcessIncrement
      BY <1>7 DEF EnumProcessesDone
    <3> HIDE DEF room
    <3>3. num_processes' <= stack' + room
      BY <3>1, <3>2, LiveFinite, SizesAssumption
    <3>4. QED
      BY <3>3 DEF room
  <2>4. num_processes' \in Nat /\ stack' \in Nat
    BY <1>7, LiveFinite, SizesAssumption DEF EnumProcessesDone
  <2>5. /\ i' = 1 /\ locking_count' = 0 /\ pc' = "open"
        /\ num_processes' = Len(processes')
    BY <1>7, <2>2 DEF EnumProcessesDone, scanVars
  <2>6. LoopOK'
    BY <2>2, <2>3, <2>4, <2>5
  <2>7. IndexOK'
    BY <2>4, <2>5
  <2>8. QED
    BY <2>6, <2>7
<1>8. CASE OpenFails
  BY <1>8, ExceptSeq DEF OpenFails, NextProcess, Read, enumVars
<1>9. CASE OpenProcess
  BY <1>9, ExceptSeq DEF OpenProcess, Opens, Live, Read, enumVars, scanVars
<1>10. CASE Record
  <2>1. pc = "record" /\ pid \in Pids /\ i <= num_processes
    BY <1>10 DEF Record
  <2>2. CASE Insufficient
    BY <1>10, <2>2 DEF Record, enumVars
  <2>3. CASE ~Insufficient
    <3>1. locking_count + 1 \in 1 .. Len(processes)
      BY <2>1
    <3>0. PICK id \in IdsRecorded :
            processes' = [processes EXCEPT ![locking_count + 1] = id]
      BY <1>10, <2>3 DEF Record
    <3>5. id \in Pids \cup {NoPid}
      BY <2>1, <3>0, RecordedIds
    <3>2. /\ processes' = [processes EXCEPT ![locking_count + 1] = id]
          /\ locking_count' = locking_count + 1 /\ i' = i + 1 /\ pc' = "open"
          /\ UNCHANGED <<num_processes, stack, snap>>
      BY <1>10, <2>3, <3>0 DEF Record, NextProcess, enumVars
    <3>3. /\ processes' \in Seq(Pids \cup {NoPid, Junk})
          /\ Len(processes') = Len(processes)
          /\ \A k \in 1 .. Len(processes) :
               processes'[k] = IF k = locking_count + 1 THEN id
                                                        ELSE processes[k]
      BY <2>1, <3>1, <3>2, <3>5, ExceptSeq
    <3>4. QED
      BY <2>1, <3>1, <3>2, <3>3, <3>5
  <2>4. QED
    BY <2>2, <2>3
<1>11. QED
  BY <1>1, <1>2, <1>3, <1>4, <1>5, <1>6, <1>7, <1>8, <1>9, <1>10, LoopFrame

\* Every variable of the scan keeps its type in every process table, however
\* small the buffers.  The loop of main.c:533 runs past the array of main.c:511,
\* but never past what the call has on the stack behind it: the arrays of the
\* attempts before and the scratch buffer of main.c:499.
THEOREM TypeCorrect == Spec => []TypeOK
<1>1. Init => TypeInv
  BY InitTypeInv
<1>2. TypeInv /\ [Next]_vars => TypeInv'
  BY ListStep, TableStep, ModulesStep, NamesStep, LoopStep DEF TypeInv, TypeOK
<1>3. TypeInv => TypeOK
  BY DEF TypeInv
<1>4. QED
  BY <1>1, <1>2, <1>3, PTL DEF Spec

LEMMA TypeInvStep == TypeInv /\ [Next]_vars => TypeInv'
  BY ListStep, TableStep, ModulesStep, NamesStep, LoopStep DEF TypeInv, TypeOK

\* What Record does to the buffer and the position.
LEMMA RecordStep ==
  ASSUME TypeInv, Record, ~Insufficient
  PROVE  /\ pc = "record" /\ pc' = "open" /\ i' = i + 1
         /\ locking_count' = locking_count + 1
         /\ locking_count < i /\ i <= num_processes
         /\ Len(processes) = num_processes
         /\ UNCHANGED <<os, lockers, steady, snap, num_processes, stack>>
         /\ \E id \in IdsRecorded :
              /\ processes'[locking_count + 1] = id
              /\ old_state_invalid' = (old_state_invalid \/ ~SameAsOld(id))
         /\ ~Overwritten(i) => processes'[locking_count + 1] = pid
         /\ \A k \in 1 .. Len(processes) :
              k # locking_count + 1 => processes'[k] = processes[k]
         /\ astray' = IF Overwritten(i) THEN astray \cup {locking_count + 1}
                                        ELSE astray
         /\ \A k \in 1 .. locking_count : names'[k] = names[k]
         /\ names'[locking_count + 1] = module_path
<1>1. pc = "record" /\ pid \in Pids /\ i <= num_processes /\ locking_count < i
  BY DEF Record, TypeInv, IndexOK, InLoop, HandleHeld
<1>2. processes \in Seq(Pids \cup {NoPid, Junk}) /\ Len(processes) = num_processes
  BY <1>1 DEF TypeInv, TypeOK, LoopOK, InLoop
<1>3. locking_count + 1 \in 1 .. Len(processes)
  BY <1>1, <1>2 DEF TypeInv, TypeOK, LoopOK
<1>4. PICK id \in IdsRecorded :
        /\ old_state_invalid' = (old_state_invalid \/ ~SameAsOld(id))
        /\ processes' = [processes EXCEPT ![locking_count + 1] = id]
  BY DEF Record
<1>5. id \in Pids \cup {NoPid} /\ (~Overwritten(i) => id = pid)
  BY <1>1, <1>4, RecordedIds
<1>6. \A k \in 1 .. Len(processes) :
        processes'[k] = IF k = locking_count + 1 THEN id ELSE processes[k]
  BY <1>2, <1>3, <1>4, <1>5, ExceptSeq
<1>7. /\ processes'[locking_count + 1] = id
      /\ \A k \in 1 .. Len(processes) :
           k # locking_count + 1 => processes'[k] = processes[k]
  BY <1>3, <1>6
<1>8. /\ i' = i + 1 /\ pc' = "open" /\ locking_count' = locking_count + 1
      /\ names' = Append(names, module_path)
      /\ astray' = IF Overwritten(i) THEN astray \cup {locking_count + 1}
                                     ELSE astray
      /\ UNCHANGED <<os, lockers, steady, snap, num_processes, stack>>
  BY DEF Record, NextProcess, enumVars, osVars
<1>9. /\ \A k \in 1 .. locking_count : names'[k] = names[k]
      /\ names'[locking_count + 1] = module_path
  BY <1>1, <1>8, RecordedTyped
<1>10. QED
  BY <1>1, <1>2, <1>4, <1>5, <1>7, <1>8, <1>9

-----------------------------------------------------------------------------
(* The buffer that is read and compacted at once.                          *)

\* What EnumProcesses has filled lies within the arrays, not in the scratch
\* buffer behind them.
LayoutInv ==
  InLoop => /\ Len(snap) <= num_processes /\ Len(snap) <= stack
            /\ CompactionIntact

LEMMA LayoutStep == TypeInv /\ LayoutInv /\ [Next]_vars => LayoutInv'
<1> SUFFICES ASSUME TypeInv, LayoutInv, [Next]_vars PROVE LayoutInv'
  OBVIOUS
<1> USE DEF LayoutInv, CompactionIntact, InLoop, bufferVars, Ends
<1>0. /\ i \in Nat \ {0} /\ Len(snap) \in Nat
      /\ processes \in Seq(Pids \cup {NoPid, Junk}) /\ snap \in Seq(Pids)
      /\ InLoop => Len(processes) = num_processes
  BY LenProperties DEF TypeInv, TypeOK, LoopOK
<1>1. CASE UNCHANGED <<bufferVars, i, pc>>
  BY <1>1
<1>2. CASE UNCHANGED <<bufferVars, i>> /\ pc' \in {"update", "exited"} \cup Ends
  BY <1>2
<1>3. CASE UNCHANGED <<bufferVars, i>> /\ HandleHeld /\ HandleHeld'
  BY <1>3 DEF HandleHeld
<1>4. CASE UNCHANGED bufferVars /\ HandleHeld /\ NextProcess
  BY <1>0, <1>4 DEF HandleHeld, NextProcess
<1>5. CASE StartScan \/ EnumProcessesAgain
  BY <1>5 DEF StartScan, EnumProcessesAgain
<1>6. CASE EnumProcessesDone
  <2>1. PICK s \in Enumerations(Live) :
          /\ snap' = s
          /\ processes' = s \o [k \in 1 .. ProcessIncrement |-> Junk]
    BY <1>6 DEF EnumProcessesDone
  <2>2. /\ Len(snap') = Cardinality(Live)
        /\ \A k \in 1 .. Len(snap') : processes'[k] = snap'[k]
    BY <2>1, LiveFinite, BufferLaidOut
  <2>3. stack \in Nat /\ num_processes \in Nat
    BY DEF TypeInv, TypeOK, LoopOK
  <2>4. QED
    BY <1>0, <1>6, <2>2, <2>3, LiveFinite, SizesAssumption
    DEF EnumProcessesDone, scanVars
<1>7. CASE OpenFails
  BY <1>0, <1>7 DEF OpenFails, NextProcess, Read, enumVars
<1>8. CASE OpenProcess
  <2>1. /\ pc = "open" /\ i \in 1 .. Len(processes)
        /\ UNCHANGED <<i, snap, num_processes, stack>>
    BY <1>0, <1>8 DEF OpenProcess, enumVars, scanVars, TypeInv, TypeOK, LoopOK
  <2>2. PICK p \in Read(i) : processes' = [processes EXCEPT ![i] = p]
    BY <1>8 DEF OpenProcess
  <2>3. i <= Len(snap) => p = processes[i]
    <3>1. CASE i <= Len(snap)
      BY <1>0, <2>1, <2>2, <3>1, ElementOfSeq, PidsAssumption DEF Read
    <3>2. QED
      BY <3>1
  <2>4. \A k \in i .. Len(snap) : processes'[k] = snap[k]
    BY <1>0, <2>1, <2>2, <2>3
  <2>5. QED
    BY <2>1, <2>4
<1>9. CASE Record
  <2>1. CASE Insufficient
    BY <1>9, <2>1 DEF Record
  <2>2. CASE ~Insufficient
    <3>1. /\ locking_count \in Nat
          /\ Len(snap) <= num_processes /\ Len(snap) <= stack
          /\ \A k \in i .. Len(snap) : processes[k] = snap[k]
      BY <1>9 DEF Record, TypeInv, TypeOK, LoopOK
    <3>2. QED
      BY <1>0, <1>9, <2>2, <3>1, RecordStep
  <2>3. QED
    BY <2>1, <2>2
<1>10. QED
  BY <1>1, <1>2, <1>3, <1>4, <1>5, <1>6, <1>7, <1>8, <1>9, LoopFrame

\* No pid is lost to the aliasing of locking_processes and processes
\* (main.c:531): what is written never reaches what is still to be read.
THEOREM CompactionSafe == Spec => []CompactionIntact
<1>1. Init => TypeInv /\ LayoutInv
  BY InitTypeInv DEF Init, LayoutInv, InLoop
<1>2. TypeInv /\ LayoutInv /\ [Next]_vars => TypeInv' /\ LayoutInv'
  BY TypeInvStep, LayoutStep
<1>3. LayoutInv => CompactionIntact
  BY DEF LayoutInv, CompactionIntact
<1>4. QED
  BY <1>1, <1>2, <1>3, PTL DEF Spec

-----------------------------------------------------------------------------
(* Soundness: what a scan reports did hold a watched file.                 *)

\* The path of a process does not change, and its id is not handed out again
\* while the handle is open: between the filter and the record the process
\* may only drop the module or exit.
EvidenceInv ==
  /\ InScan => Lockers(os) \subseteq lockers
  /\ pc = "record" =>
       \E l \in lockers : l[1] = pid /\ (Gone \/ l[2] = os[pid].path)
  /\ EntriesWereLocking

LEMMA EvidenceStep == TypeInv /\ EvidenceInv /\ [Next]_vars => EvidenceInv'
<1> SUFFICES ASSUME TypeInv, EvidenceInv, [Next]_vars PROVE EvidenceInv'
  OBVIOUS
<1> USE DEF EvidenceInv, EntriesWereLocking, InScan, InLoop
<1>0. EntriesWereLocking
  OBVIOUS
<1>1. ASSUME NEW p \in Pids, NEW k \in Kinds \cup {Absent}, TableBecomes(p, k),
             os[p] # Absent => k = Absent \/ k.path = os[p].path,
             os[p] = Absent => ~HandleOpen(p)
      PROVE  EvidenceInv'
  <2> USE <1>1 DEF TableBecomes, scanVars
  <2>1. os' = [os EXCEPT ![p] = k] /\ os \in [Pids -> Kinds \cup {Absent}]
    BY DEF TypeInv, TypeOK, TableOK
  <2>2. lockers \subseteq lockers' /\ Lockers(os') \subseteq lockers'
    OBVIOUS
  <2>3. pid' = pid
    BY DEF pid
  <2>4. ASSUME pc = "record"
        PROVE  \E l \in lockers' : l[1] = pid /\ (Gone' \/ l[2] = os'[pid].path)
    <3>1. pid \in Pids
      BY <2>4 DEF TypeInv, IndexOK, HandleHeld
    <3>2. PICK l \in lockers : l[1] = pid /\ (Gone \/ l[2] = os[pid].path)
      BY <2>4
    <3>3. Gone' \/ l[2] = os'[pid].path
      BY <2>1, <2>3, <2>4, <3>1, <3>2 DEF Gone, HandleOpen
    <3>4. QED
      BY <2>2, <3>2, <3>3
  <2>5. QED
    BY <2>2, <2>3, <2>4
<1>2. CASE Environment
  <2>1. ASSUME NEW p \in Pids, NEW k \in Kinds, Start(p, k)
        PROVE  EvidenceInv'
    BY <1>1, <2>1 DEF Start
  <2>2. ASSUME NEW p \in Pids, NEW k \in Kinds, Reload(p, k)
        PROVE  EvidenceInv'
    BY <1>1, <2>2 DEF Reload
  <2>3. ASSUME NEW p \in Pids, Exit(p)
        PROVE  EvidenceInv'
    BY <1>1, <2>3 DEF Exit
  <2>4. QED
    BY <1>2, <2>1, <2>2, <2>3 DEF Environment
<1>3. CASE StartScan
  BY <1>3 DEF StartScan, osVars
<1>4. CASE FilterFindsLock
  <2>1. pid \in Pids /\ ~Gone /\ os[pid].locks
    BY <1>4 DEF FilterFindsLock, MaskLocked, TypeInv, IndexOK, HandleHeld
  <2>2. <<pid, os[pid].path>> \in lockers
    BY <1>4, <2>1 DEF FilterFindsLock, Lockers, Locking, Gone
  <2>3. UNCHANGED <<os, lockers, processes, i, locking_count, names, astray>>
    BY <1>4 DEF FilterFindsLock, osVars, scanVars, histVars
  <2>4. pid' = pid /\ os'[pid] = os[pid]
    BY <2>3 DEF pid
  <2>5. \E l \in lockers' : l[1] = pid' /\ (Gone' \/ l[2] = os'[pid'].path)
    BY <2>2, <2>3, <2>4
  <2>6. QED
    BY <1>4, <2>3, <2>5 DEF FilterFindsLock
<1>5. CASE Record
  <2>1. CASE Insufficient
    BY <1>5, <2>1 DEF Record
  <2>2. CASE ~Insufficient
    <3>1. PICK l \in lockers : l[1] = pid /\ (Gone \/ l[2] = os[pid].path)
      BY <1>5 DEF Record
    <3>2. module_path \in {l[2], EmptyPath}
      BY <3>1 DEF module_path
    <3>3. locking_count \in Nat
      BY DEF TypeInv, TypeOK, LoopOK
    <3>4. ASSUME NEW k \in 1 .. locking_count'
          PROVE  \E m \in lockers' : /\ m[1] = processes'[k] \/ k \in astray'
                                     /\ names'[k] \in {m[2], EmptyPath}
      <4>1. k = locking_count + 1 \/ k \in 1 .. locking_count
        BY <1>5, <2>2, <3>3, RecordStep
      <4>2. /\ k \in 1 .. Len(processes) /\ lockers' = lockers
            /\ astray \subseteq astray'
        BY <1>5, <2>2, <3>3, <4>1, RecordStep DEF TypeInv, TypeOK, LoopOK
      <4>3. CASE k = locking_count + 1
        BY <1>5, <2>2, <3>1, <3>2, <4>2, <4>3, RecordStep
      <4>4. CASE k \in 1 .. locking_count
        <5>1. processes'[k] = processes[k] /\ names'[k] = names[k] /\ InLoop
          BY <1>5, <2>2, <3>3, <4>2, <4>4, RecordStep
        <5>2. QED
          BY <4>2, <4>4, <5>1
      <4>5. QED
        BY <4>1, <4>3, <4>4
    <3>5. QED
      BY <1>5, <2>2, <3>4, RecordStep
  <2>3. QED
    BY <2>1, <2>2
<1>6. CASE EnumProcessesDone
  BY <1>6 DEF EnumProcessesDone, TypeInv, IndexOK, osVars, scanVars, histVars
<1>7. CASE OpenFails \/ OpenProcess
  <2>1. /\ UNCHANGED <<os, lockers, locking_count, names, astray>>
        /\ pc = "open" /\ pc' \in {"open", "modules"}
        /\ \E p \in Read(i) : processes' = [processes EXCEPT ![i] = p]
    BY <1>7 DEF OpenFails, OpenProcess, NextProcess, osVars, scanVars, histVars
  <2>2. \A k \in 1 .. locking_count : processes'[k] = processes[k]
    BY <2>1 DEF TypeInv, TypeOK, LoopOK, IndexOK
  <2>3. QED
    BY <2>1, <2>2
<1>8. CASE \/ UNCHANGED <<processes, locking_count, names, i, pc, os, lockers, astray>>
           \/ /\ UNCHANGED <<processes, locking_count, names, os, lockers, astray>>
              /\ pc' # "record" /\ (InScan' => InScan) /\ (InLoop' => InLoop)
  BY <1>8 DEF pid, Gone
<1>9. \/ Environment \/ StartScan \/ EnumProcessesDone \/ OpenFails
      \/ OpenProcess \/ FilterFindsLock \/ Record
      \/ UNCHANGED <<processes, locking_count, names, i, pc, os, lockers, astray>>
      \/ /\ UNCHANGED <<processes, locking_count, names, os, lockers, astray>>
         /\ pc' # "record" /\ (InScan' => InScan) /\ (InLoop' => InLoop)
  BY DEF Next, Program, NoReplacements, EnumerateProcesses,
         EnumProcessesOverflow, EnumProcessesAgain, EnumerateModules,
         ModulesOverflow, ModulesFail, ModulesTooMany, GiveUpOrRetry,
         NextProcess, ModulesListed, FilterFindsNone, RecordOverrun, Publish,
         KeepList, PrintOldCrashes, ReplaceList, ReallocFails, Stopped, vars,
         osVars, scanVars, histVars
<1>10. QED
  BY <1>1, <1>2, <1>3, <1>4, <1>5, <1>6, <1>7, <1>8, <1>9

\* Every entry a scan collects is a process that held a watched file during
\* that scan, under its own path, whatever the other processes do meanwhile;
\* only the id of one read out of the scratch buffer may be another.
THEOREM ScanSound == Spec => []EntriesWereLocking
<1>1. Init => TypeInv /\ EvidenceInv
  BY InitTypeInv DEF Init, EvidenceInv, EntriesWereLocking, InScan, InLoop
<1>2. TypeInv /\ EvidenceInv /\ [Next]_vars => TypeInv' /\ EvidenceInv'
  BY TypeInvStep, EvidenceStep
<1>3. EvidenceInv => EntriesWereLocking
  BY DEF EvidenceInv
<1>4. QED
  BY <1>1, <1>2, <1>3, PTL DEF Spec

-----------------------------------------------------------------------------
(* The list that is kept between the scans.                                *)

Entry(k) == [id |-> processes[k], name |-> names[k]]

\* What was found so far is how the list begins.
Agrees == \A k \in 1 .. locking_count :
            k <= Len(p_locking_processes) /\ p_locking_processes[k] = Entry(k)

\* old_state_invalid says at every moment of the loop whether the list differs
\* from what was found so far.
ListInv ==
  /\ NumMatchesList
  /\ pc = "enum" => ~old_state_invalid
  /\ InLoop /\ p_allocated /\ old_state_invalid => ~Agrees
  /\ InLoop /\ p_allocated /\ ~old_state_invalid => Agrees
  /\ InLoop /\ ~p_allocated /\ ~old_state_invalid => locking_count = 0
  /\ Completed /\ p_allocated => Agrees

LEMMA FoundEntries ==
  ASSUME TypeInv, NEW k \in 1 .. locking_count
  PROVE  Found[k] = Entry(k)
  BY DEF Found, Entry

LEMMA FoundLength == TypeInv => Len(Found) = locking_count
<1> SUFFICES ASSUME TypeInv PROVE Len(Found) = locking_count
  OBVIOUS
<1>1. locking_count \in Nat
  BY DEF TypeInv, TypeOK, LoopOK
<1>2. QED
  BY <1>1 DEF Found

\* The comparison Record makes is that of the entry it adds.
LEMMA ListRecordStep ==
  ASSUME TypeInv, ListInv, Record, ~Insufficient
  PROVE  ListInv'
<1>1. /\ pc = "record" /\ pc' = "open" /\ locking_count \in Nat
      /\ locking_count' = locking_count + 1
      /\ UNCHANGED <<p_allocated, p_locking_processes, num_locking_processes>>
      /\ p_locking_processes \in Seq(Entries)
      /\ Len(p_locking_processes) \in Nat
  BY RecordStep, LenProperties
  DEF Record, stateVars, TypeInv, TypeOK, ListOK, LoopOK
<1>2. \A k \in 1 .. locking_count : Entry(k)' = Entry(k)
  <2>1. \A k \in 1 .. locking_count : k \in 1 .. Len(processes) /\ k # locking_count + 1
    BY RecordStep, <1>1 DEF TypeInv, TypeOK, LoopOK
  <2>2. \A k \in 1 .. locking_count :
          processes'[k] = processes[k] /\ names'[k] = names[k]
    BY <2>1, RecordStep
  <2>3. QED
    BY <2>2 DEF Entry
<1>4. PICK id \in IdsRecorded :
        /\ processes'[locking_count + 1] = id
        /\ old_state_invalid' = (old_state_invalid \/ ~SameAsOld(id))
  BY RecordStep
<1>3. ASSUME NEW n, n = locking_count + 1
      PROVE  Entry(n)' = [id |-> id, name |-> module_path]
  <2>1. processes'[n] = id /\ names'[n] = module_path
    BY <1>3, <1>4, RecordStep
  <2>2. QED
    BY <2>1 DEF Entry
<1>5. Agrees' <=> /\ Agrees
                  /\ locking_count + 1 <= Len(p_locking_processes)
                  /\ p_locking_processes[locking_count + 1] =
                       [id |-> id, name |-> module_path]
  <2>1. Agrees' <=> \A k \in 1 .. locking_count + 1 :
                       /\ k <= Len(p_locking_processes)
                       /\ p_locking_processes[k] = Entry(k)'
    BY <1>1 DEF Agrees
  <2>2. \A k : k \in 1 .. locking_count + 1 <=>
                 k \in 1 .. locking_count \/ k = locking_count + 1
    BY <1>1
  <2>3. Agrees <=> \A k \in 1 .. locking_count :
                      /\ k <= Len(p_locking_processes)
                      /\ p_locking_processes[k] = Entry(k)'
    BY <1>2 DEF Agrees
  <2>4. QED
    BY <1>3, <2>1, <2>2, <2>3, Zenon
<1>6. CASE ~p_allocated
  <2>1. old_state_invalid'
    BY <1>4, <1>6 DEF SameAsOld
  <2>2. QED
    BY <1>1, <1>6, <2>1 DEF ListInv, InLoop, NumMatchesList, Completed
<1>7. CASE p_allocated
  <2>1. num_locking_processes = Len(p_locking_processes)
    BY <1>7 DEF ListInv, NumMatchesList
  <2>2. SameAsOld(id) <=> /\ locking_count + 1 <= Len(p_locking_processes)
                          /\ p_locking_processes[locking_count + 1] =
                               [id |-> id, name |-> module_path]
    <3>1. CASE locking_count + 1 <= Len(p_locking_processes)
      <4>1. p_locking_processes[locking_count + 1] \in Entries
        BY <1>1, <3>1, ElementOfSeq
      <4>2. QED
        BY <1>1, <1>7, <2>1, <3>1, <4>1 DEF SameAsOld, InOldList, Entries
    <3>2. CASE ~(locking_count + 1 <= Len(p_locking_processes))
      BY <1>1, <2>1, <3>2 DEF SameAsOld, InOldList
    <3>3. QED
      BY <3>1, <3>2
  <2>3. /\ old_state_invalid' => ~Agrees'
        /\ ~old_state_invalid' => Agrees'
    BY <1>1, <1>4, <1>5, <1>7, <2>2 DEF ListInv, InLoop
  <2>4. QED
    BY <1>1, <1>7, <2>1, <2>3 DEF ListInv, InLoop, NumMatchesList, Completed
<1>8. QED
  BY <1>6, <1>7

LEMMA ListInvStep == TypeInv /\ ListInv /\ [Next]_vars => ListInv'
<1> SUFFICES ASSUME TypeInv, ListInv, [Next]_vars PROVE ListInv'
  OBVIOUS
<1> DEFINE comparedVars ==
             <<old_state_invalid, locking_count, names, p_allocated,
               p_locking_processes, num_locking_processes>>
<1>1. CASE /\ UNCHANGED <<comparedVars, processes, num_processes>>
           /\ \/ UNCHANGED <<pc, i>>
              \/ InLoop /\ InLoop'
              \/ pc' \in {"exited"} \cup Ends
  BY <1>1 DEF ListInv, NumMatchesList, Completed, Agrees, Entry, InLoop, Ends
<1>2. CASE StartScan
  BY <1>2
  DEF StartScan, ListInv, NumMatchesList, Completed, InLoop, stateVars
<1>3. CASE EnumProcessesAgain \/ EnumProcessesDone
  <2>1. /\ pc = "enum" /\ pc' \in {"enum", "open"}
        /\ ~old_state_invalid /\ locking_count = 0
        /\ UNCHANGED comparedVars
    BY <1>3
    DEF EnumProcessesAgain, EnumProcessesDone, ListInv, TypeInv, IndexOK,
        scanVars, stateVars
  <2>2. QED
    BY <2>1 DEF ListInv, NumMatchesList, Completed, Agrees, InLoop
<1>4. CASE OpenFails \/ OpenProcess
  <2>1. /\ UNCHANGED comparedVars /\ pc = "open" /\ pc' \in {"open", "modules"}
        /\ \E p \in Read(i) : processes' = [processes EXCEPT ![i] = p]
    BY <1>4 DEF OpenFails, OpenProcess, NextProcess, scanVars, stateVars
  <2>2. \A k \in 1 .. locking_count : processes'[k] = processes[k]
    BY <2>1 DEF TypeInv, TypeOK, LoopOK, IndexOK, InLoop
  <2>3. QED
    BY <2>1, <2>2 DEF ListInv, NumMatchesList, Completed, Agrees, Entry, InLoop
<1>5. CASE Record /\ Insufficient
  <2>1. /\ pc' = "update" /\ UNCHANGED <<comparedVars, i, num_processes>>
        /\ i <= num_processes
    BY <1>5 DEF Record, TypeInv, IndexOK, HandleHeld, InLoop, stateVars, enumVars
  <2>2. QED
    BY <2>1 DEF ListInv, NumMatchesList, Completed, InLoop, TypeInv, TypeOK, LoopOK
<1>6. CASE Record /\ ~Insufficient
  BY <1>6, ListRecordStep
<1>7. CASE KeepList
  BY <1>7
  DEF KeepList, ScanOver, scanVars, stateVars, ListInv, NumMatchesList,
      Completed, Agrees, Entry, InLoop
<1>8. CASE ReplaceList
  <2>1. /\ p_locking_processes' = Found /\ num_locking_processes' = locking_count
        /\ pc' = "update" /\ UNCHANGED <<processes, names, locking_count>>
    BY <1>8 DEF ReplaceList, scanVars
  <2>2. locking_count \in Nat
    BY DEF TypeInv, TypeOK, LoopOK
  <2>3. Agrees'
    BY <2>1, <2>2, FoundEntries, FoundLength DEF Agrees, Entry
  <2>4. QED
    BY <2>1, <2>3, FoundLength DEF ListInv, NumMatchesList, InLoop
<1>9. CASE ReallocFails
  BY <1>9 DEF ReallocFails, ListInv, NumMatchesList, InLoop
<1>10. \/ /\ UNCHANGED <<comparedVars, processes, num_processes>>
          /\ \/ UNCHANGED <<pc, i>>
             \/ InLoop /\ InLoop'
             \/ pc' \in {"exited"} \cup Ends
       \/ StartScan \/ EnumProcessesAgain \/ EnumProcessesDone \/ OpenFails
       \/ OpenProcess \/ Record \/ KeepList \/ ReplaceList \/ ReallocFails
  <2>1. CASE EnumerateModules
    BY <2>1
    DEF EnumerateModules, ModulesOverflow, ModulesFail, ModulesTooMany,
        GiveUpOrRetry, NextProcess, ModulesListed, FilterFindsNone,
        FilterFindsLock, enumVars, scanVars, stateVars, InLoop, Ends
  <2>2. QED
    BY <2>1
    DEF Next, Environment, Start, Exit, Reload, TableBecomes, Program,
        NoReplacements, EnumerateProcesses, EnumProcessesOverflow,
        RecordOverrun, Publish, PrintOldCrashes, Stopped, vars, enumVars,
        scanVars, stateVars, Ends
<1>11. QED
  BY <1>1, <1>2, <1>3, <1>4, <1>5, <1>6, <1>7, <1>8, <1>9, <1>10

LEMMA ListInvariant == Spec => [](TypeInv /\ ListInv)
<1>1. Init => TypeInv /\ ListInv
  BY InitTypeInv
  DEF Init, ListInv, NumMatchesList, InLoop, Completed, Agrees
<1>2. TypeInv /\ ListInv /\ [Next]_vars => TypeInv' /\ ListInv'
  BY TypeInvStep, ListInvStep
<1>3. QED
  BY <1>1, <1>2, PTL DEF Spec

\* After a scan that ran to its end the list begins with what was found, also
\* when the comparison in the loop (main.c:554) let it stand.
THEOREM ListBeginsWithFound == Spec => []FoundIsPrefix
<1>1. TypeInv /\ ListInv => FoundIsPrefix
  <2> SUFFICES ASSUME TypeInv, Completed, p_allocated, Agrees
               PROVE  /\ locking_count <= Len(p_locking_processes)
                      /\ \A k \in 1 .. locking_count :
                           p_locking_processes[k] = Found[k]
    BY DEF ListInv, FoundIsPrefix
  <2>1. locking_count \in Nat /\ Len(p_locking_processes) \in Nat
    BY LenProperties DEF TypeInv, TypeOK, LoopOK, ListOK
  <2>2. QED
    BY <2>1, FoundEntries DEF Agrees
<1>2. QED
  BY <1>1, ListInvariant, PTL

\* The list is rebuilt only when it has to be: "Don't want to call
\* realloc/malloc un-necessarily" (main.c:498).
THEOREM NoNeedlessRealloc == Spec => []ReallocOnlyOnChange
<1>1. TypeInv /\ ListInv => ReallocOnlyOnChange
  <2> SUFFICES ASSUME TypeInv, ~Agrees, p_locking_processes = Found PROVE FALSE
    BY DEF ListInv, ReallocOnlyOnChange, ScanOver, InLoop
  <2>1. locking_count \in Nat
    BY DEF TypeInv, TypeOK, LoopOK
  <2>2. QED
    BY <2>1, FoundEntries, FoundLength DEF Agrees
<1>2. QED
  BY <1>1, ListInvariant, PTL

\* The count never disagrees with a list that is there; after a failed realloc
\* (main.c:580) there is no list.
THEOREM CountOfList == Spec => []NumMatchesList
<1>1. ListInv => NumMatchesList
  BY DEF ListInv
<1>2. QED
  BY <1>1, ListInvariant, PTL

\* Both: nothing the environment or a failing allocation does (main.c:578)
\* parts the count, the list and what was found.
THEOREM ListIsSound == Spec => []ListSound
  BY ListBeginsWithFound, CountOfList, PTL DEF ListSound

-----------------------------------------------------------------------------
(* Completeness: what holds a watched file all along is reported.          *)

Small(p) == os[p].mods * HandleWords <= ModulesIncrement
Pending(p) == \E k \in i .. Len(snap) : snap[k] = p

\* Reported by an entry that is not read out of the scratch buffer.
Noted(p) == \E k \in 1 .. locking_count : k \notin astray /\ processes[k] = p

\* A process that has held the file since the scan began is either reported or
\* still ahead in the buffer, or it is the one in hand.
CompleteInv ==
  /\ InScan => steady \subseteq Visible(os)
  /\ pc = "filter" /\ pid \in steady => listed
  /\ InLoop => \A p \in steady : Small(p) => Noted(p) \/ Pending(p)
  /\ SteadySmallFound

\* A process that waits at the loop's position is the one the loop looks at.
LEMMA PendingHere ==
  ASSUME TypeInv, LayoutInv, InLoop, NEW p \in Pids, Pending(p)
  PROVE  \/ i <= Len(snap) /\ processes[i] = p /\ i \in 1 .. Len(snap)
         \/ \E k \in (i + 1) .. Len(snap) : snap[k] = p
<1>1. i \in Nat \ {0} /\ Len(snap) \in Nat
  BY LenProperties DEF TypeInv, TypeOK, LoopOK
<1>2. PICK k \in i .. Len(snap) : snap[k] = p
  BY DEF Pending
<1>3. processes[k] = p
  BY <1>2 DEF LayoutInv, CompactionIntact
<1>4. QED
  BY <1>1, <1>2, <1>3

\* The loop may leave an entry behind when it is none of those to be reported.
LEMMA PassedBy ==
  ASSUME TypeInv, LayoutInv, CompleteInv, InLoop, InLoop', i' = i + 1,
         UNCHANGED <<os, steady, snap, locking_count, astray>>,
         \A k \in 1 .. locking_count : processes'[k] = processes[k],
         i <= Len(snap) => ~(processes[i] \in steady /\ Small(processes[i])),
         pc' # "filter"
  PROVE  CompleteInv'
<1>1. steady' \subseteq Visible(os')
  BY DEF CompleteInv, InScan
<1>2. ASSUME NEW p \in steady, Small(p)
      PROVE  Noted(p)' \/ Pending(p)'
  <2>1. p \in Pids
    BY DEF TypeInv, TypeOK, TableOK
  <2>2. CASE Noted(p)
    BY <2>2 DEF Noted
  <2>3. CASE Pending(p)
    <3>1. \E k \in (i + 1) .. Len(snap) : snap[k] = p
      BY <1>2, <2>1, <2>3, PendingHere
    <3>2. QED
      BY <3>1 DEF Pending
  <2>4. QED
    BY <1>2, <2>2, <2>3 DEF CompleteInv
<1>3. QED
  BY <1>1, <1>2 DEF CompleteInv, SteadySmallFound, Completed, InLoop, Small

LEMMA CompleteStep ==
  TypeInv /\ LayoutInv /\ CompleteInv /\ [Next]_vars => CompleteInv'
<1> SUFFICES ASSUME TypeInv, LayoutInv, CompleteInv, [Next]_vars
             PROVE  CompleteInv'
  OBVIOUS
<1>0. /\ steady \subseteq Pids /\ i \in Nat \ {0} /\ locking_count \in Nat
      /\ stack \in Nat
      /\ num_processes \in Nat /\ Len(snap) \in Nat
      /\ os \in [Pids -> Kinds \cup {Absent}]
      /\ num_modules \in Nat /\ ModulesIncrement \in Nat
  BY LenProperties, SizesAssumption
  DEF TypeInv, TypeOK, TableOK, LoopOK, ModulesOK
<1>1. ASSUME NEW p \in Pids, NEW k \in Kinds \cup {Absent}, TableBecomes(p, k)
      PROVE  CompleteInv'
  <2>1. /\ \A q \in steady' : q \in steady /\ os'[q] = os[q]
        /\ UNCHANGED <<pc, i, snap, processes, locking_count, astray, listed,
                       num_processes>>
    BY <1>0, <1>1 DEF TableBecomes, scanVars, modVars, enumVars
  <2>2. InScan' => steady' \subseteq Visible(os')
    BY <1>0, <2>1 DEF CompleteInv, InScan, InLoop, Visible, Locking
  <2>3. QED
    BY <2>1, <2>2
    DEF CompleteInv, InLoop, SteadySmallFound, Completed, Noted, Reported,
        Pending, Small, pid
<1>2. CASE StartScan
  BY <1>2 DEF StartScan, CompleteInv, InScan, InLoop, SteadySmallFound,
              Completed, osVars
<1>3. CASE EnumProcessesAgain
  BY <1>3 DEF EnumProcessesAgain, CompleteInv, InScan, InLoop,
              SteadySmallFound, Completed, osVars, histVars
<1>4. CASE EnumProcessesDone
  <2>1. PICK s \in Enumerations(Live) :
          /\ snap' = s
          /\ processes' = s \o [k \in 1 .. ProcessIncrement |-> Junk]
    BY <1>4 DEF EnumProcessesDone
  <2>2. \A p \in Live : \E k \in 1 .. Len(snap') : snap'[k] = p
    BY <2>1, LiveFinite, BufferLaidOut
  <2>3. /\ pc = "enum" /\ pc' = "open" /\ i' = 1
        /\ UNCHANGED <<os, steady>>
    BY <1>4 DEF EnumProcessesDone, TypeInv, IndexOK, osVars, scanVars, histVars
  <2>4. steady \subseteq Live /\ steady \subseteq Visible(os)
    BY <2>3 DEF CompleteInv, InScan, Visible, Locking, Live
  <2>5. QED
    BY <2>2, <2>3, <2>4
    DEF CompleteInv, InScan, InLoop, SteadySmallFound, Completed, Pending
<1>5. CASE OpenFails
  <2>1. /\ pc = "open" /\ i <= num_processes /\ i' = i + 1 /\ pc' = "open"
        /\ UNCHANGED <<os, steady, snap, locking_count, astray>>
    BY <1>5 DEF OpenFails, NextProcess, osVars, histVars
  <2>2. PICK p \in Read(i) : ~Opens(p) /\ processes' = [processes EXCEPT ![i] = p]
    BY <1>5 DEF OpenFails
  <2>3. \A k \in 1 .. locking_count : processes'[k] = processes[k]
    BY <1>0, <2>1, <2>2 DEF TypeInv, TypeOK, LoopOK, IndexOK, InLoop
  <2>4. ASSUME processes[i] \in steady PROVE FALSE
    <3>1. p = processes[i]
      BY <1>0, <2>2, <2>4, PidsAssumption DEF Read
    <3>2. processes[i] \in Visible(os)
      BY <2>1, <2>4 DEF CompleteInv, InScan, InLoop
    <3>3. QED
      BY <2>2, <3>1, <3>2 DEF Opens, Live, Visible, Locking
  <2>5. QED
    BY <2>1, <2>3, <2>4, PassedBy DEF InLoop
<1>6. CASE OpenProcess
  <2>1. /\ pc = "open" /\ pc' = "modules" /\ i <= num_processes
        /\ UNCHANGED <<os, steady, snap, locking_count, astray, i>>
    BY <1>6 DEF OpenProcess, osVars, histVars, scanVars
  <2>2. PICK p \in Read(i) : processes' = [processes EXCEPT ![i] = p]
    BY <1>6 DEF OpenProcess
  <2>3. \A k \in 1 .. locking_count : processes'[k] = processes[k]
    BY <1>0, <2>1, <2>2 DEF TypeInv, TypeOK, LoopOK, IndexOK, InLoop
  <2>4. QED
    BY <2>1, <2>3
    DEF CompleteInv, InScan, InLoop, SteadySmallFound, Completed, Noted,
        Pending, Small
<1>7. ASSUME HandleHeld, pid \in steady
      PROVE  /\ ~Gone /\ Enumerable /\ os[pid].locks = TRUE
             /\ Needed = os[pid].mods * HandleWords /\ Needed \in Nat
  <2>1. pid \in Visible(os) /\ os[pid] \in Kinds
    BY <1>0, <1>7
    DEF CompleteInv, InScan, InLoop, HandleHeld, Visible, Locking
  <2>2. os[pid].mods \in Nat /\ os[pid].locks \in BOOLEAN /\ HandleWords \in Nat
    BY <2>1, KindsAssumption, SizesAssumption DEF KindRecords
  <2>3. QED
    BY <2>1, <2>2 DEF Visible, Locking, Gone, Enumerable, Needed
<1>8. ASSUME HandleHeld, NextProcess,
             UNCHANGED <<os, steady, snap, locking_count, astray, processes>>,
             ~(pid \in steady /\ Small(pid))
      PROVE  CompleteInv'
  BY <1>8, PassedBy DEF HandleHeld, NextProcess, InLoop, pid
<1>9. ASSUME HandleHeld, HandleHeld',
             UNCHANGED <<os, steady, snap, locking_count, astray, processes, i>>,
             pc' = "filter" /\ pid \in steady => listed'
      PROVE  CompleteInv'
  BY <1>9
  DEF CompleteInv, InScan, InLoop, HandleHeld, SteadySmallFound, Completed,
      Noted, Pending, Small, pid
<1>10. CASE ModulesFail \/ ModulesTooMany
  <2>1. /\ pc = "modules" /\ Room(Attempt)
        /\ ~Enumerable \/ (Enumerable /\ Attempt < Needed)
        /\ UNCHANGED <<os, steady, snap, locking_count, astray, processes>>
        /\ \/ NextProcess
           \/ UNCHANGED <<pc, i>>
    BY <1>10
    DEF ModulesFail, ModulesTooMany, GiveUpOrRetry, osVars, histVars
  <2>2. ~(pid \in steady /\ Small(pid))
    <3>1. Attempt \in Nat /\ ModulesIncrement <= Attempt
      BY <1>0 DEF Attempt
    <3>2. ASSUME pid \in steady, Small(pid) PROVE FALSE
      <4>1. Enumerable /\ Needed \in Nat /\ Needed = os[pid].mods * HandleWords
        BY <1>7, <2>1, <3>2 DEF HandleHeld
      <4>2. Needed <= ModulesIncrement
        BY <3>2, <4>1 DEF Small
      <4>3. QED
        BY <1>0, <2>1, <3>1, <4>1, <4>2
    <3>3. QED
      BY <3>2
  <2>3. QED
    BY <1>8, <1>9, <2>1, <2>2 DEF HandleHeld
<1>11. CASE ModulesListed
  <2>1. /\ pc = "modules" /\ pc' = "filter" /\ listed' = os[pid].locks
        /\ UNCHANGED <<os, steady, snap, locking_count, astray, processes, i>>
    BY <1>11 DEF ModulesListed, osVars, histVars, scanVars
  <2>2. QED
    BY <1>7, <1>9, <2>1 DEF HandleHeld
<1>12. CASE FilterFindsNone
  <2>1. /\ pc = "filter" /\ ~MaskLocked /\ NextProcess
        /\ UNCHANGED <<os, steady, snap, locking_count, astray, processes>>
    BY <1>12 DEF FilterFindsNone, osVars, histVars
  <2>2. pid \notin steady
    BY <1>7, <2>1 DEF CompleteInv, MaskLocked, HandleHeld
  <2>3. QED
    BY <1>8, <2>1, <2>2 DEF HandleHeld
<1>13. CASE FilterFindsLock
  <2>1. /\ pc = "filter" /\ pc' = "record"
        /\ UNCHANGED <<os, steady, snap, locking_count, astray, processes, i>>
    BY <1>13 DEF FilterFindsLock, osVars, histVars, scanVars
  <2>2. QED
    BY <1>9, <2>1 DEF HandleHeld
<1>14. CASE Record /\ Insufficient
  <2>1. /\ pc' = "update" /\ UNCHANGED <<i, num_processes>> /\ i <= num_processes
    BY <1>14 DEF Record, TypeInv, IndexOK, HandleHeld, InLoop, enumVars
  <2>2. QED
    BY <1>0, <2>1 DEF CompleteInv, InScan, InLoop, SteadySmallFound, Completed
<1>15. CASE Record /\ ~Insufficient
  <2>1. /\ pc = "record" /\ pc' = "open" /\ i' = i + 1 /\ i <= num_processes
        /\ locking_count' = locking_count + 1 /\ locking_count < i
        /\ Len(processes) = num_processes
        /\ UNCHANGED <<os, steady, snap>>
        /\ ~Overwritten(i) => processes'[locking_count + 1] = pid
        /\ \A k \in 1 .. Len(processes) :
             k # locking_count + 1 => processes'[k] = processes[k]
        /\ astray' = IF Overwritten(i) THEN astray \cup {locking_count + 1}
                                       ELSE astray
    BY <1>15, RecordStep
  <2>2. ASSUME NEW p \in steady, Small(p)
        PROVE  Noted(p)' \/ Pending(p)'
    <3>1. CASE Noted(p)
      <4>1. PICK k \in 1 .. locking_count : k \notin astray /\ processes[k] = p
        BY <3>1 DEF Noted
      <4>2. k \in 1 .. Len(processes) /\ k # locking_count + 1
            /\ k \in 1 .. locking_count'
        BY <1>0, <2>1
      <4>3. QED
        BY <2>1, <4>1, <4>2 DEF Noted
    <3>2. CASE \E k \in (i + 1) .. Len(snap) : snap[k] = p
      BY <2>1, <3>2 DEF Pending
    <3>3. CASE i <= Len(snap) /\ processes[i] = p
      <4>1. ~Overwritten(i)
        BY <1>0, <2>1, <3>3 DEF Overwritten, InScratch, LayoutInv, InLoop
      <4>2. /\ locking_count + 1 \in 1 .. locking_count'
            /\ locking_count + 1 \notin astray'
        BY <1>0, <2>1, <4>1 DEF TypeInv, TypeOK, TableOK
      <4>3. QED
        BY <2>1, <3>3, <4>1, <4>2 DEF Noted, pid
    <3>4. QED
      BY <1>0, <2>1, <2>2, <3>1, <3>2, <3>3, PendingHere DEF CompleteInv, InLoop
  <2>3. QED
    BY <2>1, <2>2
    DEF CompleteInv, InScan, InLoop, SteadySmallFound, Completed, Small
<1>16. CASE Publish
  <2>1. /\ ScanOver /\ pc' \in {"update"} \cup Ends
        /\ UNCHANGED <<os, steady, snap, locking_count, astray, processes, i,
                       num_processes>>
    BY <1>16
    DEF Publish, KeepList, PrintOldCrashes, ReplaceList, ReallocFails, osVars,
        histVars, scanVars, enumVars, Ends
  <2>2. \A p \in steady : ~Pending(p)
    BY <1>0, <2>1 DEF Pending, ScanOver, LayoutInv, InLoop
  <2>3. \A p \in steady : Small(p) => Noted(p)
    BY <2>1, <2>2 DEF CompleteInv, InLoop, ScanOver
  <2>4. QED
    BY <2>1, <2>3
    DEF CompleteInv, InScan, InLoop, SteadySmallFound, Noted, Reported, Small,
        Ends
<1>17. CASE \/ UNCHANGED <<os, steady, snap, locking_count, astray, processes, i,
                           num_processes, pc, listed>>
            \/ pc' \in {"exited"} \cup Ends
  BY <1>17
  DEF CompleteInv, InScan, InLoop, SteadySmallFound, Completed, Noted, Reported,
      Pending, Small, pid, Ends
<1>18. \/ \E p \in Pids, k \in Kinds \cup {Absent} : TableBecomes(p, k)
       \/ StartScan \/ EnumProcessesAgain \/ EnumProcessesDone \/ OpenFails
       \/ OpenProcess \/ ModulesFail \/ ModulesTooMany \/ ModulesListed
       \/ FilterFindsNone \/ FilterFindsLock \/ Record \/ Publish
       \/ UNCHANGED <<os, steady, snap, locking_count, astray, processes, i,
                      num_processes, pc, listed>>
       \/ pc' \in {"exited"} \cup Ends
  BY DEF Next, Environment, Start, Exit, Reload, Program, NoReplacements,
         EnumerateProcesses, EnumProcessesOverflow, EnumerateModules,
         ModulesOverflow, RecordOverrun, Stopped, vars, Ends, histVars
<1>19. QED
  BY <1>1, <1>2, <1>3, <1>4, <1>5, <1>6, <1>10, <1>11, <1>12, <1>13, <1>14,
     <1>15, <1>16, <1>17, <1>18

\* A scan that ends well misses no process that held a watched file all along,
\* as long as the first attempt has room for its modules.  (For others the
\* last error of an earlier process can end the attempts: see SteadyFound.)
THEOREM ScanCompleteForSmall == Spec => []SteadySmallFound
<1>1. Init => TypeInv /\ LayoutInv /\ CompleteInv
  BY InitTypeInv
  DEF Init, LayoutInv, CompleteInv, InScan, InLoop, SteadySmallFound, Completed
<1>2. TypeInv /\ LayoutInv /\ CompleteInv /\ [Next]_vars
        => TypeInv' /\ LayoutInv' /\ CompleteInv'
  BY TypeInvStep, LayoutStep, CompleteStep
<1>3. CompleteInv => SteadySmallFound
  BY DEF CompleteInv
<1>4. QED
  BY <1>1, <1>2, <1>3, PTL DEF Spec

-----------------------------------------------------------------------------
(* The loop implements LockMonitor: every step of LockingProcesses is a    *)
(* step of it or changes nothing it knows of.                              *)

\* While a process holds a file throughout a scan, what the scan wrote down of
\* it is its path; and the loop has always at least one entry to look at.
RecordedInv ==
  InLoop =>
    /\ 0 < num_processes
    /\ \A k \in 1 .. locking_count :
         k \notin astray /\ processes[k] \in steady =>
           names[k] = os[processes[k]].path

LEMMA RecordedInvStep ==
  TypeInv /\ CompleteInv /\ RecordedInv /\ [Next]_vars => RecordedInv'
<1> SUFFICES ASSUME TypeInv, CompleteInv, RecordedInv, [Next]_vars
             PROVE  RecordedInv'
  OBVIOUS
<1> DEFINE recordVars == <<os, steady, num_processes, processes, names,
                           locking_count, astray>>
<1>0. /\ steady \subseteq Pids /\ i \in Nat \ {0} /\ locking_count \in Nat
      /\ num_processes \in Nat
      /\ os \in [Pids -> Kinds \cup {Absent}]
      /\ processes \in Seq(Pids \cup {NoPid, Junk})
  BY DEF TypeInv, TypeOK, TableOK, LoopOK
<1>1. ASSUME NEW p \in Pids, NEW k \in Kinds \cup {Absent}, TableBecomes(p, k)
      PROVE  RecordedInv'
  <2>1. /\ \A q \in steady' : q \in steady /\ os'[q] = os[q]
        /\ UNCHANGED <<pc, num_processes, processes, names, locking_count,
                       astray>>
    BY <1>0, <1>1 DEF TableBecomes, scanVars, enumVars
  <2>2. QED
    BY <2>1 DEF RecordedInv, InLoop
<1>2. CASE StartScan \/ EnumProcessesAgain
  BY <1>2 DEF StartScan, EnumProcessesAgain, RecordedInv, InLoop
<1>3. CASE EnumProcessesDone
  BY <1>3, LiveFinite, SizesAssumption
  DEF EnumProcessesDone, RecordedInv, scanVars, TypeInv, IndexOK
<1>4. CASE OpenFails \/ OpenProcess
  <2>1. /\ UNCHANGED <<os, steady, locking_count, astray, names, num_processes>>
        /\ pc = "open"
        /\ \E p \in Read(i) : processes' = [processes EXCEPT ![i] = p]
    BY <1>4 DEF OpenFails, OpenProcess, osVars, scanVars, histVars, enumVars
  <2>2. \A k \in 1 .. locking_count : processes'[k] = processes[k]
    BY <1>0, <2>1 DEF TypeInv, IndexOK, InLoop
  <2>3. QED
    BY <2>1, <2>2 DEF RecordedInv, InLoop
<1>5. CASE Record /\ Insufficient
  BY <1>5 DEF Record, RecordedInv, InLoop
<1>6. CASE Record /\ ~Insufficient
  <2>1. /\ pc = "record" /\ i <= num_processes /\ locking_count < i
        /\ locking_count' = locking_count + 1
        /\ Len(processes) = num_processes
        /\ UNCHANGED <<os, steady, num_processes>>
        /\ ~Overwritten(i) => processes'[locking_count + 1] = pid
        /\ \A k \in 1 .. Len(processes) :
             k # locking_count + 1 => processes'[k] = processes[k]
        /\ astray' = IF Overwritten(i) THEN astray \cup {locking_count + 1}
                                       ELSE astray
        /\ \A k \in 1 .. locking_count : names'[k] = names[k]
        /\ names'[locking_count + 1] = module_path
    BY <1>6, RecordStep
  <2>2. ASSUME NEW k \in 1 .. locking_count', k \notin astray',
               processes'[k] \in steady
        PROVE  names'[k] = os[processes'[k]].path
    <3>1. k \in 1 .. Len(processes)
      BY <1>0, <2>1
    <3>2. CASE k = locking_count + 1
      <4>1. pid \in steady /\ processes'[k] = pid
        BY <2>1, <2>2, <3>2
      <4>2. ~Gone
        BY <2>1, <4>1 DEF CompleteInv, InScan, InLoop, Visible, Locking, Gone
      <4>3. QED
        BY <2>1, <3>2, <4>1, <4>2 DEF module_path
    <3>3. CASE k # locking_count + 1
      <4>1. /\ k \in 1 .. locking_count /\ processes'[k] = processes[k]
            /\ k \notin astray
        BY <1>0, <2>1, <2>2, <3>1, <3>3
      <4>2. QED
        BY <2>1, <2>2, <4>1 DEF RecordedInv, InLoop
    <3>4. QED
      BY <3>2, <3>3
  <2>3. QED
    BY <2>1, <2>2 DEF RecordedInv, InLoop
<1>7. CASE UNCHANGED recordVars /\ (InLoop' => InLoop)
  BY <1>7 DEF RecordedInv
<1>8. \/ \E p \in Pids, k \in Kinds \cup {Absent} : TableBecomes(p, k)
      \/ StartScan \/ EnumProcessesAgain \/ EnumProcessesDone \/ OpenFails
      \/ OpenProcess \/ Record
      \/ UNCHANGED recordVars /\ (InLoop' => InLoop)
  BY DEF Next, Environment, Start, Exit, Reload, Program, NoReplacements,
         EnumerateProcesses, EnumProcessesOverflow, EnumerateModules,
         ModulesOverflow, ModulesFail, ModulesTooMany, GiveUpOrRetry,
         NextProcess, ModulesListed, FilterFindsNone, FilterFindsLock,
         RecordOverrun, Publish, KeepList, PrintOldCrashes, ReplaceList,
         ReallocFails, Stopped, vars, osVars, scanVars, enumVars, histVars,
         InLoop
<1>9. QED
  BY <1>1, <1>2, <1>3, <1>4, <1>5, <1>6, <1>7, <1>8

-----------------------------------------------------------------------------
(* The step simulation, one action of LockMonitor after the other.         *)

MonitorInv == TypeInv /\ LayoutInv /\ EvidenceInv /\ ListInv /\ CompleteInv
                /\ RecordedInv

\* What the scan has found, as LockMonitor sees a list.
FoundPairs == {<<processes[k], names[k]>> : k \in 1 .. locking_count}

LEMMA HoldersAreLockers ==
  ASSUME os \in [Pids -> Kinds \cup {Absent}]
  PROVE  /\ Monitor!Holders(LockingKinds) = Lockers(os)
         /\ \A p \in Visible(os) :
              os[p] \in EasyKinds <=> Small(p)
         /\ \A p \in Pids : os[p] \in EasyKinds => p \in Visible(os)
<1>1. \A p \in Pids : os[p] \in LockingKinds <=> p \in Locking(os)
  BY KindsAssumption DEF LockingKinds, Locking, KindRecords
<1>2. Monitor!Holders(LockingKinds) = Lockers(os)
  BY <1>1 DEF Monitor!Holders, Lockers, Locking
<1>3. QED
  BY <1>1, <1>2, KindsAssumption
  DEF EasyKinds, LockingKinds, Visible, Locking, Small

LEMMA TableChangesSimulated ==
  ASSUME TypeInv, NEW p \in Pids, NEW k \in Kinds \cup {Absent},
         TableBecomes(p, k)
  PROVE  Monitor!TableChanges
<1>0. /\ os \in [Pids -> Kinds \cup {Absent}] /\ steady \subseteq Pids
      /\ os' = [os EXCEPT ![p] = k] /\ os' \in [Pids -> Kinds \cup {Absent}]
  BY DEF TypeInv, TypeOK, TableOK, TableBecomes
<1>1. \A q \in Pids : os'[q] \in LockingKinds <=> q \in Locking(os')
  BY <1>0, KindsAssumption DEF LockingKinds, Locking, KindRecords
<1>2. Monitor!Holders(LockingKinds)' = Lockers(os')
  BY <1>1 DEF Monitor!Holders, Lockers, Locking
<1>3. lockers' = lockers \cup Monitor!Holders(LockingKinds)'
  BY <1>2 DEF TableBecomes
<1>4. SureNow' = {s \in SureNow : s[1] # p}
  <2>1. steady' = steady \ {p} /\ \A q \in steady' : os'[q] = os[q]
    BY <1>0 DEF TableBecomes
  <2>2. QED
    BY <2>1 DEF SureNow
<1>5. InScan' = InScan /\ Fresh' = Fresh /\ Listed' = Listed
  BY DEF TableBecomes, stateVars, scanVars, enumVars, InScan, InLoop, Fresh,
         Listed
<1>6. astray' = astray
  BY DEF TableBecomes
<1>7. QED
  BY <1>0, <1>3, <1>4, <1>5, <1>6 DEF Monitor!TableChanges

\* An entry read from under the path: LockMonitor notes a wrong id.
LEMMA GarbleSimulated ==
  ASSUME TypeInv, Record, ~Insufficient, Overwritten(i)
  PROVE  Monitor!Garble
<1>1. /\ pc = "record" /\ pc' = "open" /\ UNCHANGED <<os, lockers, steady>>
      /\ astray' # {}
  BY RecordStep
<1>2. UNCHANGED <<SureNow, Listed, InScan, Fresh>> /\ InScan
  BY <1>1 DEF Record, stateVars, SureNow, Listed, InScan, InLoop, Fresh
<1>3. QED
  BY <1>1, <1>2 DEF Monitor!Garble

LEMMA LookSimulated ==
  ASSUME TypeInv, StartScan
  PROVE  Monitor!Look
<1>0. os \in [Pids -> Kinds \cup {Absent}]
  BY DEF TypeInv, TypeOK, TableOK
<1>1. /\ ~InScan /\ InScan' /\ ~Fresh'
      /\ UNCHANGED <<os, Listed>>
      /\ steady' = Visible(os) /\ lockers' = Lockers(os) /\ astray' = {}
  BY DEF StartScan, osVars, stateVars, InScan, InLoop, Fresh, Listed
<1>2. SureNow' = Monitor!Holders(EasyKinds)
  <2>1. \A q \in Pids : q \in Visible(os) /\ os[q] \in EasyKinds <=>
                        os[q] \in EasyKinds
    BY <1>0, HoldersAreLockers
  <2>2. Visible(os) \subseteq Pids
    BY DEF Visible, Locking
  <2>3. SureNow' = {<<q, os[q].path>> : q \in {r \in Visible(os) : os[r] \in EasyKinds}}
    BY <1>1 DEF SureNow
  <2>4. QED
    BY <2>1, <2>2, <2>3 DEF Monitor!Holders
<1>3. QED
  BY <1>0, <1>1, <1>2, HoldersAreLockers DEF Monitor!Look

\* A scan that has come to its end has found everyone who was sure, and nobody
\* who was not there.
LEMMA FoundIsDue ==
  ASSUME MonitorInv, ScanOver
  PROVE  /\ SureNow \subseteq FoundPairs
         /\ \A e \in FoundPairs : Monitor!Founded(e)
         /\ locking_count \in Nat /\ InScan /\ ~Fresh
<1>0. /\ steady \subseteq Visible(os) /\ InLoop /\ i \in Nat
      /\ os \in [Pids -> Kinds \cup {Absent}] /\ locking_count \in Nat
      /\ num_processes \in Nat /\ num_processes < i /\ steady \subseteq Pids
      /\ lockers \subseteq Pids \X Paths /\ pc = "open"
      /\ Len(snap) \in Nat /\ Len(snap) <= num_processes
  BY LenProperties
  DEF MonitorInv, CompleteInv, InScan, ScanOver, InLoop, TypeInv, TypeOK,
      TableOK, LoopOK, LayoutInv
<1>1. ASSUME NEW p \in steady, os[p] \in EasyKinds
      PROVE  <<p, os[p].path>> \in FoundPairs
  <2>1. Small(p)
    BY <1>0, <1>1, HoldersAreLockers
  <2>2. ~Pending(p)
    BY <1>0 DEF Pending
  <2>3. PICK k \in 1 .. locking_count : k \notin astray /\ processes[k] = p
    BY <1>0, <2>1, <2>2 DEF MonitorInv, CompleteInv, Noted
  <2>4. names[k] = os[p].path
    BY <1>0, <2>3 DEF MonitorInv, RecordedInv
  <2>5. QED
    BY <2>3, <2>4 DEF FoundPairs
<1>2. ASSUME NEW k \in 1 .. locking_count
      PROVE  Monitor!Founded(<<processes[k], names[k]>>)
  <2>1. PICK l \in lockers : /\ l[1] = processes[k] \/ k \in astray
                             /\ names[k] \in {l[2], EmptyPath}
    BY <1>0 DEF MonitorInv, EvidenceInv, EntriesWereLocking
  <2>2. QED
    BY <2>1 DEF Monitor!Founded
<1>3. QED
  BY <1>0, <1>1, <1>2 DEF SureNow, FoundPairs, InScan, Fresh

\* A list that agrees with what was found holds it.
LEMMA AgreeingListHolds ==
  ASSUME TypeInv, Agrees
  PROVE  FoundPairs \subseteq Listed
<1>1. /\ locking_count \in Nat /\ Len(p_locking_processes) \in Nat
      /\ p_locking_processes \in Seq(Entries)
  BY LenProperties DEF TypeInv, TypeOK, LoopOK, ListOK
<1>2. ASSUME NEW k \in 1 .. locking_count
      PROVE  <<processes[k], names[k]>> \in Listed
  <2>1. k \in 1 .. Len(p_locking_processes) /\ p_locking_processes[k] = Entry(k)
    BY <1>1 DEF Agrees
  <2>2. /\ p_locking_processes[k].id = processes[k]
        /\ p_locking_processes[k].name = names[k]
    BY <2>1 DEF Entry
  <2>3. QED
    BY <2>1, <2>2 DEF Listed
<1>3. QED
  BY <1>2 DEF FoundPairs

LEMMA KeepListSimulated ==
  ASSUME MonitorInv, KeepList
  PROVE  Monitor!Report \/ Monitor!GiveUp
<1>1. /\ ScanOver /\ ~old_state_invalid /\ pc' = "update"
      /\ UNCHANGED <<os, lockers, astray, SureNow, Listed, p_allocated,
                     num_processes, i>>
      /\ ~InScan'
  BY DEF KeepList, osVars, histVars, stateVars, scanVars, enumVars, SureNow,
         Listed, InScan, InLoop
<1>2. CASE p_allocated
  <2>1. Agrees
    BY <1>1, <1>2 DEF MonitorInv, ListInv, ScanOver, InLoop
  <2>2. SureNow \subseteq Listed
    BY <1>1, <2>1, FoundIsDue, AgreeingListHolds DEF MonitorInv
  <2>3. Fresh'
    BY <1>1, <1>2 DEF Fresh, ScanOver, MonitorInv, RecordedInv, InLoop
  <2>4. QED
    BY <1>1, <2>2, <2>3, FoundIsDue DEF Monitor!Report
<1>3. CASE ~p_allocated
  <2>1. ~Fresh'
    BY <1>1, <1>3 DEF Fresh
  <2>2. QED
    BY <1>1, <2>1, FoundIsDue DEF Monitor!GiveUp, Fresh
<1>4. QED
  BY <1>2, <1>3

LEMMA ReplaceListSimulated ==
  ASSUME MonitorInv, ReplaceList
  PROVE  Monitor!Report
<1>1. /\ ScanOver /\ pc' = "update" /\ p_allocated' = TRUE
      /\ p_locking_processes' = Found
      /\ UNCHANGED <<os, lockers, astray, SureNow, num_processes, i,
                     locking_count>>
      /\ ~InScan'
  BY DEF ReplaceList, osVars, histVars, scanVars, enumVars, SureNow, InScan,
         InLoop
<1>2. Fresh'
  BY <1>1 DEF Fresh, ScanOver, MonitorInv, RecordedInv, InLoop
<1>3. Listed' = FoundPairs
  <2>1. Listed' = {<<Found[k].id, Found[k].name>> : k \in 1 .. locking_count}
    BY <1>1, FoundLength DEF Listed, MonitorInv
  <2>2. ASSUME NEW k \in 1 .. locking_count
        PROVE  Found[k].id = processes[k] /\ Found[k].name = names[k]
    <3>1. Found[k] = Entry(k)
      BY FoundEntries DEF MonitorInv
    <3>2. QED
      BY <3>1 DEF Entry
  <2>3. QED
    BY <2>1, <2>2 DEF FoundPairs
<1>4. QED
  BY <1>1, <1>2, <1>3, FoundIsDue DEF Monitor!Report

LEMMA ReallocFailsSimulated ==
  ASSUME MonitorInv, ReallocFails
  PROVE  Monitor!Lose
<1>1. /\ ScanOver /\ pc' = "update" /\ p_allocated' = FALSE
      /\ p_locking_processes' = <<>>
      /\ UNCHANGED <<os, lockers, astray, SureNow>>
      /\ ~InScan' /\ ~Fresh'
  BY DEF ReallocFails, osVars, histVars, scanVars, enumVars, SureNow, InScan,
         InLoop, Fresh
<1>2. Listed' = {}
  BY <1>1 DEF Listed
<1>3. Fresh' = Fresh
  BY <1>1, FoundIsDue DEF Fresh
<1>4. QED
  BY <1>1, <1>2, <1>3, FoundIsDue DEF Monitor!Lose

\* Every other step is within a scan, or ends it without touching the list.
LEMMA OtherStepsSimulated ==
  ASSUME TypeInv', UNCHANGED <<os, histVars, stateVars>>,
         \/ UNCHANGED <<pc, i, num_processes>>
         \/ InScan /\ InScan'
         \/ InScan /\ pc' \in Ends
         \/ pc = "update" /\ pc' = "exited" /\ UNCHANGED <<i, num_processes>>
         \/ InScan /\ pc' = "update" /\ i' <= num_processes'
  PROVE  Monitor!GiveUp \/ UNCHANGED Monitor!monitorVars
<1> USE DEF Ends, Monitor!monitorVars
<1>1. UNCHANGED <<os, lockers, astray, SureNow, Listed, p_allocated>>
  BY DEF histVars, stateVars, SureNow, Listed
<1>2. CASE UNCHANGED <<pc, i, num_processes>>
  BY <1>1, <1>2 DEF InScan, InLoop, Fresh
<1>3. CASE InScan /\ InScan'
  BY <1>1, <1>3 DEF InScan, InLoop, Fresh
<1>4. CASE InScan /\ pc' \in Ends
  BY <1>1, <1>4 DEF Monitor!GiveUp, InScan, InLoop, Fresh
<1>5. CASE pc = "update" /\ pc' = "exited" /\ UNCHANGED <<i, num_processes>>
  BY <1>1, <1>5 DEF InScan, InLoop, Fresh
<1>6. CASE InScan /\ pc' = "update" /\ i' <= num_processes'
  <2>1. ~Fresh /\ ~InScan'
    BY <1>6 DEF InScan, InLoop, Fresh
  <2>2. ~Fresh'
    BY <1>6 DEF Fresh, TypeInv, TypeOK, LoopOK
  <2>3. Fresh' = Fresh
    BY <2>1, <2>2 DEF Fresh
  <2>4. QED
    BY <1>1, <1>6, <2>1, <2>3 DEF Monitor!GiveUp, InScan
<1>7. QED
  BY <1>2, <1>3, <1>4, <1>5, <1>6

LEMMA StepSimulated ==
  MonitorInv /\ [Next]_vars =>
    \/ Monitor!Next
    \/ UNCHANGED Monitor!monitorVars
<1> SUFFICES ASSUME MonitorInv, [Next]_vars
             PROVE  \/ Monitor!Next
                    \/ UNCHANGED Monitor!monitorVars
  OBVIOUS
<1>0. TypeInv /\ TypeInv'
  BY TypeInvStep DEF MonitorInv
<1> USE DEF Monitor!Next
<1>1. ASSUME NEW p \in Pids, NEW k \in Kinds \cup {Absent}, TableBecomes(p, k)
      PROVE  Monitor!TableChanges
  BY <1>0, <1>1, TableChangesSimulated
<1>2. CASE StartScan
  BY <1>0, <1>2, LookSimulated
<1>3. CASE KeepList \/ ReplaceList \/ ReallocFails
  BY <1>3, KeepListSimulated, ReplaceListSimulated, ReallocFailsSimulated
<1>4. CASE Record /\ Insufficient
  <2>1. /\ pc = "record" /\ pc' = "update" /\ i' = i /\ i <= num_processes
        /\ UNCHANGED <<os, histVars, stateVars, num_processes>>
    BY <1>0, <1>4
    DEF Record, TypeInv, IndexOK, InLoop, HandleHeld, osVars, enumVars, histVars
  <2>2. QED
    BY <1>0, <2>1, OtherStepsSimulated DEF InScan, InLoop
<1>5a. CASE Record /\ ~Insufficient /\ Overwritten(i)
  BY <1>0, <1>5a, GarbleSimulated
<1>5. CASE /\ UNCHANGED <<os, histVars, stateVars>>
           /\ \/ UNCHANGED <<pc, i, num_processes>>
              \/ InScan /\ InScan'
              \/ InScan /\ pc' \in Ends
              \/ pc = "update" /\ pc' = "exited" /\ UNCHANGED <<i, num_processes>>
  BY <1>0, <1>5, OtherStepsSimulated
<1>6. \/ \E p \in Pids, k \in Kinds \cup {Absent} : TableBecomes(p, k)
      \/ StartScan \/ KeepList \/ ReplaceList \/ ReallocFails
      \/ Record /\ Insufficient
      \/ Record /\ ~Insufficient /\ Overwritten(i)
      \/ /\ UNCHANGED <<os, histVars, stateVars>>
         /\ \/ UNCHANGED <<pc, i, num_processes>>
            \/ InScan /\ InScan'
            \/ InScan /\ pc' \in Ends
            \/ pc = "update" /\ pc' = "exited" /\ UNCHANGED <<i, num_processes>>
  BY DEF Next, Environment, Start, Exit, Reload, Program, NoReplacements,
         EnumerateProcesses, EnumProcessesOverflow, EnumProcessesAgain,
         EnumProcessesDone, OpenFails, OpenProcess, EnumerateModules,
         ModulesOverflow, ModulesFail, ModulesTooMany, GiveUpOrRetry,
         NextProcess, ModulesListed, FilterFindsNone, FilterFindsLock,
         RecordOverrun, Record, Publish, PrintOldCrashes, ScanOver, Stopped,
         vars, osVars, scanVars, enumVars, histVars, stateVars, InScan, InLoop,
         Ends
<1>7. QED
  BY <1>1, <1>2, <1>3, <1>4, <1>5, <1>5a, <1>6

\* main.c's loop implements LockMonitor: each list it publishes names every
\* process that was sure to be found by its path, and nobody who neither held a
\* watched file during the scan nor was listed already (main.c:491-600); a wrong
\* id is in it only after a scan that recorded an entry of the scratch buffer.
THEOREM LoopImplementsMonitor == Spec => ImplementsMonitor
<1>1. Init => MonitorInv
  BY InitTypeInv
  DEF Init, MonitorInv, LayoutInv, EvidenceInv, EntriesWereLocking, ListInv,
      NumMatchesList, Completed, CompleteInv, SteadySmallFound, RecordedInv,
      InScan, InLoop
<1>2. MonitorInv /\ [Next]_vars => MonitorInv'
  BY TypeInvStep, LayoutStep, EvidenceStep, ListInvStep, CompleteStep,
     RecordedInvStep
  DEF MonitorInv
<1>3. Init => Monitor!Init
  <2>1. Init => ~InScan /\ ~Fresh /\ SureNow = {} /\ Listed = {}
    BY DEF Init, InScan, InLoop, Fresh, SureNow, Listed
  <2>2. QED
    BY <2>1 DEF Init, Monitor!Init, InScan, Fresh
<1>4. MonitorInv /\ [Next]_vars => [Monitor!Next]_(Monitor!monitorVars)
  BY StepSimulated DEF Monitor!monitorVars
<1>5. QED
  BY <1>1, <1>2, <1>3, <1>4, PTL DEF Spec, ImplementsMonitor, Monitor!Spec

-----------------------------------------------------------------------------
(* That a scan comes to an end: how far it has still to go.  Buffers grow  *)
(* until they are large enough or the stack is used up.                    *)

ToLookAt == Remaining(num_processes + 1, i)
StackLeft(n) == Remaining(StackLimit + 1, n)

Rank ==
  CASE pc = "enum" -> <<2, StackLeft(stack + num_processes), 0, 0>>
    [] pc = "open" -> <<1, ToLookAt, 3, 0>>
    [] pc = "modules" -> <<1, ToLookAt, 2, StackLeft(stack + frame)>>
    [] pc = "filter" -> <<1, ToLookAt, 1, 0>>
    [] pc = "record" -> <<1, ToLookAt, 0, 0>>
    [] OTHER -> <<0, 0, 0, 0>>

\* The steps of EnumerateLockingProcesses and of what UpdateState does next.
ScanStep ==
  \/ EnumerateProcesses \/ OpenFails \/ OpenProcess \/ EnumerateModules
  \/ RecordOverrun \/ Record \/ Publish

LEMMA RankParts ==
  ASSUME TypeInv
  PROVE  /\ num_processes \in Nat /\ stack \in Nat /\ frame \in Nat
         /\ num_modules \in Nat /\ i \in Nat /\ StackLimit \in Nat
         /\ ToLookAt \in Nat /\ StackLeft(stack + num_processes) \in Nat
         /\ StackLeft(stack + frame) \in Nat
<1>1. /\ num_processes \in Nat /\ stack \in Nat /\ frame \in Nat
      /\ num_modules \in Nat /\ i \in Nat /\ StackLimit \in Nat
  BY SizesAssumption DEF TypeInv, TypeOK, LoopOK, ModulesOK
<1>2. /\ num_processes + 1 \in Nat /\ stack + num_processes \in Nat
      /\ stack + frame \in Nat /\ StackLimit + 1 \in Nat
  BY <1>1
<1>3. QED
  BY <1>1, <1>2, RemainingFalls DEF ToLookAt, StackLeft

LEMMA RankIsRank == TypeInv => Rank \in Ranks
<1> SUFFICES ASSUME TypeInv PROVE Rank \in Ranks
  OBVIOUS
<1>1. pc \in {"update", "enum", "open", "modules", "filter", "record",
             "exited", "crashed", "overrun"}
  BY DEF TypeInv, TypeOK, LoopOK
<1>2. QED
  BY <1>1, RankParts, RankTyped DEF Rank

\* To leave the scan, or the loop for good, is progress from anywhere in it.
LEMMA LeavingFalls ==
  ASSUME TypeInv, pc \in {"enum", "open", "modules", "filter", "record"},
         pc' \in {"update"} \cup Ends
  PROVE  Below(Rank', Rank)
<1>1. Rank' = <<0, 0, 0, 0>>
  BY DEF Rank, Ends
<1>2. \/ Rank = <<2, StackLeft(stack + num_processes), 0, 0>>
      \/ Rank = <<1, ToLookAt, 2, StackLeft(stack + frame)>>
      \/ \E k \in 0 .. 3 : Rank = <<1, ToLookAt, k, 0>>
  BY DEF Rank
<1>3. QED
  BY <1>1, <1>2, RankParts DEF Below

\* So is the next entry of the buffer.
LEMMA NextEntryFalls ==
  ASSUME TypeInv, pc \in {"open", "modules", "filter", "record"}, i <= num_processes,
         NextProcess, num_processes' = num_processes
  PROVE  Below(Rank', Rank)
<1>1. Rank' = <<1, Remaining(num_processes + 1, i + 1), 3, 0>>
  BY DEF Rank, NextProcess, ToLookAt
<1>2. /\ Remaining(num_processes + 1, i + 1) \in Nat
      /\ Remaining(num_processes + 1, i + 1) < ToLookAt
  <2>1. /\ num_processes + 1 \in Nat /\ i \in Nat /\ i + 1 \in Nat
        /\ i < num_processes + 1 /\ i < i + 1
    BY RankParts
  <2>2. QED
    BY <2>1, RemainingFalls DEF ToLookAt
<1>3. \/ Rank = <<1, ToLookAt, 2, StackLeft(stack + frame)>>
      \/ \E k \in 0 .. 3 : Rank = <<1, ToLookAt, k, 0>>
  BY DEF Rank
<1>4. QED
  BY <1>1, <1>2, <1>3, RankParts DEF Below

\* What is taken off the stack is not there for the next attempt.
LEMMA StackFalls ==
  ASSUME NEW n \in Nat, NEW m \in Nat, n <= StackLimit, n < m
  PROVE  StackLeft(m) \in Nat /\ StackLeft(n) \in Nat /\ StackLeft(m) < StackLeft(n)
<1>1. StackLimit + 1 \in Nat /\ n < StackLimit + 1
  BY SizesAssumption
<1>2. QED
  BY <1>1, RemainingFalls DEF StackLeft

LEMMA EnumerationFalls == TypeInv /\ EnumerateProcesses => Below(Rank', Rank)
<1> SUFFICES ASSUME TypeInv, EnumerateProcesses PROVE Below(Rank', Rank)
  OBVIOUS
<1>1. CASE EnumProcessesOverflow
  BY <1>1, LeavingFalls DEF EnumProcessesOverflow, Ends
<1>2. CASE EnumProcessesAgain
  <2> DEFINE used == stack + num_processes + num_processes + ProcessIncrement
  <2>1. /\ pc = "enum" /\ pc' = "enum" /\ stack' = stack + num_processes
        /\ num_processes' = num_processes + ProcessIncrement
        /\ stack + frame + num_processes <= StackLimit
    BY <1>2 DEF EnumProcessesAgain, Room
  <2>2. /\ stack + num_processes \in Nat /\ used \in Nat /\ stack + num_processes < used
        /\ stack + num_processes <= StackLimit /\ stack' + num_processes' = used
    BY <2>1, RankParts, SizesAssumption
  <2> HIDE DEF used
  <2>3. Rank' = <<2, StackLeft(used), 0, 0>>
    BY <2>1, <2>2 DEF Rank
  <2>4. Rank = <<2, StackLeft(stack + num_processes), 0, 0>>
    BY <2>1 DEF Rank
  <2>5. /\ StackLeft(used) \in Nat /\ StackLeft(stack + num_processes) \in Nat
        /\ StackLeft(used) < StackLeft(stack + num_processes)
    BY <2>2, StackFalls
  <2>6. QED
    BY <2>3, <2>4, <2>5, RankFalls
<1>3. CASE EnumProcessesDone
  <2>1. Rank = <<2, StackLeft(stack + num_processes), 0, 0>>
    BY <1>3 DEF EnumProcessesDone, Rank
  <2>2. Rank' = <<1, Remaining(num_processes' + 1, i), 3, 0>>
    BY <1>3 DEF EnumProcessesDone, Rank, ToLookAt, scanVars
  <2>3. Remaining(num_processes' + 1, i) \in Nat
    <3>1. num_processes' + 1 \in Nat /\ i \in Nat
      BY <1>3, RankParts, LiveFinite, SizesAssumption DEF EnumProcessesDone
    <3>2. QED
      BY <3>1, RemainingFalls
  <2>4. QED
    BY <2>1, <2>2, <2>3, RankParts DEF Below
<1>4. QED
  BY <1>1, <1>2, <1>3 DEF EnumerateProcesses

LEMMA ModulesFall == TypeInv /\ EnumerateModules => Below(Rank', Rank)
<1> SUFFICES ASSUME TypeInv, EnumerateModules PROVE Below(Rank', Rank)
  OBVIOUS
<1>0. pc \in {"modules", "filter"} => i <= num_processes
  BY DEF TypeInv, IndexOK, InLoop, HandleHeld
<1>1. CASE ModulesOverflow
  BY <1>1, LeavingFalls DEF ModulesOverflow, Ends
<1>2. ASSUME pc = "modules", Room(Attempt), GiveUpOrRetry, UNCHANGED enumVars
      PROVE  Below(Rank', Rank)
  <2>1. CASE lasterr' = "partial"
    BY <1>0, <1>2, <2>1, NextEntryFalls DEF GiveUpOrRetry, enumVars
  <2>2. CASE lasterr' # "partial"
    <3>1. /\ pc' = pc /\ i' = i /\ frame' = frame + Attempt
          /\ stack' = stack /\ num_processes' = num_processes
      BY <1>2, <2>2 DEF GiveUpOrRetry, enumVars
    <3>2. /\ stack + frame \in Nat /\ stack + frame' \in Nat /\ stack + frame < stack + frame'
          /\ stack + frame <= StackLimit
      BY <1>2, <3>1, RankParts, SizesAssumption DEF Attempt, Room
    <3>3. Rank = <<1, ToLookAt, 2, StackLeft(stack + frame)>>
      BY <1>2 DEF Rank
    <3>4. Rank' = <<1, ToLookAt, 2, StackLeft(stack + frame')>>
      BY <1>2, <3>1 DEF Rank, ToLookAt, StackLeft
    <3>5. /\ StackLeft(stack + frame') \in Nat
          /\ StackLeft(stack + frame') < StackLeft(stack + frame)
      BY <3>2, StackFalls
    <3>6. QED
      BY <3>3, <3>4, <3>5, RankParts, RankFalls
  <2>3. QED
    BY <2>1, <2>2
<1>3. CASE ModulesFail \/ ModulesTooMany
  BY <1>2, <1>3 DEF ModulesFail, ModulesTooMany
<1>4. CASE ModulesListed \/ FilterFindsLock
  <2>1. \/ Rank = <<1, ToLookAt, 2, StackLeft(stack + frame)>> /\ Rank' = <<1, ToLookAt, 1, 0>>
        \/ Rank = <<1, ToLookAt, 1, 0>> /\ Rank' = <<1, ToLookAt, 0, 0>>
    BY <1>4 DEF ModulesListed, FilterFindsLock, Rank, ToLookAt, enumVars, scanVars
  <2>2. QED
    BY <2>1, RankParts DEF Below
<1>5. CASE FilterFindsNone
  BY <1>0, <1>5, NextEntryFalls DEF FilterFindsNone, enumVars
<1>6. QED
  BY <1>1, <1>3, <1>4, <1>5 DEF EnumerateModules

LEMMA ScanFalls == TypeInv /\ ScanStep => Below(Rank', Rank)
<1> SUFFICES ASSUME TypeInv, ScanStep PROVE Below(Rank', Rank)
  OBVIOUS
<1>1. CASE OpenFails
  BY <1>1, NextEntryFalls DEF OpenFails, enumVars
<1>2. CASE OpenProcess
  <2>1. /\ Rank = <<1, ToLookAt, 3, 0>>
        /\ Rank' = <<1, ToLookAt, 2, StackLeft(stack + 0)>>
    BY <1>2 DEF OpenProcess, Rank, ToLookAt, StackLeft, enumVars, scanVars
  <2>2. StackLeft(stack + 0) \in Nat
    <3>1. stack + 0 \in Nat /\ StackLimit + 1 \in Nat
      BY RankParts
    <3>2. QED
      BY <3>1, RemainingFalls DEF StackLeft
  <2>3. QED
    BY <2>1, <2>2, RankParts DEF Below
<1>3. CASE RecordOverrun \/ Publish
  BY <1>3, LeavingFalls
  DEF RecordOverrun, Publish, KeepList, PrintOldCrashes, ReplaceList,
      ReallocFails, ScanOver, Ends
<1>4. CASE Record
  <2>1. pc = "record" /\ i <= num_processes /\ num_processes' = num_processes
    BY <1>4 DEF Record, enumVars, TypeInv, IndexOK, InLoop, HandleHeld
  <2>2. NextProcess \/ pc' = "update"
    BY <1>4 DEF Record
  <2>3. QED
    BY <2>1, <2>2, NextEntryFalls, LeavingFalls
<1>5. QED
  BY <1>1, <1>2, <1>3, <1>4, EnumerationFalls, ModulesFall DEF ScanStep

LEMMA OthersDoNotDisturb == Environment => UNCHANGED Rank
  BY DEF Environment, Start, Exit, Reload, TableBecomes, enumVars, scanVars, modVars,
         Rank, ToLookAt, StackLeft

\* A scan lowers its rank, and nobody else touches it.
ScanNears ==
  [][/\ ScanStep => Below(Rank', Rank)
     /\ Environment => UNCHANGED Rank]_vars

\* Every step of EnumerateLockingProcesses and of what UpdateState makes of it
\* (main.c, lines 491 to 600) brings the scan nearer to its end, attempts with
\* larger buffers included, and no process that starts, ends or loads modules
\* puts it back.
THEOREM ScanComesNearer == Spec => [](Rank \in Ranks) /\ ScanNears
<1>1. TypeInv /\ [Next]_vars =>
        [/\ ScanStep => Below(Rank', Rank)
         /\ Environment => UNCHANGED Rank]_vars
  BY ScanFalls, OthersDoNotDisturb
<1>2. QED
  BY <1>1, InitTypeInv, TypeInvStep, RankIsRank, PTL DEF Spec, ScanNears
===============================================================================
