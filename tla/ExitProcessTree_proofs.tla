------------------------ MODULE ExitProcessTree_proofs ------------------------
(***************************************************************************)
(* Proofs about ExitProcessTree, for any number of processes and ids, any  *)
(* order of the snapshot and any room in the list.                         *)
(***************************************************************************)
EXTENDS ExitProcessTree, Progress, FiniteSetTheorems, SequenceTheorems, TLAPS

(* The process table: ids of running processes differ, and that of          *)
(* main_process, whose handle is held, is used by nobody else.              *)
TableOK ==
  /\ Born(Main) /\ parent[Main] = NoProcess
  /\ \A p \in Processes : Born(p) <=> pid[p] # NoPid
  /\ \A p \in Processes : ~Born(p) => parent[p] = NoProcess
  /\ \A p \in Processes : parent[p] \in Processes =>
       Born(parent[p]) /\ ppid[p] = pid[parent[p]]
  /\ \A p, q \in Processes : Running(p) /\ Running(q) /\ pid[p] = pid[q] => p = q
  /\ \A p \in Processes : pid[p] = pid[Main] => p = Main

(* What is known of the snapshot, and of the list before there is one.      *)
SnapshotOK ==
  /\ \A p \in seen : Born(p)
  /\ \A p, q \in seen : pid[p] = pid[q] => p = q
  /\ pc = "snapshot" => seen = {} /\ pids = <<pid[Main]>> /\ next = 1
  /\ pids[1] = pid[Main]
  /\ pc = "walk" =>
       /\ \A k \in 1 .. Len(snapshot) : \E p \in seen : snapshot[k] = Entry(p)
       /\ \A p \in seen : \E k \in 1 .. Len(snapshot) : snapshot[k] = Entry(p)

TypeInv == TypeOK /\ TableOK /\ SnapshotOK

-----------------------------------------------------------------------------
(* What steps have in common.                                              *)

\* Who is there keeps the ids and the parent; who has ended stays so.
LEMMA TableKept ==
  ASSUME TypeInv, [Next]_vars
  PROVE  /\ kind' = kind
         /\ \A p \in Processes : Born(p) =>
              /\ Born(p)' /\ pid'[p] = pid[p] /\ ppid'[p] = ppid[p]
              /\ parent'[p] = parent[p]
              /\ Running(p)' => Running(p)
<1> DEFINE Kept == \A p \in Processes : Born(p) =>
                     /\ Born(p)' /\ pid'[p] = pid[p] /\ ppid'[p] = ppid[p]
                     /\ parent'[p] = parent[p]
                     /\ Running(p)' => Running(p)
<1> USE DEF TypeInv, TypeOK, Born, Running
<1>1. ASSUME NEW p \in Processes, NEW q \in Processes, NEW w \in Pids, Spawn(p, q, w)
      PROVE  kind' = kind /\ Kept
  BY <1>1 DEF Spawn
<1>2. ASSUME NEW p \in Processes, End(p) PROVE kind' = kind /\ Kept
  BY <1>2 DEF End
<1>3. ASSUME NEW w \in Pids, LateHelper(w) PROVE kind' = kind /\ Kept
  BY <1>3 DEF LateHelper
<1>4. CASE Walk
  BY <1>4 DEF Walk, TakeSnapshot, SnapshotFails, PassOver, SignalMsys, AddPid,
              tableVars
<1>5. ASSUME NEW p \in Processes, NEW may, Open(p, may) PROVE kind' = kind /\ Kept
  BY <1>5 DEF Open, tableVars
<1>6. CASE Pass
  BY <1>6 DEF Pass, tableVars
<1>7. CASE Terminate
  <2>1. kind' = kind /\ pid' = pid /\ ppid' = ppid /\ parent' = parent
    BY <1>7 DEF Terminate
  <2>2. \/ state' = state
        \/ handle.of \in Processes \cup {NoProcess} /\ state' = [state EXCEPT ![handle.of] = "ended"]
    BY <1>7 DEF Terminate
  <2>3. QED
    BY <2>1, <2>2
<1>8. ASSUME NEW how \in {"ctrl", "exit"},
             HelperDone(how) \/ HelperFails(how) \/ HelperLate(how)
      PROVE  kind' = kind /\ Kept
  BY <1>8 DEF HelperDone, HelperFails, HelperLate, tableVars
<1>9. CASE UNCHANGED vars
  BY <1>9 DEF vars, tableVars
<1>10. QED
  BY <1>1, <1>2, <1>3, <1>4, <1>5, <1>6, <1>7, <1>8, <1>9
  DEF Next, Environment, Finish, Returned

\* The three ways on from an entry.
NextEntry ==
  /\ next < Len(snapshot) /\ Len(pids') < MaxLen
  /\ next' = next + 1 /\ UNCHANGED <<pc, orig_len, i, snapshot>>
NextPass ==
  /\ next = Len(snapshot) /\ Len(pids') < MaxLen /\ Len(pids') # orig_len
  /\ next' = 1 /\ orig_len' = Len(pids') /\ UNCHANGED <<pc, i, snapshot>>
LastEntry ==
  /\ Len(pids') < MaxLen => next = Len(snapshot) /\ Len(pids') = orig_len
  /\ pc' = "open" /\ i' = Len(pids') /\ snapshot' = <<>> /\ next' = 1
  /\ UNCHANGED orig_len

LEMMA AdvanceCases ==
  ASSUME TypeInv, pc = "walk", Advance, Len(pids') \in Nat
  PROVE  NextEntry \/ NextPass \/ LastEntry
<1>1. next \in 1 .. Len(snapshot) /\ Len(snapshot) \in Nat /\ MaxLen \in Nat
  BY TreeAssumption, LenProperties DEF TypeInv, TypeOK
<1>2. QED
  BY <1>1 DEF Advance, NextEntry, NextPass, LastEntry

LEMMA LenOfPids ==
  ASSUME TypeInv
  PROVE  /\ Len(pids) \in 1 .. MaxLen /\ Len(pids) \in Nat /\ MaxLen \in Nat
         /\ \A k \in 1 .. Len(pids) : pids[k] \in Pids
  BY TreeAssumption, LenProperties DEF TypeInv, TypeOK

\* An entry is that of a process of the snapshot.
LEMMA EntryOfSeen ==
  ASSUME TypeInv, pc = "walk"
  PROVE  /\ next \in 1 .. Len(snapshot)
         /\ \E p \in seen : entry = Entry(p)
         /\ entry.pid \in Pids
<1>1. next \in 1 .. Len(snapshot)
  BY DEF TypeInv, TypeOK
<1>2. PICK p \in seen : entry = Entry(p)
  BY <1>1 DEF TypeInv, SnapshotOK, entry
<1>3. pid[p] \in Pids
  BY <1>2 DEF TypeInv, TypeOK, SnapshotOK, TableOK, Born
<1>4. QED
  BY <1>1, <1>2, <1>3 DEF Entry

\* AddPid appends one id that had no place in the list yet.
LEMMA PidAdded ==
  ASSUME TypeInv, AddPid
  PROVE  /\ pids' \in Seq(Pids) /\ Len(pids') = Len(pids) + 1
         /\ pids'[Len(pids) + 1] = entry.pid
         /\ \A k \in 1 .. Len(pids) : pids'[k] = pids[k]
  BY EntryOfSeen, AppendProperties DEF AddPid, TypeInv, TypeOK

-----------------------------------------------------------------------------
(* Types.                                                                  *)

LEMMA InitTyped == Init => TypeInv
<1> SUFFICES ASSUME Init PROVE TypeInv
  OBVIOUS
<1>1. PICK t \in Tables : pid = t.pid /\ ppid = t.ppid
  BY DEF Init
<1>2. /\ pid \in [Processes -> Pids \cup {NoPid}] /\ ppid \in [Processes -> Pids \cup {NoPid}]
      /\ pid[Main] \in Pids
      /\ \A p, q \in Processes : pid[p] = pid[q] /\ pid[p] # NoPid => p = q
  <2>1. /\ t.pid \in [Processes -> Pids \cup {NoPid}] /\ t.ppid \in [Processes -> Pids \cup {NoPid}]
        /\ t.pid[Main] # NoPid /\ Main \in Processes
        /\ \A p, q \in Processes : t.pid[p] = t.pid[q] /\ t.pid[p] # NoPid => p = q
    BY TreeAssumption
  <2>2. QED
    BY <1>1, <2>1
<1>3. <<pid[Main]>> \in Seq(Pids) /\ Len(<<pid[Main]>>) = 1 /\ <<pid[Main]>>[1] = pid[Main]
  BY <1>2
<1>4. TypeOK
  BY <1>2, <1>3, TreeAssumption DEF Init, TypeOK, NoHandle
<1>5. TableOK
  BY <1>2, TreeAssumption DEF Init, TableOK, Born, Running
<1>6. SnapshotOK
  BY <1>3 DEF Init, SnapshotOK
<1>7. QED
  BY <1>4, <1>5, <1>6 DEF TypeInv

\* As far as the snapshot and the list are concerned, nothing else matters.
LEMMA SnapshotKept ==
  ASSUME TypeInv, UNCHANGED <<pc, snapshot, next, pids, seen>>,
         \A p \in Processes : Born(p) =>
           Born(p)' /\ pid'[p] = pid[p] /\ ppid'[p] = ppid[p]
  PROVE  SnapshotOK'
<1>1. Main \in Processes /\ Born(Main) /\ seen \subseteq Processes
  BY TreeAssumption DEF TypeInv, TypeOK, TableOK
<1>2. \A p \in seen : Born(p)' /\ pid'[p] = pid[p] /\ Entry(p)' = Entry(p)
  BY <1>1 DEF TypeInv, SnapshotOK, Entry
<1>3. pid'[Main] = pid[Main]
  BY <1>1
<1>4. QED
  BY <1>2, <1>3 DEF TypeInv, SnapshotOK

\* The processes themselves.
LEMMA EnvironmentTyped == TypeInv /\ Environment => TypeInv'
<1> USE TreeAssumption DEF TypeInv
<1>1. ASSUME TypeInv, NEW p \in Processes, NEW q \in Processes, NEW w \in Pids,
             Spawn(p, q, w)
      PROVE  TypeInv'
  <2>1. TypeOK'
    BY <1>1 DEF Spawn, TypeOK, walkVars, endVars, NoHandle
  <2>2. /\ q # Main /\ p # q /\ Born(p) /\ w # pid[Main]
        /\ \A r \in Processes : Running(r) => pid[r] # w
    BY <1>1 DEF Spawn, Free, TableOK, Born, Running
  <2>3. TableOK'
    BY <1>1, <2>2 DEF Spawn, TypeOK, TableOK, Born, Running
  <2>4. SnapshotOK'
    BY <1>1, <2>2, SnapshotKept DEF Spawn, TypeOK, walkVars, Born
  <2>5. QED
    BY <2>1, <2>3, <2>4
<1>2. ASSUME TypeInv, NEW p \in Processes, End(p) PROVE TypeInv'
  <2>1. TypeOK'
    BY <1>2 DEF End, TypeOK, walkVars, endVars, NoHandle
  <2>2. TableOK'
    BY <1>2 DEF End, TypeOK, TableOK, Born, Running
  <2>3. SnapshotOK'
    BY <1>2, SnapshotKept DEF End, TypeOK, walkVars, Born
  <2>4. QED
    BY <2>1, <2>2, <2>3
<1>3. ASSUME TypeInv, NEW w \in Pids, LateHelper(w) PROVE TypeInv'
  <2>1. TypeOK'
    BY <1>3 DEF LateHelper, TypeOK, walkVars, endVars, NoHandle
  <2>2. TableOK' /\ SnapshotOK'
    BY <1>3 DEF LateHelper, TableOK, SnapshotOK, walkVars, Born, Running, Entry
  <2>3. QED
    BY <2>1, <2>2
<1>4. QED
  BY <1>1, <1>2, <1>3 DEF Environment

LEMMA FirstIsMain ==
  ASSUME TypeInv
  PROVE  1 \in 1 .. Len(pids) /\ pids[1] = pid[Main] /\ Main \in Processes
  BY LenOfPids, TreeAssumption DEF TypeInv, SnapshotOK

LEMMA TakeSnapshotTyped == TypeInv /\ TakeSnapshot => TypeInv'
<1> SUFFICES ASSUME TypeInv, TakeSnapshot PROVE TypeInv'
  OBVIOUS
<1> DEFINE R == RunningNow
           n == Cardinality(R)
           E == [pid : Pids, ppid : Pids \cup {NoPid}]
<1>1. n \in Nat /\ R \subseteq Processes /\ \A p \in R : Born(p) /\ Running(p)
  BY TreeAssumption, FS_Subset, FS_CardinalityType DEF RunningNow, Running, Born
<1>2. PICK order \in Listings(R) : snapshot' = [k \in DOMAIN order |-> Entry(order[k])]
  BY DEF TakeSnapshot
<1>3. /\ order \in [1 .. n -> R] /\ DOMAIN order = 1 .. n
      /\ \A p \in R : \E k \in 1 .. n : order[k] = p
  BY <1>2 DEF Listings
<1>4. \A p \in R : Entry(p) \in E
  BY <1>1 DEF Entry, TypeInv, TypeOK, TableOK
<1>5. snapshot' \in Seq(E) /\ Len(snapshot') = n
  <2>1. \A k \in 1 .. n : Entry(order[k]) \in E
    BY <1>3, <1>4
  <2> HIDE DEF R, n, E
  <2>2. snapshot' \in [1 .. n -> E]
    BY <1>2, <1>3, <2>1
  <2>3. QED
    BY <1>1, <2>2
<1>6. R # {} => 1 \in 1 .. n
  BY <1>1, <1>3
<1>7. pc' = (IF R = {} THEN "open" ELSE "walk") /\ seen' = R /\ pc = "snapshot"
      /\ pids = <<pid[Main]>> /\ next = 1
      /\ UNCHANGED <<kind, state, pid, ppid, parent, late, signo, next, pids, orig_len,
                     cut, i, ret, handle, tried, denied, told>>
  BY DEF TakeSnapshot, tableVars, endVars, TypeInv, SnapshotOK
<1>8. TypeOK'
  <2>1. Len(pids) = 1 /\ i >= 1 /\ MaxLen >= 2 /\ MaxLen \in Nat
    BY <1>7, TreeAssumption DEF TypeInv, TypeOK
  <2> HIDE DEF R, n, E
  <2>2. pc' \in {"walk", "open"} /\ (pc' = "walk" => next' \in 1 .. Len(snapshot'))
    BY <1>5, <1>6, <1>7
  <2>3. snapshot' \in Seq([pid : Pids, ppid : Pids \cup {NoPid}]) /\ seen' \subseteq Processes
    BY <1>1, <1>5, <1>7 DEF E
  <2>4. QED
    BY <1>7, <2>1, <2>2, <2>3 DEF TypeInv, TypeOK, NoHandle
<1>9. TableOK'
  BY <1>7 DEF TypeInv, TableOK, Born, Running
<1>10. SnapshotOK'
  <2>1. \A p \in R : Born(p)' /\ Entry(p)' = Entry(p)
    BY <1>1, <1>7 DEF Born, Entry
  <2>2. \A p, q \in R : pid[p] = pid[q] => p = q
    BY <1>1 DEF TypeInv, TableOK
  <2>3. \A k \in 1 .. n : \E p \in R : snapshot'[k] = Entry(p)
    BY <1>2, <1>3
  <2>4. \A p \in R : \E k \in 1 .. n : snapshot'[k] = Entry(p)
    BY <1>2, <1>3
  <2> HIDE DEF R, n
  <2>5. QED
    BY <1>5, <1>7, <2>1, <2>2, <2>3, <2>4 DEF SnapshotOK, TypeInv
<1>11. QED
  BY <1>8, <1>9, <1>10 DEF TypeInv

\* What holds of the list that the step leaves is all that has to be shown.
LEMMA AdvanceTyped ==
  ASSUME TypeInv, pc = "walk", Advance,
         pids' \in Seq(Pids), Len(pids') \in Len(pids) .. Len(pids) + 1,
         \A k \in 1 .. Len(pids) : pids'[k] = pids[k],
         cut' \subseteq Pids,
         told' \subseteq [of : Processes, by : {"signal", "helper", "terminate"}],
         UNCHANGED <<kind, tableVars, signo, seen, ret, handle, tried, denied>>
  PROVE  TypeInv'
<1>1. /\ next \in 1 .. Len(snapshot) /\ Len(snapshot) \in Nat
      /\ Len(pids) \in 1 .. MaxLen /\ Len(pids) < MaxLen /\ MaxLen \in Nat
      /\ orig_len \in 1 .. Len(pids) /\ Len(pids') \in Nat
  BY TreeAssumption, LenProperties DEF TypeInv, TypeOK
<1>2. NextEntry \/ NextPass \/ LastEntry
  BY <1>1, AdvanceCases
<1>3. /\ pc' \in {"walk", "open"} /\ (pc' = "walk" => snapshot' = snapshot)
      /\ snapshot' \in Seq([pid : Pids, ppid : Pids \cup {NoPid}])
      /\ pc' = "walk" => next' \in 1 .. Len(snapshot') /\ Len(pids') < MaxLen
      /\ Len(pids') \in 1 .. MaxLen /\ orig_len' \in 1 .. Len(pids')
      /\ i' \in 0 .. Len(pids') /\ i' >= 1
  <2> DEFINE E == [pid : Pids, ppid : Pids \cup {NoPid}]
  <2>1. snapshot \in Seq(E) /\ <<>> \in Seq(E) /\ i \in 0 .. Len(pids) /\ i >= 1
    BY DEF TypeInv, TypeOK
  <2> HIDE DEF E
  <2>2. CASE NextEntry
    BY <1>1, <2>1, <2>2 DEF NextEntry, E
  <2>3. CASE NextPass
    BY <1>1, <2>1, <2>3 DEF NextPass, E
  <2>4. CASE LastEntry
    BY <1>1, <2>1, <2>4 DEF LastEntry, E
  <2>5. QED
    BY <1>2, <2>2, <2>3, <2>4
<1>4. TypeOK'
  BY <1>3 DEF TypeInv, TypeOK, tableVars, NoHandle
<1>5. TableOK'
  BY DEF TypeInv, TableOK, Born, Running, tableVars
<1>6. SnapshotOK'
  <2>1. pids'[1] = pid[Main]
    BY FirstIsMain
  <2>2. \A p \in seen : Entry(p)' = Entry(p) /\ (Born(p) => Born(p)')
    BY DEF Entry, Born, tableVars
  <2>3. UNCHANGED <<seen, pid>> /\ pc' # "snapshot"
    BY <1>3 DEF tableVars
  <2>4. /\ \A p \in seen : Born(p)
        /\ \A p, q \in seen : pid[p] = pid[q] => p = q
        /\ \A k \in 1 .. Len(snapshot) : \E p \in seen : snapshot[k] = Entry(p)
        /\ \A p \in seen : \E k \in 1 .. Len(snapshot) : snapshot[k] = Entry(p)
    BY DEF TypeInv, SnapshotOK
  <2>5. pc' = "walk" =>
          /\ \A k \in 1 .. Len(snapshot') : \E p \in seen' : snapshot'[k] = Entry(p)'
          /\ \A p \in seen' : \E k \in 1 .. Len(snapshot') : snapshot'[k] = Entry(p)'
    <3> SUFFICES ASSUME snapshot' = snapshot, seen' = seen
                 PROVE  /\ \A k \in 1 .. Len(snapshot) : \E p \in seen : snapshot[k] = Entry(p)'
                        /\ \A p \in seen : \E k \in 1 .. Len(snapshot) : snapshot[k] = Entry(p)'
      BY <1>3, <2>3, Zenon
    <3>1. QED
      BY <2>2, <2>4
  <2>6. /\ \A p \in seen' : Born(p)'
        /\ \A p, q \in seen' : pid'[p] = pid'[q] => p = q
        /\ pids'[1] = pid'[Main]
    BY <2>1, <2>2, <2>3, <2>4
  <2>7. QED
    BY <2>3, <2>5, <2>6 DEF SnapshotOK
<1>7. QED
  BY <1>4, <1>5, <1>6 DEF TypeInv

LEMMA WalkTyped == TypeInv /\ Walk => TypeInv'
<1> SUFFICES ASSUME TypeInv, Walk PROVE TypeInv'
  OBVIOUS
<1>1. CASE SnapshotFails
  <2>1. UNCHANGED <<kind, state, pid, ppid, parent, late, signo, snapshot, next, pids, orig_len,
                    seen, cut, i, ret, handle, tried, denied, told>> /\ pc = "snapshot" /\ pc' = "open"
    BY <1>1 DEF SnapshotFails, tableVars, walkVars, endVars
  <2>2. TypeOK'
    BY <2>1 DEF TypeInv, TypeOK, NoHandle
  <2>3. TableOK' /\ SnapshotOK'
    BY <2>1 DEF TypeInv, TableOK, SnapshotOK, Born, Running
  <2>4. QED
    BY <2>2, <2>3 DEF TypeInv
<1>2. CASE PassOver
  <2>1. pids' = pids /\ cut' = cut /\ told' = told
    BY <1>2 DEF PassOver
  <2>2. QED
    BY <1>2, <2>1, LenOfPids, AdvanceTyped DEF PassOver, TypeInv, TypeOK
<1>3. CASE SignalMsys
  <2>1. pids' = pids /\ cut' \subseteq Pids
        /\ told' \subseteq [of : Processes, by : {"signal", "helper", "terminate"}]
    BY <1>3, EntryOfSeen DEF SignalMsys, Msys, TypeInv, TypeOK
  <2>2. QED
    BY <1>3, <2>1, LenOfPids, AdvanceTyped DEF SignalMsys, TypeInv, TypeOK
<1>4. CASE AddPid
  <2>1. UNCHANGED <<kind, tableVars, signo, seen, cut, ret, handle, tried, denied, told>>
        /\ pc = "walk" /\ Advance
    BY <1>4 DEF AddPid
  <2>2. QED
    BY <1>4, <2>1, LenOfPids, PidAdded, AdvanceTyped DEF TypeInv, TypeOK
<1>5. QED
  BY <1>1, <1>2, <1>3, <1>4, TakeSnapshotTyped DEF Walk

Helping == pc \in {"ctrl", "exit", "terminate"}

\* exit_process is called for a process.
LEMMA HandleOfProcess ==
  ASSUME TypeInv, Helping
  PROVE  handle.of \in Processes /\ i >= 1 /\ i \in Nat
  BY DEF TypeInv, TypeOK, Helping

\* Outside of the walk the list and the snapshot stand.
LEMMA TypedByParts ==
  ASSUME TypeInv, UNCHANGED <<kind, pid, ppid, parent, signo, walkVars>>,
         state' \in [Processes -> {"unborn", "running", "ended"}],
         \A p \in Processes : (Born(p) <=> Born(p)') /\ (Running(p)' => Running(p)),
         late' \subseteq Pids, tried' \subseteq Processes, denied' \subseteq Processes,
         told' \subseteq [of : Processes, by : {"signal", "helper", "terminate"}],
         pc' \in {"open", "ctrl", "exit", "terminate", "done"},
         i' \in 0 .. Len(pids), pc' # "done" => i' >= 1, ret' \in {0, -1},
         handle' \in {NoHandle} \cup [of : Processes, may : {"all", "inject", "terminate"}],
         pc' \in {"ctrl", "exit", "terminate"} <=> handle' # NoHandle
  PROVE  TypeInv'
<1>1. TypeOK'
  BY DEF TypeInv, TypeOK, walkVars, NoHandle
<1>2. TableOK'
  BY TreeAssumption DEF TypeInv, TableOK
<1>3. \A p \in seen : Born(p)'
  BY DEF TypeInv, TypeOK, SnapshotOK
<1>4. SnapshotOK'
  BY <1>3 DEF TypeInv, SnapshotOK, walkVars
<1>5. QED
  BY <1>1, <1>2, <1>4 DEF TypeInv

LEMMA FinishTyped == TypeInv /\ Finish => TypeInv'
<1> USE DEF TypeInv, TypeOK
<1>1. ASSUME TypeInv, NEW p \in Processes, NEW may \in {"all", "inject", "terminate"},
             Open(p, may)
      PROVE  TypeInv'
  <2>1. /\ handle' = [of |-> p, may |-> may] /\ pc' \in {"ctrl", "exit", "terminate"}
        /\ UNCHANGED <<kind, state, pid, ppid, parent, late, signo, walkVars, i, ret, denied, told>>
        /\ tried' = tried \cup {p} /\ pc = "open"
    BY <1>1 DEF Open, First, tableVars
  <2>2. handle' # NoHandle
    BY <2>1, TreeAssumption DEF NoHandle
  <2>3. i' \in 0 .. Len(pids) /\ i' >= 1
    BY <1>1, <2>1
  <2>4. QED
    BY <1>1, <2>1, <2>2, <2>3, TypedByParts DEF Born, Running
<1>2. ASSUME TypeInv, Pass PROVE TypeInv'
  <2>1. /\ UNCHANGED <<kind, state, pid, ppid, parent, late, signo, walkVars, ret, handle, tried, told>>
        /\ denied' \subseteq Processes /\ pc = "open" /\ i >= 1 /\ i \in 0 .. Len(pids)
        /\ i' = i - 1 /\ pc' = IF i = 1 THEN "done" ELSE "open"
    BY <1>2 DEF Pass, Down, tableVars
  <2>2. handle' = NoHandle
    BY <1>2, <2>1
  <2>3. i' \in 0 .. Len(pids) /\ (pc' # "done" => i' >= 1) /\ pc' \in {"open", "done"}
    BY <2>1, LenOfPids, <1>2
  <2>4. QED
    BY <1>2, <2>1, <2>2, <2>3, TypedByParts DEF Born, Running
<1>3. ASSUME TypeInv, Close, Helping
      PROVE  /\ i' \in 0 .. Len(pids) /\ (pc' # "done" => i' >= 1) /\ pc' \in {"open", "done"}
             /\ handle' = NoHandle
  <2>1. i' = i - 1 /\ pc' = (IF i = 1 THEN "done" ELSE "open") /\ handle' = NoHandle
    BY <1>3 DEF Close, Down
  <2>2. i \in 0 .. Len(pids) /\ i >= 1 /\ Len(pids) \in Nat
    BY <1>3, LenOfPids DEF Helping
  <2>3. QED
    BY <2>1, <2>2 DEF NoHandle
<1>4. ASSUME TypeInv, Terminate PROVE TypeInv'
  <2>1. Helping /\ Close /\ UNCHANGED <<kind, pid, ppid, parent, late, signo, walkVars, tried, denied>>
    BY <1>4 DEF Terminate, Helping
  <2>2. \/ UNCHANGED <<state, told>> /\ ret' = -1
        \/ /\ Running(handle.of) /\ handle.of \in Processes
           /\ state' = [state EXCEPT ![handle.of] = "ended"] /\ ret' = ret
           /\ told' = told \cup {[of |-> handle.of, by |-> "terminate"]}
    BY <1>4, <2>1, HandleOfProcess DEF Terminate
  <2>3. QED
    BY <1>3, <1>4, <2>1, <2>2, TypedByParts DEF Born, Running
<1>5. ASSUME TypeInv, NEW how \in {"ctrl", "exit"}, HelperDone(how) PROVE TypeInv'
  <2>1. Helping /\ Close /\ handle.of \in Processes /\ ret' = -1
        /\ UNCHANGED <<kind, state, pid, ppid, parent, late, signo, walkVars, tried, denied>>
        /\ told' = told \cup {[of |-> handle.of, by |-> "helper"]}
    BY <1>5, HandleOfProcess DEF HelperDone, Helping, tableVars
  <2>2. QED
    BY <1>3, <1>5, <2>1, TypedByParts DEF Born, Running
<1>6. ASSUME TypeInv, NEW how \in {"ctrl", "exit"}, HelperFails(how) PROVE TypeInv'
  BY <1>6, TypedByParts DEF HelperFails, AfterHelper, Helping, Born, Running, tableVars, endVars
<1>7. ASSUME TypeInv, NEW how \in {"ctrl", "exit"}, HelperLate(how) PROVE TypeInv'
  <2>1. Running(handle.of) /\ handle.of \in Processes /\ late' = late \cup {pid[handle.of]}
        /\ pc \in {"ctrl", "exit"} /\ pc' \in {"exit", "terminate"}
        /\ UNCHANGED <<kind, state, pid, ppid, parent, signo, walkVars, endVars, told>>
    BY <1>7, HandleOfProcess DEF HelperLate, AfterHelper, Helping
  <2>2. pid[handle.of] \in Pids
    BY <1>7, <2>1 DEF TableOK, Born, Running
  <2>3. QED
    BY <1>7, <2>1, <2>2, TypedByParts DEF Born, Running, endVars
<1> HIDE DEF TypeInv, TypeOK
<1>8. QED
  BY <1>1, <1>2, <1>4, <1>5, <1>6, <1>7 DEF Finish

LEMMA StutterTyped == TypeInv /\ UNCHANGED vars => TypeInv'
<1> SUFFICES ASSUME TypeInv, UNCHANGED vars PROVE TypeInv'
  OBVIOUS
<1> USE DEF vars, tableVars, walkVars, endVars
<1>1. TypeOK'
  BY DEF TypeInv, TypeOK, NoHandle
<1>2. TableOK' /\ SnapshotOK'
  BY DEF TypeInv, TableOK, SnapshotOK, Born, Running, Entry
<1>3. QED
  BY <1>1, <1>2 DEF TypeInv

LEMMA TypeStep == TypeInv /\ [Next]_vars => TypeInv'
  BY EnvironmentTyped, WalkTyped, FinishTyped, StutterTyped DEF Next, Returned

LEMMA TypeInvariant == Spec => []TypeInv
  BY InitTyped, TypeStep, PTL DEF Spec

\* Whatever the processes do, exit_process_tree (patch 35, line 411) stays in
\* its array and its calls find what they need.
THEOREM TreeTypeCorrect == Spec => []TypeOK
<1>1. TypeInv => TypeOK
  BY DEF TypeInv
<1>2. QED
  BY <1>1, TypeInvariant, PTL

-----------------------------------------------------------------------------
(* The result: while it is 0, all that were tried have been terminated, but *)
(* for the one at hand.                                                     *)

ResultInv ==
  /\ Helping => handle.of \in tried
  /\ ret = 0 => \A p \in tried :
       \/ Helping /\ p = handle.of
       \/ [of |-> p, by |-> "terminate"] \in told

LEMMA ResultStep == TypeInv /\ ResultInv /\ [Next]_vars => ResultInv'
<1> SUFFICES ASSUME TypeInv, ResultInv, [Next]_vars PROVE ResultInv'
  OBVIOUS
<1> USE DEF ResultInv, Helping
<1>1. CASE Environment
  BY <1>1 DEF Environment, Spawn, End, LateHelper, endVars
<1>2. CASE Walk
  <2>1. UNCHANGED <<tried, ret>> /\ told \subseteq told' /\ ~Helping /\ ~Helping'
    BY <1>2 DEF Walk, TakeSnapshot, SnapshotFails, PassOver, SignalMsys, AddPid, Advance,
                endVars
  <2>2. QED
    BY <2>1
<1>3. ASSUME NEW p \in Processes, NEW may, Open(p, may) PROVE ResultInv'
  <2>1. Helping' /\ handle'.of = p /\ ~Helping /\ tried' = tried \cup {p} /\ UNCHANGED <<ret, told>>
    BY <1>3 DEF Open, First
  <2>2. QED
    BY <2>1
<1>4. CASE Pass
  BY <1>4 DEF Pass, Down
<1>5. CASE Terminate
  <2>1. /\ ~Helping' /\ tried' = tried /\ ret \in {0, -1}
        /\ \/ ret' = -1
           \/ ret' = ret /\ told' = told \cup {[of |-> handle.of, by |-> "terminate"]}
    BY <1>5 DEF Terminate, Close, Down, TypeInv, TypeOK
  <2>2. QED
    BY <2>1
<1>6. ASSUME NEW how \in {"ctrl", "exit"}, HelperDone(how) PROVE ResultInv'
  BY <1>6 DEF HelperDone, Close, Down
<1>7. ASSUME NEW how \in {"ctrl", "exit"}, HelperFails(how) \/ HelperLate(how) PROVE ResultInv'
  BY <1>7 DEF HelperFails, HelperLate, AfterHelper, endVars
<1>8. CASE UNCHANGED vars
  BY <1>8 DEF vars, endVars
<1>9. QED
  BY <1>1, <1>2, <1>3, <1>4, <1>5, <1>6, <1>7, <1>8 DEF Next, Finish, Returned

\* When the caller is told of success (patch 35, line 503), every process
\* that could be opened was terminated by the call.
THEOREM ZeroIsHonest == Spec => []ZeroMeansTerminated
<1>1. Init => ResultInv
  BY DEF Init, ResultInv, Helping
<1>2. ResultInv => ZeroMeansTerminated
  BY DEF ResultInv, ZeroMeansTerminated, Helping
<1>3. QED
  BY <1>1, <1>2, TypeInvariant, ResultStep, PTL DEF Spec

-----------------------------------------------------------------------------
(* Nobody but descendants.                                                 *)

IdOfDescendant(w) == \E p \in Processes : Born(p) /\ pid[p] = w /\ Descends(p)

\* As long as no id is used twice, the ids in the list and those the late
\* helpers have are ids of descendants.
DescentInv ==
  /\ Helping => handle.of \in tried
  /\ NoReuse =>
       /\ \A w \in Listed \cup late : IdOfDescendant(w)
       /\ \A p \in tried \cup denied : Descends(p)
       /\ \A t \in told : Descends(t.of)

LEMMA ReuseStays == TypeInv /\ [Next]_vars /\ NoReuse' => NoReuse
<1> SUFFICES ASSUME TypeInv, [Next]_vars, NoReuse',
                    NEW p \in Processes, NEW q \in Processes, Born(p), Born(q)
             PROVE  /\ pid[p] = pid[q] => p = q
                    /\ ppid[p] = pid[q] => parent[p] = q
  BY DEF NoReuse
<1>1. /\ Born(p)' /\ pid'[p] = pid[p] /\ ppid'[p] = ppid[p] /\ parent'[p] = parent[p]
      /\ Born(q)' /\ pid'[q] = pid[q]
  BY TableKept
<1>2. /\ pid'[p] = pid'[q] => p = q
      /\ ppid'[p] = pid'[q] => parent'[p] = q
  BY <1>1 DEF NoReuse
<1>3. QED
  BY <1>1, <1>2

LEMMA DescentStays ==
  ASSUME TypeInv, [Next]_vars, NEW p, Descends(p)
  PROVE  Descends(p)'
<1> SUFFICES ASSUME NEW S \in SUBSET Processes, Main \in S,
                    \A q \in Processes : parent'[q] \in S => q \in S
             PROVE  p \in S
  BY DEF Descends
<1>1. ASSUME NEW q \in Processes, parent[q] \in S PROVE q \in S
  <2>1. CASE Born(q)
    BY <1>1, <2>1, TableKept
  <2>2. CASE ~Born(q)
    BY <1>1, <2>2, TreeAssumption DEF TypeInv, TableOK
  <2>3. QED
    BY <2>1, <2>2
<1>2. QED
  BY <1>1 DEF Descends

LEMMA OwnerDescends ==
  ASSUME NoReuse, NEW w, IdOfDescendant(w), NEW p \in Processes, Born(p), pid[p] = w
  PROVE  Descends(p)
  BY DEF NoReuse, IdOfDescendant

LEMMA ChildDescends ==
  ASSUME NoReuse, NEW p \in Processes, Born(p), IdOfDescendant(ppid[p])
  PROVE  Descends(p)
<1>1. PICK d \in Processes : Born(d) /\ pid[d] = ppid[p] /\ Descends(d)
  BY DEF IdOfDescendant
<1>2. parent[p] = d
  BY <1>1 DEF NoReuse
<1>3. QED
  BY <1>1, <1>2 DEF Descends

LEMMA MainDescends == Descends(Main)
  BY DEF Descends

\* The process whose entry is taken for a child is one.
LEMMA ListedChildDescends ==
  ASSUME TypeInv, NoReuse, pc = "walk", ChildOfListed,
         \A w \in Listed : IdOfDescendant(w)
  PROVE  IdOfDescendant(entry.pid)
<1>1. PICK p \in seen : entry = Entry(p)
  BY EntryOfSeen
<1>2. p \in Processes /\ Born(p)
  BY <1>1 DEF TypeInv, TypeOK, SnapshotOK
<1>3. IdOfDescendant(ppid[p])
  BY <1>1 DEF ChildOfListed, Listed, Entry
<1>4. QED
  BY <1>1, <1>2, <1>3, ChildDescends DEF IdOfDescendant, Entry

LEMMA IdStays ==
  ASSUME TypeInv, [Next]_vars, NEW w, IdOfDescendant(w)
  PROVE  IdOfDescendant(w)'
<1>1. PICK p \in Processes : Born(p) /\ pid[p] = w /\ Descends(p)
  BY DEF IdOfDescendant
<1>2. QED
  BY <1>1, TableKept, DescentStays DEF IdOfDescendant

\* What has to be shown of a step, said of the state before it.
LEMMA DescentByParts ==
  ASSUME TypeInv, [Next]_vars, Helping' => handle'.of \in tried',
         NoReuse =>
           /\ \A w \in Listed' \cup late' : IdOfDescendant(w)
           /\ \A p \in tried' \cup denied' : Descends(p)
           /\ \A t \in told' : Descends(t.of)
  PROVE  DescentInv'
<1> SUFFICES ASSUME NoReuse'
             PROVE  /\ \A w \in Listed' \cup late' : IdOfDescendant(w)'
                    /\ \A p \in tried' \cup denied' : Descends(p)'
                    /\ \A t \in told' : Descends(t.of)'
  BY DEF DescentInv
<1>1. NoReuse
  BY ReuseStays
<1>2. QED
  BY <1>1, IdStays, DescentStays

LEMMA DescentStep == TypeInv /\ DescentInv /\ [Next]_vars => DescentInv'
<1> SUFFICES ASSUME TypeInv, DescentInv, [Next]_vars PROVE DescentInv'
  OBVIOUS
<1> USE DEF Helping
<1>a. ASSUME UNCHANGED <<pids, late, tried, denied, told>>, Helping' => handle'.of \in tried'
      PROVE  DescentInv'
  BY <1>a, DescentByParts DEF DescentInv, Listed
<1>1. ASSUME NEW p \in Processes, NEW q \in Processes, NEW w \in Pids, Spawn(p, q, w)
      PROVE  DescentInv'
  BY <1>1, <1>a DEF Spawn, walkVars, endVars, DescentInv
<1>2. ASSUME NEW p \in Processes, End(p) PROVE DescentInv'
  BY <1>2, <1>a DEF End, walkVars, endVars, DescentInv
<1>3. ASSUME NEW w \in Pids, LateHelper(w) PROVE DescentInv'
  <2> DEFINE R == {p \in Processes : Running(p) /\ pid[p] = w}
  <2>1. /\ w \in late /\ late' \subseteq late
        /\ told' = told \cup {[of |-> p, by |-> "helper"] : p \in R}
        /\ UNCHANGED <<pc, pids, tried, denied, handle>>
    BY <1>3 DEF LateHelper, walkVars, endVars
  <2>2. NoReuse => \A p \in R : Descends(p)
    BY <2>1, OwnerDescends DEF DescentInv, Listed, Running, Born
  <2>3. \A t \in told' : t \in told \/ t.of \in R
    BY <2>1
  <2> HIDE DEF R
  <2>4. QED
    BY <2>1, <2>2, <2>3, DescentByParts DEF DescentInv, Listed
<1>4. CASE TakeSnapshot \/ SnapshotFails
  BY <1>4, <1>a DEF TakeSnapshot, SnapshotFails, tableVars, walkVars, endVars, DescentInv
<1>5. CASE PassOver
  <2>1. UNCHANGED <<pids, late, tried, denied, told>> /\ ~Helping'
    BY <1>5 DEF PassOver, Advance, tableVars
  <2>2. QED
    BY <2>1, <1>a
<1>6. CASE SignalMsys
  <2> DEFINE R == {p \in Msys(entry.pid) : kind[p] = "leader"}
  <2>1. /\ UNCHANGED <<pids, late, tried, denied>> /\ ~Helping'
        /\ told' = told \cup {[of |-> p, by |-> "signal"] : p \in R}
        /\ pc = "walk" /\ ChildOfListed
    BY <1>6 DEF SignalMsys, Advance, tableVars
  <2>2. \A p \in R : p \in Processes /\ Born(p) /\ pid[p] = entry.pid
    BY DEF Msys, Running, Born
  <2>3. NoReuse => \A p \in R : Descends(p)
    BY <2>1, <2>2, OwnerDescends, ListedChildDescends DEF DescentInv
  <2>4. \A t \in told' : t \in told \/ t.of \in R
    BY <2>1
  <2> HIDE DEF R
  <2>5. QED
    BY <2>1, <2>3, <2>4, DescentByParts DEF DescentInv, Listed
<1>7. CASE AddPid
  <2>1. UNCHANGED <<late, tried, denied, told>> /\ ~Helping' /\ pc = "walk" /\ ChildOfListed
    BY <1>7 DEF AddPid, Advance, tableVars
  <2>2. NoReuse => IdOfDescendant(entry.pid)
    BY <2>1, ListedChildDescends DEF DescentInv
  <2>3. Listed' = Listed \cup {entry.pid}
    <3>1. 1 .. Len(pids) + 1 = 1 .. Len(pids) \cup {Len(pids) + 1}
      BY LenOfPids
    <3>2. QED
      BY <1>7, <3>1, PidAdded DEF Listed
  <2>4. QED
    BY <2>1, <2>2, <2>3, DescentByParts DEF DescentInv, Listed
<1>8. ASSUME NEW p \in Processes, NEW may, Open(p, may) PROVE DescentInv'
  <2>1. /\ UNCHANGED <<pids, late, denied, told>> /\ tried' = tried \cup {p} /\ handle'.of = p
        /\ p = Main \/ (Running(p) /\ pid[p] = pids[i] /\ i \in 1 .. Len(pids))
    BY <1>8, LenOfPids DEF Open, walkVars, tableVars, TypeInv, TypeOK
  <2>2. NoReuse => Descends(p)
    BY <2>1, MainDescends, OwnerDescends DEF DescentInv, Listed, Running, Born
  <2>3. QED
    BY <2>1, <2>2, DescentByParts DEF DescentInv, Listed
<1>9. CASE Pass
  <2> DEFINE R == {p \in Processes : i > 1 /\ Running(p) /\ pid[p] = pids[i]}
  <2>1. /\ UNCHANGED <<pids, late, tried, told>> /\ denied' = denied \cup R /\ ~Helping'
        /\ i \in 1 .. Len(pids)
    BY <1>9, LenOfPids DEF Pass, Down, walkVars, tableVars, TypeInv, TypeOK
  <2>2. NoReuse => \A p \in R : Descends(p)
    BY <2>1, OwnerDescends DEF DescentInv, Listed, Running, Born
  <2> HIDE DEF R
  <2>3. QED
    BY <2>1, <2>2, DescentByParts DEF DescentInv, Listed
<1>10. ASSUME UNCHANGED <<pids, late, tried, denied>>, ~Helping', Helping,
              \/ told' = told
              \/ \E by \in {"helper", "terminate"} : told' = told \cup {[of |-> handle.of, by |-> by]}
       PROVE  DescentInv'
  <2>1. \A t \in told' : t \in told \/ t.of \in tried
    BY <1>10 DEF DescentInv
  <2>2. QED
    BY <1>10, <2>1, DescentByParts DEF DescentInv, Listed
<1>11. CASE Terminate
  BY <1>10, <1>11 DEF Terminate, Close, Down, walkVars
<1>12. ASSUME NEW how \in {"ctrl", "exit"}, HelperDone(how) PROVE DescentInv'
  BY <1>10, <1>12 DEF HelperDone, Close, Down, walkVars, tableVars
<1>13. ASSUME NEW how \in {"ctrl", "exit"}, HelperFails(how) PROVE DescentInv'
  BY <1>a, <1>13 DEF HelperFails, walkVars, tableVars, endVars, DescentInv
<1>14. ASSUME NEW how \in {"ctrl", "exit"}, HelperLate(how) PROVE DescentInv'
  <2>1. /\ UNCHANGED <<pids, tried, denied, told, handle>> /\ late' = late \cup {pid[handle.of]}
        /\ Helping /\ Running(handle.of)
    BY <1>14 DEF HelperLate, walkVars, endVars
  <2>2. NoReuse => IdOfDescendant(pid[handle.of])
    BY <2>1, HandleOfProcess DEF DescentInv, IdOfDescendant, Running, Born
  <2>3. QED
    BY <2>1, <2>2, DescentByParts DEF DescentInv, Listed
<1>15. CASE UNCHANGED vars
  BY <1>15, <1>a DEF vars, walkVars, tableVars, endVars, DescentInv
<1>16. QED
  BY <1>1, <1>2, <1>3, <1>4, <1>5, <1>6, <1>7, <1>8, <1>9, <1>11, <1>12, <1>13,
     <1>14, <1>15
  DEF Next, Environment, Walk, Finish, Returned

\* As long as no id is used a second time, late helpers included, nobody is
\* opened, terminated or signalled (patch 35, lines 459, 482 and 399) who was
\* not spawned, directly or not, by main_process.
THEOREM DescendantsOnly == Spec => []OnlyDescendants
<1>1. Init => DescentInv
  <2> SUFFICES ASSUME Init PROVE DescentInv
    OBVIOUS
  <2>1. IdOfDescendant(pid[Main])
    BY InitTyped, MainDescends, TreeAssumption DEF IdOfDescendant, TypeInv, TableOK
  <2>2. pids = <<pid[Main]>> /\ late = {} /\ tried = {} /\ denied = {} /\ told = {} /\ ~Helping
    BY DEF Init, Helping
  <2>3. QED
    BY <2>1, <2>2 DEF DescentInv, Listed
<1>2. DescentInv => OnlyDescendants
  BY DEF DescentInv, OnlyDescendants
<1>3. QED
  BY <1>1, <1>2, TypeInvariant, DescentStep, PTL DEF Spec

-----------------------------------------------------------------------------
(* The list.  While a pass has added nothing, what it has gone through is   *)
(* closed under "spawned by one of the list"; a whole pass of that kind is  *)
(* what ends the walk.                                                      *)

Rooted ==
  \A k \in 2 .. Len(pids) :
    /\ \A j \in 1 .. k - 1 : pids[j] # pids[k]
    /\ \E p \in seen : pid[p] = pids[k] /\ \E j \in 1 .. k - 1 : pids[j] = ppid[p]

PassClosed ==
  pc = "walk" /\ Len(pids) = orig_len =>
    \A k \in 1 .. next - 1 :
      snapshot[k].ppid \in Listed => snapshot[k].pid \in Listed \cup cut

ListClosed ==
  pc \notin {"snapshot", "walk"} /\ Len(pids) < MaxLen =>
    \A p \in seen : ppid[p] \in Listed => pid[p] \in Listed \cup cut

TreeInv == (~Cyclic => Rooted) /\ PassClosed /\ ListClosed

\* What the tree depends on.
LEMMA TreeKept ==
  ASSUME TypeInv, TreeInv, [Next]_vars, UNCHANGED walkVars,
         pc' \in {"snapshot", "walk"} <=> pc \in {"snapshot", "walk"}, pc' = "walk" <=> pc = "walk"
  PROVE  TreeInv'
<1>1. \A p \in seen : pid'[p] = pid[p] /\ ppid'[p] = ppid[p]
  BY TableKept DEF TypeInv, TypeOK, SnapshotOK
<1>2. ppid'[Main] = ppid[Main]
  BY TableKept, TreeAssumption DEF TypeInv, TableOK
<1>3. UNCHANGED <<snapshot, next, pids, orig_len, seen, cut>> /\ Listed' = Listed
  BY DEF walkVars, Listed
<1>4. (~Cyclic => Rooted)'
  BY <1>1, <1>2, <1>3 DEF TreeInv, Cyclic, Rooted
<1>5. PassClosed' /\ ListClosed'
  BY <1>1, <1>3 DEF TreeInv, PassClosed, ListClosed
<1>6. QED
  BY <1>4, <1>5 DEF TreeInv

\* The id of a child of one of the list is new to the list.
LEMMA ChildIsNew ==
  ASSUME TypeInv, TreeInv, pc = "walk", ChildOfListed, ~Cyclic
  PROVE  entry.pid \notin Listed
<1>1. PICK p \in seen : entry = Entry(p)
  BY EntryOfSeen
<1>2. p \in Processes /\ entry.pid = pid[p] /\ entry.ppid = ppid[p]
  BY <1>1 DEF TypeInv, TypeOK, Entry
<1>3. PICK k \in 1 .. Len(pids) :
        pids[k] = ppid[p] /\ \A l \in k .. Len(pids) : pids[l] # pid[p]
  BY <1>2 DEF ChildOfListed
<1>4. SUFFICES ASSUME NEW j \in 1 .. Len(pids), pids[j] = pid[p] PROVE FALSE
  BY <1>2 DEF Listed
<1>5. j < k
  BY <1>3, <1>4, LenOfPids
<1>6. CASE j = 1
  <2>1. p = Main
    BY <1>2, <1>4, <1>6, FirstIsMain DEF TypeInv, TableOK
  <2>2. QED
    BY <1>3, <2>1 DEF Cyclic, Listed
<1>7. CASE j # 1
  <2>1. j \in 2 .. Len(pids) /\ k \in 2 .. Len(pids)
    BY <1>5, <1>7, LenOfPids
  <2>2. PICK q \in seen : pid[q] = pids[j] /\ \E m \in 1 .. j - 1 : pids[m] = ppid[q]
    BY <2>1 DEF TreeInv, Rooted
  <2>3. q = p
    BY <1>1, <1>4, <2>2 DEF TypeInv, SnapshotOK
  <2>4. PICK m \in 1 .. j - 1 : pids[m] = pids[k]
    BY <1>3, <2>2, <2>3
  <2>5. m \in 1 .. k - 1
    BY <1>5, <2>1, <2>4
  <2>6. QED
    BY <2>1, <2>4, <2>5 DEF TreeInv, Rooted
<1>8. QED
  BY <1>6, <1>7

\* The entry just looked at is in order too, if nothing is added for it.
LEMMA EntryClosed ==
  ASSUME TypeInv, TreeInv, pc = "walk", Advance,
         UNCHANGED <<pids, pid, ppid, seen>>, cut \subseteq cut',
         entry.ppid \in Listed => entry.pid \in Listed \cup cut'
  PROVE  PassClosed' /\ ListClosed'
<1>1. /\ next \in 1 .. Len(snapshot) /\ Len(snapshot) \in Nat
      /\ Len(pids) \in Nat /\ Listed' = Listed
  BY LenOfPids, LenProperties DEF TypeInv, TypeOK, Listed
<1>2. Len(pids) = orig_len =>
        \A k \in 1 .. next : snapshot[k].ppid \in Listed => snapshot[k].pid \in Listed \cup cut'
  <2>1. \A k \in 1 .. next : k \in 1 .. next - 1 \/ k = next
    BY <1>1
  <2>2. QED
    BY <2>1 DEF TreeInv, PassClosed, entry
<1>3. NextEntry \/ NextPass \/ LastEntry
  BY <1>1, AdvanceCases
<1>4. CASE NextEntry
  BY <1>1, <1>2, <1>4 DEF NextEntry, PassClosed, ListClosed
<1>5. CASE NextPass
  BY <1>1, <1>5 DEF NextPass, PassClosed, ListClosed
<1>6. CASE LastEntry
  <2>1. PassClosed'
    BY <1>6 DEF LastEntry, PassClosed
  <2>2. ASSUME Len(pids) < MaxLen, NEW p \in seen, ppid[p] \in Listed
        PROVE  pid[p] \in Listed \cup cut'
    <3>1. PICK k \in 1 .. Len(snapshot) : snapshot[k] = Entry(p)
      BY DEF TypeInv, SnapshotOK
    <3>2. next = Len(snapshot) /\ Len(pids) = orig_len
      BY <1>6, <2>2 DEF LastEntry
    <3>3. QED
      BY <1>2, <2>2, <3>1, <3>2 DEF Entry
  <2>3. QED
    BY <1>1, <2>1, <2>2 DEF ListClosed
<1>7. QED
  BY <1>3, <1>4, <1>5, <1>6

LEMMA TreeStep == TypeInv /\ TreeInv /\ [Next]_vars => TreeInv'
<1> SUFFICES ASSUME TypeInv, TreeInv, [Next]_vars PROVE TreeInv'
  OBVIOUS
<1>1. CASE Environment
  <2>1. UNCHANGED <<pc, walkVars>>
    BY <1>1 DEF Environment, Spawn, End, LateHelper
  <2>2. QED
    BY <2>1, TreeKept
<1>2. CASE TakeSnapshot \/ SnapshotFails
  <2>1. /\ seen = {} /\ pids = <<pid[Main]>> /\ next = 1 /\ pc' \in {"walk", "open"}
        /\ UNCHANGED <<pid, ppid, pids, next, orig_len>>
    BY <1>2 DEF TakeSnapshot, SnapshotFails, tableVars, walkVars, TypeInv, SnapshotOK
  <2>2. Rooted' /\ PassClosed'
    BY <2>1 DEF Rooted, PassClosed
  <2>3. pc' = "open" => seen' = {}
    BY <1>2, <2>1 DEF TakeSnapshot, SnapshotFails, walkVars
  <2>4. QED
    BY <2>1, <2>2, <2>3 DEF TreeInv, ListClosed
<1>3. ASSUME UNCHANGED <<pids, pid, ppid, seen>> PROVE (~Cyclic => Rooted)'
  BY <1>3 DEF TreeInv, Cyclic, Rooted, Listed
<1>4. CASE PassOver
  <2>1. /\ pc = "walk" /\ ~ChildOfListed /\ Advance
        /\ UNCHANGED <<pids, pid, ppid, seen, cut>>
    BY <1>4 DEF PassOver, tableVars
  <2>2. entry.ppid \in Listed => entry.pid \in Listed
    <3>1. ASSUME NEW k \in 1 .. Len(pids), pids[k] = entry.ppid PROVE entry.pid \in Listed
      <4>1. PICK l \in k .. Len(pids) : pids[l] = entry.pid
        BY <2>1, <3>1 DEF ChildOfListed
      <4>2. l \in 1 .. Len(pids)
        BY LenOfPids
      <4>3. QED
        BY <4>1, <4>2 DEF Listed
    <3>2. QED
      BY <3>1 DEF Listed
  <2>3. QED
    BY <1>3, <2>1, <2>2, EntryClosed DEF TreeInv
<1>5. CASE SignalMsys
  <2>1. /\ pc = "walk" /\ Advance /\ cut' = cut \cup {entry.pid}
        /\ UNCHANGED <<pids, pid, ppid, seen>>
    BY <1>5 DEF SignalMsys, tableVars
  <2>2. QED
    BY <1>3, <2>1, EntryClosed DEF TreeInv
<1>6. CASE AddPid
  <2>1. /\ pc = "walk" /\ ChildOfListed /\ Advance /\ UNCHANGED <<pid, ppid, seen, cut>>
        /\ Len(pids') = Len(pids) + 1 /\ Len(pids) \in Nat /\ Len(pids) >= 1
        /\ pids'[Len(pids) + 1] = entry.pid
        /\ \A k \in 1 .. Len(pids) : pids'[k] = pids[k]
    BY <1>6, PidAdded, LenOfPids DEF AddPid, tableVars
  <2>2. ~Cyclic' => ~Cyclic
    BY <2>1 DEF Cyclic, Listed
  <2>3. ASSUME ~Cyclic' PROVE Rooted'
    <3>1. Rooted /\ entry.pid \notin Listed
      BY <2>1, <2>2, <2>3, ChildIsNew DEF TreeInv
    <3>2. PICK p \in seen : entry = Entry(p)
      BY <2>1, EntryOfSeen
    <3>3. \E j \in 1 .. Len(pids) : pids[j] = ppid[p]
      BY <2>1, <3>2 DEF ChildOfListed, Entry
    <3>4. \A k \in 2 .. Len(pids') : k \in 2 .. Len(pids) \/ k = Len(pids) + 1
      BY <2>1
    <3>5. ASSUME NEW k \in 2 .. Len(pids)
          PROVE  /\ \A j \in 1 .. k - 1 : pids'[j] # pids'[k]
                 /\ \E q \in seen : pid[q] = pids'[k] /\ \E j \in 1 .. k - 1 : pids'[j] = ppid[q]
      <4>1. k \in 1 .. Len(pids) /\ \A j \in 1 .. k - 1 : j \in 1 .. Len(pids)
        BY <2>1
      <4>2. QED
        BY <2>1, <3>1, <4>1 DEF Rooted
    <3>6. LET k == Len(pids) + 1 IN
            /\ \A j \in 1 .. k - 1 : pids'[j] # pids'[k]
            /\ pid[p] = pids'[k] /\ \E j \in 1 .. k - 1 : pids'[j] = ppid[p]
      BY <2>1, <3>1, <3>2, <3>3 DEF Listed, Entry
    <3>7. ASSUME NEW k \in 2 .. Len(pids')
          PROVE  /\ \A j \in 1 .. k - 1 : pids'[j] # pids'[k]
                 /\ \E q \in seen : pid[q] = pids'[k] /\ \E j \in 1 .. k - 1 : pids'[j] = ppid[q]
      <4>1. CASE k \in 2 .. Len(pids)
        BY <3>5, <4>1
      <4>2. CASE k = Len(pids) + 1
        BY <3>2, <3>6, <4>2
      <4>3. QED
        BY <3>4, <4>1, <4>2
    <3>8. seen' = seen /\ pid' = pid /\ ppid' = ppid
      BY <2>1
    <3>9. QED
      BY <3>7, <3>8 DEF Rooted
  <2>4. NextEntry \/ NextPass \/ LastEntry
    BY <2>1, AdvanceCases
  <2>5. orig_len \in 1 .. Len(pids) /\ MaxLen \in Nat
    BY LenOfPids DEF TypeInv, TypeOK
  <2>6. PassClosed' /\ ListClosed'
    BY <2>1, <2>4, <2>5 DEF NextEntry, NextPass, LastEntry, PassClosed, ListClosed
  <2>7. QED
    BY <2>3, <2>6 DEF TreeInv
<1>7. CASE Finish
  <2>1. UNCHANGED walkVars /\ pc \notin {"snapshot", "walk"} /\ pc' \notin {"snapshot", "walk"}
    BY <1>7 DEF Finish, Open, First, Pass, Terminate, HelperDone, HelperFails, HelperLate,
                AfterHelper, Close, Down
  <2>2. QED
    BY <2>1, TreeKept
<1>8. CASE UNCHANGED vars
  <2>1. UNCHANGED <<pc, walkVars>>
    BY <1>8 DEF vars
  <2>2. QED
    BY <2>1, TreeKept
<1>9. QED
  BY <1>1, <1>2, <1>4, <1>5, <1>6, <1>7, <1>8 DEF Next, Walk, Returned

LEMMA InitTree == Init => TreeInv
  BY DEF Init, TreeInv, Rooted, PassClosed, ListClosed

LEMMA TreeInvariant == Spec => []TreeInv
  BY InitTree, TypeInvariant, TreeStep, PTL DEF Spec

\* The list that the loop of patch 35, lines 432 to 470, comes to is a tree in
\* the order the processes were spawned in, and complete, whatever the order of
\* the entries: unless the id main_process's dead parent had is in the tree.
THEOREM ListedTree == Spec => []ListIsTree
<1>1. TypeInv /\ TreeInv => ListIsTree
  <2> SUFFICES ASSUME TypeInv, TreeInv PROVE ListIsTree
    OBVIOUS
  <2>1. pids[1] = pid[Main]
    BY FirstIsMain
  <2>2. ASSUME ~Cyclic, NEW k \in 2 .. Len(pids)
        PROVE  /\ \A j \in 1 .. k - 1 : pids[j] # pids[k]
               /\ \E e \in Entries : e.pid = pids[k] /\ \E j \in 1 .. k - 1 : pids[j] = e.ppid
    <3>1. /\ \A j \in 1 .. k - 1 : pids[j] # pids[k]
          /\ \E q \in seen : pid[q] = pids[k] /\ \E j \in 1 .. k - 1 : pids[j] = ppid[q]
      BY <2>2 DEF TreeInv, Rooted
    <3>2. PICK q \in seen : pid[q] = pids[k] /\ \E j \in 1 .. k - 1 : pids[j] = ppid[q]
      BY <3>1
    <3>3. Entry(q) \in Entries /\ Entry(q).pid = pid[q] /\ Entry(q).ppid = ppid[q]
      BY DEF Entries, Entry
    <3>4. QED
      BY <3>1, <3>2, <3>3
  <2>3. ASSUME pc \notin {"snapshot", "walk"}, Len(pids) < MaxLen, NEW e \in Entries, e.ppid \in Listed
        PROVE  e.pid \in Listed \cup cut
    <3>1. PICK q \in seen : e = Entry(q)
      BY DEF Entries
    <3>2. e.pid = pid[q] /\ e.ppid = ppid[q]
      BY <3>1 DEF Entry
    <3>3. QED
      BY <2>3, <3>2 DEF TreeInv, ListClosed
  <2>4. QED
    BY <2>1, <2>2, <2>3 DEF ListIsTree
<1>2. QED
  BY <1>1, TypeInvariant, TreeInvariant, PTL

-----------------------------------------------------------------------------
(* Whoever stays is met.  The ids that are cut off are those of MSYS        *)
(* processes, those listed are not, and the end of the list is dealt with.  *)

CutInv ==
  /\ pc = "snapshot" => cut = {}
  /\ \A p \in seen : Running(p) /\ pid[p] \in cut =>
       /\ kind[p] # "win32"
       /\ kind[p] = "leader" => [of |-> p, by |-> "signal"] \in told

ListedWin32 ==
  \A k \in 2 .. Len(pids) : \A p \in seen :
    Running(p) /\ pid[p] = pids[k] => kind[p] = "win32"

Dealt(k) == pc \notin {"snapshot", "walk"} /\ (k > i \/ (k = i /\ Helping))

DealtInv ==
  /\ pc = "done" => i = 0
  /\ \A k \in 2 .. Len(pids) : \A p \in seen :
       Dealt(k) /\ Running(p) /\ pid[p] = pids[k] => p \in tried \cup denied

HandledInv == CutInv /\ ListedWin32 /\ DealtInv

\* What runs still is what ran.
LEMMA StillRunning ==
  ASSUME TypeInv, [Next]_vars, NEW p \in seen
  PROVE  /\ p \in Processes /\ pid'[p] = pid[p] /\ kind'[p] = kind[p]
         /\ Running(p)' => Running(p)
  BY TableKept DEF TypeInv, TypeOK, SnapshotOK

LEMMA HandledKept ==
  ASSUME TypeInv, HandledInv, [Next]_vars, UNCHANGED walkVars,
         pc = "snapshot" <=> pc' = "snapshot",
         told \subseteq told', tried \subseteq tried', denied \subseteq denied',
         pc' = "done" => i' = 0,
         \A k \in 2 .. Len(pids) : \A p \in seen :
           Dealt(k)' /\ Running(p) /\ pid[p] = pids[k] => Dealt(k) \/ p \in tried' \cup denied'
  PROVE  HandledInv'
<1>1. \A p \in seen : /\ pid'[p] = pid[p] /\ kind'[p] = kind[p]
                      /\ Running(p)' => Running(p)
  BY StillRunning
<1>2. UNCHANGED <<pids, seen, cut>>
  BY DEF walkVars
<1>3. CutInv'
  BY <1>1, <1>2 DEF HandledInv, CutInv
<1>4. ListedWin32'
  BY <1>1, <1>2 DEF HandledInv, ListedWin32
<1>5. DealtInv'
  <2>1. ASSUME NEW k \in 2 .. Len(pids), NEW p \in seen, Dealt(k)', Running(p)', pid'[p] = pids[k]
        PROVE  p \in tried' \cup denied'
    BY <1>1, <2>1 DEF HandledInv, DealtInv
  <2>2. QED
    BY <1>2, <2>1 DEF DealtInv
<1>6. QED
  BY <1>3, <1>4, <1>5 DEF HandledInv

\* Nothing is dealt with while the list is made, nor when it has been made.
LEMMA HandledWalk ==
  ASSUME TypeInv, HandledInv, [Next]_vars, pc = "walk", Advance, Len(pids') \in Nat,
         UNCHANGED seen, CutInv', ListedWin32'
  PROVE  HandledInv'
<1>1. NextEntry \/ NextPass \/ LastEntry
  BY AdvanceCases
<1>2. pc' = "walk" \/ (pc' = "open" /\ i' = Len(pids'))
  BY <1>1 DEF NextEntry, NextPass, LastEntry
<1>3. \A k \in 2 .. Len(pids') : ~Dealt(k)'
  BY <1>2 DEF Dealt, Helping
<1>4. DealtInv'
  BY <1>2, <1>3 DEF DealtInv
<1>5. QED
  BY <1>4 DEF HandledInv

LEMMA HandledStep == TypeInv /\ HandledInv /\ [Next]_vars => HandledInv'
<1> SUFFICES ASSUME TypeInv, HandledInv, [Next]_vars PROVE HandledInv'
  OBVIOUS
<1>a. i \in Int /\ (pc = "open" => i >= 1) /\ (Helping => i >= 1)
  BY LenOfPids DEF TypeInv, TypeOK, Helping
<1>b. pc = "done" => i = 0
  BY DEF HandledInv, DealtInv
<1>1. CASE Environment
  BY <1>1, <1>b, HandledKept
  DEF Environment, Spawn, End, LateHelper, endVars, Dealt, Helping
<1>2. CASE TakeSnapshot \/ SnapshotFails
  <2>1. Len(pids') = 1 /\ pc' \in {"walk", "open"} /\ cut' = {}
    <3>1. pc = "snapshot" /\ pc' \in {"walk", "open"} /\ pids' = pids /\ cut' = cut
      BY <1>2 DEF TakeSnapshot, SnapshotFails, walkVars
    <3>2. pids = <<pid[Main]>> /\ cut = {}
      BY <3>1 DEF TypeInv, SnapshotOK, HandledInv, CutInv
    <3>3. QED
      BY <3>1, <3>2
  <2>2. 2 .. Len(pids') = {}
    BY <2>1
  <2>3. QED
    BY <2>1, <2>2 DEF HandledInv, CutInv, ListedWin32, DealtInv
<1>3. \A p \in seen : /\ p \in Processes /\ pid'[p] = pid[p] /\ kind'[p] = kind[p]
                      /\ Running(p)' => Running(p)
  BY StillRunning
<1>4. CASE PassOver
  <2>1. pc = "walk" /\ Advance /\ UNCHANGED <<pids, seen, cut, told>> /\ pc' # "snapshot"
    BY <1>4 DEF PassOver, Advance
  <2>2. CutInv' /\ ListedWin32'
    BY <1>3, <2>1 DEF HandledInv, CutInv, ListedWin32
  <2>3. QED
    BY <2>1, <2>2, LenOfPids, HandledWalk
<1>5. CASE SignalMsys
  <2>1. /\ pc = "walk" /\ Advance /\ UNCHANGED <<pids, seen>> /\ pc' # "snapshot"
        /\ Msys(entry.pid) # {} /\ cut' = cut \cup {entry.pid}
    BY <1>5 DEF SignalMsys, Advance
  <2>2. told \subseteq told' /\ \A p \in Msys(entry.pid) :
          kind[p] = "leader" => [of |-> p, by |-> "signal"] \in told'
    BY <1>5 DEF SignalMsys
  <2>3. ASSUME NEW p \in seen, Running(p), pid[p] = entry.pid
        PROVE  p \in Msys(entry.pid) /\ kind[p] # "win32"
    <3>1. PICK r \in Processes : Running(r) /\ pid[r] = entry.pid /\ kind[r] # "win32"
      BY <2>1 DEF Msys
    <3>2. p = r
      BY <1>3, <2>3, <3>1 DEF TypeInv, TableOK
    <3>3. QED
      BY <3>1, <3>2 DEF Msys
  <2>4. CutInv'
    BY <1>3, <2>1, <2>2, <2>3 DEF HandledInv, CutInv
  <2>5. ListedWin32'
    BY <1>3, <2>1 DEF HandledInv, ListedWin32
  <2>6. QED
    BY <2>1, <2>4, <2>5, LenOfPids, HandledWalk
<1>6. CASE AddPid
  <2>1. /\ pc = "walk" /\ Advance /\ UNCHANGED <<seen, cut, told>> /\ pc' # "snapshot"
        /\ Msys(entry.pid) = {}
    BY <1>6 DEF AddPid, Advance
  <2>2. /\ Len(pids) \in Nat /\ Len(pids) >= 1 /\ Len(pids') = Len(pids) + 1
        /\ pids'[Len(pids) + 1] = entry.pid
        /\ \A k \in 1 .. Len(pids) : pids'[k] = pids[k]
    BY <1>6, PidAdded, LenOfPids
  <2>3. CutInv'
    BY <1>3, <2>1 DEF HandledInv, CutInv
  <2>4. ASSUME NEW k \in 2 .. Len(pids'), NEW p \in seen, Running(p), pid[p] = pids'[k]
        PROVE  kind[p] = "win32"
    <3>1. CASE k = Len(pids) + 1
      BY <1>3, <2>1, <2>2, <2>4, <3>1 DEF Msys
    <3>2. CASE k \in 2 .. Len(pids)
      BY <2>2, <2>4, <3>2 DEF HandledInv, ListedWin32
    <3>3. QED
      BY <2>2, <3>1, <3>2
  <2>5. ListedWin32'
    BY <1>3, <2>1, <2>4 DEF ListedWin32
  <2>6. QED
    BY <2>1, <2>2, <2>3, <2>5, HandledWalk
<1>7. ASSUME NEW p \in Processes, NEW may \in {"all", "inject", "terminate"}, Open(p, may)
      PROVE  HandledInv'
  <2>1. /\ pc = "open" /\ pc' \in {"ctrl", "exit", "terminate"} /\ i' = i
        /\ UNCHANGED <<walkVars, told, denied>> /\ tried' = tried \cup {p}
        /\ i # 1 => Running(p) /\ pid[p] = pids[i]
    BY <1>7 DEF Open, First
  <2>2. ASSUME NEW k \in 2 .. Len(pids), NEW q \in seen, Dealt(k)', Running(q), pid[q] = pids[k]
        PROVE  Dealt(k) \/ q \in tried'
    <3>1. CASE k > i
      BY <2>1, <3>1 DEF Dealt
    <3>2. CASE k = i
      <4>1. q = p
        BY <1>3, <2>1, <2>2, <3>2 DEF TypeInv, TableOK
      <4>2. QED
        BY <2>1, <4>1
    <3>3. QED
      BY <2>1, <2>2, <3>1, <3>2 DEF Dealt
  <2>3. QED
    BY <2>1, <2>2, HandledKept
<1>8. ASSUME Down, UNCHANGED <<walkVars>>, told \subseteq told', tried \subseteq tried', denied \subseteq denied',
             pc = "open" \/ Helping,
             Helping \/ \A q \in seen : i > 1 /\ Running(q) /\ pid[q] = pids[i] => q \in denied'
      PROVE  HandledInv'
  <2>1. /\ i' = i - 1 /\ pc' \in {"done", "open"} /\ (pc' = "done" => i = 1)
        /\ pc \notin {"snapshot", "walk"}
    BY <1>8 DEF Down, Helping
  <2>2. ASSUME NEW k \in 2 .. Len(pids), NEW q \in seen, Dealt(k)', Running(q), pid[q] = pids[k]
        PROVE  Dealt(k) \/ q \in denied'
    <3>1. k > i \/ k = i
      BY <1>a, <2>1, <2>2 DEF Dealt, Helping
    <3>2. CASE k > i
      BY <2>1, <3>2 DEF Dealt
    <3>3. CASE k = i
      BY <1>8, <2>1, <2>2, <3>3 DEF Dealt
    <3>4. QED
      BY <3>1, <3>2, <3>3
  <2>3. QED
    BY <1>8, <1>a, <2>1, <2>2, HandledKept
<1>9. CASE Pass
  BY <1>3, <1>8, <1>9 DEF Pass
<1>10. CASE Terminate
  BY <1>8, <1>10 DEF Terminate, Close, Helping
<1>11. ASSUME NEW how \in {"ctrl", "exit"}, HelperDone(how) PROVE HandledInv'
  BY <1>8, <1>11 DEF HelperDone, Close, Helping
<1>12. ASSUME NEW how \in {"ctrl", "exit"}, HelperFails(how) \/ HelperLate(how) PROVE HandledInv'
  <2>1. /\ Helping /\ Helping' /\ pc \notin {"snapshot", "walk", "done"} /\ pc' \notin {"snapshot", "walk", "done"}
        /\ UNCHANGED <<walkVars, told, endVars>>
    BY <1>12 DEF HelperFails, HelperLate, AfterHelper, Helping
  <2>2. \A k \in 2 .. Len(pids) : Dealt(k)' => Dealt(k)
    BY <2>1 DEF Dealt, endVars
  <2>3. QED
    BY <2>1, <2>2, HandledKept DEF endVars
<1>13. CASE UNCHANGED vars
  BY <1>13, <1>b, HandledKept DEF vars, endVars, Dealt, Helping
<1>14. QED
  BY <1>1, <1>2, <1>4, <1>5, <1>6, <1>7, <1>9, <1>10, <1>11, <1>12, <1>13
  DEF Next, Walk, Finish, Returned

LEMMA InitHandled == Init => HandledInv
  BY DEF Init, HandledInv, CutInv, ListedWin32, DealtInv, Dealt

\* Between main_process and whoever is steady there are only processes of the
\* list.
LEMMA SteadyListed ==
  ASSUME TypeInv, TreeInv, HandledInv, pc = "done", Len(pids) < MaxLen,
         NEW d \in Processes, Steady(d)
  PROVE  pid[d] \in Listed
<1> DEFINE S == {Main} \cup {q \in seen : Running(q) /\ kind[q] = "win32" /\ pid[q] \in Listed}
<1>1. Main \in Processes /\ pid[Main] \in Listed
  BY FirstIsMain DEF Listed
<1>2. \A q \in S : pid[q] \in Listed
  BY <1>1
<1>3. S \in SUBSET Processes /\ Main \in S
  BY <1>1 DEF TypeInv, TypeOK
<1>4. ASSUME NEW q \in seen, parent[q] \in S, Running(q), kind[q] = "win32" PROVE q \in S
  <2>1. q \in Processes /\ parent[q] \in Processes
    BY <1>3, <1>4 DEF TypeInv, TypeOK
  <2>2. ppid[q] \in Listed
    BY <1>2, <1>4, <2>1 DEF TypeInv, TableOK
  <2>3. pid[q] \in Listed \cup cut
    BY <2>2 DEF TreeInv, ListClosed
  <2>4. pid[q] \notin cut
    BY <1>4 DEF HandledInv, CutInv
  <2>5. QED
    BY <1>4, <2>3, <2>4
<1> HIDE DEF S
<1>5. d \in S
  BY <1>3, <1>4 DEF Steady
<1>6. QED
  BY <1>2, <1>5

\* Whoever has stayed since the snapshot, as have those between it and
\* main_process, has been opened or at least asked for, or got its signal
\* (patch 35, lines 411 to 499), unless the array was full.
THEOREM WhoStaysIsMet == Spec => []SteadyHandled
<1>1. TypeInv /\ TreeInv /\ HandledInv => SteadyHandled
  <2> SUFFICES ASSUME TypeInv, TreeInv, HandledInv, pc = "done", Len(pids) < MaxLen,
                      NEW p \in seen, Running(p), parent[p] \in Processes, Steady(parent[p])
               PROVE  /\ kind[p] = "win32" => p \in tried \cup denied
                      /\ kind[p] = "leader" => [of |-> p, by |-> "signal"] \in told
                      /\ kind[p] \in {"win32", "leader", "member"}
    BY DEF SteadyHandled
  <2>1. p \in Processes /\ kind[p] \in {"win32", "leader", "member"}
    BY TreeAssumption DEF TypeInv, TypeOK
  <2>2. ppid[p] \in Listed
    BY <2>1, SteadyListed DEF TypeInv, TableOK
  <2>3. pid[p] \in Listed \cup cut
    BY <2>2 DEF TreeInv, ListClosed
  <2>4. CASE pid[p] \in cut
    BY <2>1, <2>4 DEF HandledInv, CutInv
  <2>5. CASE pid[p] \in Listed
    <3>1. PICK k \in 1 .. Len(pids) : pid[p] = pids[k]
      BY <2>5 DEF Listed
    <3>2. k # 1
      BY <2>1, <3>1, FirstIsMain, TreeAssumption DEF TypeInv, TableOK
    <3>3. k \in 2 .. Len(pids) /\ k > 0
      BY <3>1, <3>2, LenOfPids
    <3>4. Dealt(k)
      BY <3>3 DEF Dealt, HandledInv, DealtInv
    <3>5. QED
      BY <2>1, <3>1, <3>3, <3>4 DEF HandledInv, ListedWin32, DealtInv
  <2>6. QED
    BY <2>3, <2>4, <2>5
<1>2. QED
  BY <1>1, InitHandled, HandledStep, TypeInvariant, TreeInvariant, PTL DEF Spec

-----------------------------------------------------------------------------
(* That the function comes to an end: how far it has still to go.          *)

Rank ==
  CASE pc = "snapshot" -> <<3, 0, 0, 0>>
    [] pc = "walk" -> <<2, MaxLen - orig_len, Len(snapshot) - next, 0>>
    [] pc = "open" -> <<1, i, 3, 0>>
    [] pc = "ctrl" -> <<1, i, 2, 0>>
    [] pc = "exit" -> <<1, i, 1, 0>>
    [] pc = "terminate" -> <<1, i, 0, 0>>
    [] OTHER -> <<0, 0, 0, 0>>

RankParts ==
  /\ MaxLen \in Nat /\ i \in Nat
  /\ pc = "walk" => MaxLen - orig_len \in Nat /\ Len(snapshot) - next \in Nat

LEMMA RankPartsTyped == TypeInv => RankParts
  BY TreeAssumption, LenProperties DEF TypeInv, TypeOK, RankParts

LEMMA RankPartsNext == TypeInv' => RankParts'
  BY RankPartsTyped, PTL

LEMMA RankIsRank == TypeInv => Rank \in Ranks
<1> SUFFICES ASSUME TypeInv PROVE Rank \in Ranks
  OBVIOUS
<1>1. pc \in {"snapshot", "walk", "open", "ctrl", "exit", "terminate", "done"}
  BY DEF TypeInv, TypeOK
<1>2. QED
  BY <1>1, RankPartsTyped, RankTyped DEF Rank, RankParts

\* Each entry, and each pass that has made the list longer, brings the walk
\* nearer to its end, for the array is bounded.
LEMMA WalkGoesOn ==
  ASSUME TypeInv, TypeInv', pc = "walk", Advance, Len(pids') \in Len(pids) .. Len(pids) + 1
  PROVE  Below(Rank', Rank)
<1>1. /\ next \in 1 .. Len(snapshot) /\ Len(snapshot) \in Nat /\ MaxLen \in Nat
      /\ Len(pids) \in 1 .. MaxLen /\ orig_len \in 1 .. Len(pids) /\ Len(pids') \in Nat
  BY TreeAssumption, LenProperties DEF TypeInv, TypeOK
<1>2. Rank = <<2, MaxLen - orig_len, Len(snapshot) - next, 0>>
  BY DEF Rank
<1>3. MaxLen - orig_len \in Nat /\ Len(snapshot) - next \in Nat
  BY <1>1
<1>4. CASE NextEntry
  <2>1. Rank' = <<2, MaxLen - orig_len, Len(snapshot) - (next + 1), 0>>
    BY <1>4 DEF NextEntry, Rank
  <2>2. /\ Len(snapshot) - (next + 1) \in Nat
        /\ Len(snapshot) - (next + 1) < Len(snapshot) - next
    BY <1>1, <1>4 DEF NextEntry
  <2>3. QED
    BY <1>2, <1>3, <2>1, <2>2, RankFalls
<1>5. CASE NextPass
  <2>1. Rank' = <<2, MaxLen - Len(pids'), Len(snapshot) - 1, 0>>
    BY <1>5 DEF NextPass, Rank
  <2>2. /\ Len(snapshot) - 1 \in Nat /\ MaxLen - Len(pids') \in Nat
        /\ MaxLen - Len(pids') < MaxLen - orig_len
    BY <1>1, <1>5 DEF NextPass
  <2>3. QED
    BY <1>2, <1>3, <2>1, <2>2, RankFalls
<1>6. CASE LastEntry
  <2>1. Rank' = <<1, Len(pids'), 3, 0>>
    BY <1>6 DEF LastEntry, Rank
  <2>2. 1 \in Nat /\ 2 \in Nat /\ 0 \in Nat /\ 3 \in Nat /\ 1 < 2
    OBVIOUS
  <2>3. Below(<<1, Len(pids'), 3, 0>>, <<2, MaxLen - orig_len, Len(snapshot) - next, 0>>)
    BY <1>1, <1>3, <2>2, RankFalls, Zenon
  <2>4. QED
    BY <1>2, <2>1, <2>3
<1>7. QED
  BY <1>1, <1>4, <1>5, <1>6, AdvanceCases

LEMMA WalkFalls == TypeInv /\ TypeInv' /\ Walk => Below(Rank', Rank)
<1> SUFFICES ASSUME TypeInv, TypeInv', Walk PROVE Below(Rank', Rank)
  OBVIOUS
<1>1. CASE TakeSnapshot \/ SnapshotFails
  <2>1. Rank = <<3, 0, 0, 0>>
    BY <1>1 DEF TakeSnapshot, SnapshotFails, Rank
  <2>2. pc' = "walk" =>
          MaxLen - orig_len' \in Nat /\ Len(snapshot') - next' \in Nat
    BY RankPartsNext DEF RankParts
  <2>3. CASE pc' = "walk"
    <3>1. Rank' = <<2, MaxLen - orig_len', Len(snapshot') - next', 0>>
      BY <2>3 DEF Rank
    <3>2. QED
      BY <2>1, <2>2, <2>3, <3>1, RankFalls
  <2>4. CASE pc' = "open"
    <3>1. Rank' = <<1, i', 3, 0>> /\ i' \in Nat
      BY <2>4, LenProperties DEF Rank, TypeInv, TypeOK
    <3>2. QED
      BY <2>1, <3>1, RankFalls
  <2>5. QED
    BY <1>1, <2>3, <2>4 DEF TakeSnapshot, SnapshotFails
<1>2. CASE PassOver \/ SignalMsys
  BY <1>2, LenOfPids, WalkGoesOn DEF PassOver, SignalMsys
<1>3. CASE AddPid
  BY <1>3, LenOfPids, PidAdded, WalkGoesOn DEF AddPid
<1>4. QED
  BY <1>1, <1>2, <1>3 DEF Walk

LEMMA FinishFalls == TypeInv /\ Finish => Below(Rank', Rank)
<1> SUFFICES ASSUME TypeInv, Finish PROVE Below(Rank', Rank)
  OBVIOUS
<1>1. i \in Nat /\ (pc # "done" => i >= 1)
  BY LenProperties DEF TypeInv, TypeOK
<1>2. ASSUME Down, pc \in {"open", "ctrl", "exit", "terminate"} PROVE Below(Rank', Rank)
  <2>1. i - 1 \in Nat /\ i - 1 < i
    BY <1>1, <1>2
  <2>2. \E k \in 0 .. 3 : Rank = <<1, i, k, 0>>
    BY <1>2 DEF Rank
  <2>3. Rank' = <<1, i - 1, 3, 0>> \/ Rank' = <<0, 0, 0, 0>>
    BY <1>2 DEF Down, Rank
  <2>4. QED
    BY <1>1, <2>1, <2>2, <2>3, RankFalls
<1>3. ASSUME NEW p \in Processes, NEW may \in {"all", "inject", "terminate"}, Open(p, may)
      PROVE  Below(Rank', Rank)
  <2>1. Rank = <<1, i, 3, 0>>
    BY <1>3 DEF Open, Rank
  <2>2. \E k \in 0 .. 2 : Rank' = <<1, i, k, 0>>
    BY <1>3 DEF Open, First, Rank
  <2>3. QED
    BY <1>1, <2>1, <2>2, RankFalls
<1>4. CASE Pass \/ Terminate
  BY <1>2, <1>4 DEF Pass, Terminate, Close
<1>5. ASSUME NEW how \in {"ctrl", "exit"}, HelperDone(how) PROVE Below(Rank', Rank)
  BY <1>2, <1>5 DEF HelperDone, Close
<1>6. ASSUME NEW how \in {"ctrl", "exit"}, HelperFails(how) \/ HelperLate(how)
      PROVE  Below(Rank', Rank)
  <2>1. pc = how /\ i' = i /\ pc' = IF how = "ctrl" THEN "exit" ELSE "terminate"
    BY <1>6 DEF HelperFails, HelperLate, AfterHelper, endVars
  <2>2. \/ Rank = <<1, i, 2, 0>> /\ Rank' = <<1, i, 1, 0>>
        \/ Rank = <<1, i, 1, 0>> /\ Rank' = <<1, i, 0, 0>>
    BY <2>1 DEF Rank
  <2>3. QED
    BY <1>1, <2>2, RankFalls
<1>7. QED
  BY <1>3, <1>4, <1>5, <1>6 DEF Finish

LEMMA EnvironmentWaits == Environment => UNCHANGED Rank
  BY DEF Environment, Spawn, End, LateHelper, Rank, walkVars, endVars

\* The function lowers the rank, and nobody else touches it.
TreeNears ==
  [][/\ Walk \/ Finish => Below(Rank', Rank)
     /\ Environment => UNCHANGED Rank]_vars

\* Every step of exit_process_tree (patch 35, lines 411 to 499) brings it
\* nearer to its return, and what other processes do, however many they spawn
\* and end, does not put it back.
THEOREM TreeComesNearer == Spec => [](Rank \in Ranks) /\ TreeNears
<1>1. TypeInv /\ TypeInv' /\ [Next]_vars =>
        [/\ Walk \/ Finish => Below(Rank', Rank)
         /\ Environment => UNCHANGED Rank]_vars
  BY WalkFalls, FinishFalls, EnvironmentWaits
<1>2. QED
  BY <1>1, TypeInvariant, RankIsRank, PTL DEF Spec, TreeNears
=============================================================================
