--------------------------- MODULE ExitProcessTree ---------------------------
(***************************************************************************)
(* msys2-runtime, exit_process.h (patch 35): exit_process_tree ends a      *)
(* Windows process and what it has spawned, for Ctrl+C in the runtime and  *)
(* for kill.exe (patch 36).  It reads one snapshot of the process table    *)
(* over and over until its list of process ids has stopped growing, then   *)
(* goes through the list from its end.  All the while processes end, spawn *)
(* others, and take over the ids of those that have ended.                 *)
(*                                                                         *)
(* Processes are the processes themselves; an id may be used by several of *)
(* them, one after the other.                                              *)
(***************************************************************************)
EXTENDS Integers, Sequences, FiniteSets

CONSTANTS
  Processes,   \* all that ever run
  Main,        \* main_process, whose handle the caller holds
  Tables,      \* the ids of those that may be there before, of their parents
  NoProcess,   \* the parent of a process whose parent is not of these
  Pids, NoPid, \* process ids; the id of no process
  Kinds,       \* what the processes may be: "win32", "leader" or "member"
  Signals,     \* what exit_code may ask for
  MaxLen,      \* the room in pids: 16384
  MaxLate      \* bound: helpers that are late at one time

ASSUME TreeAssumption ==
  /\ Main \in Processes /\ NoProcess \notin Processes /\ NoPid \notin Pids
  /\ Tables \subseteq [pid : [Processes -> Pids \cup {NoPid}],
                      ppid : [Processes -> Pids \cup {NoPid}]]
  /\ \A t \in Tables :
       /\ t.pid[Main] # NoPid
       /\ \A p, q \in Processes : t.pid[p] = t.pid[q] /\ t.pid[p] # NoPid => p = q
       /\ \A p \in Processes : t.pid[p] = NoPid \/ t.ppid[p] = t.pid[p] => t.ppid[p] = NoPid
  /\ IsFiniteSet(Processes)
  /\ Kinds \subseteq [Processes -> {"win32", "leader", "member"}]
  /\ \A k \in Kinds : k[Main] = "win32"
  /\ Signals \subseteq {"SIGINT", "SIGQUIT", "SIGTERM", "SIGKILL"}
  /\ MaxLen \in Nat /\ MaxLen >= 2 /\ MaxLate \in Nat

VARIABLES
  kind,       \* no MSYS process, the leader of its group, or another MSYS process
  state,      \* "unborn", "running" or "ended"
  pid, ppid,  \* the id and the recorded id of the parent
  parent,     \* the parent itself
  late,       \* ids given to helpers that are not waited for any longer
  pc, signo,
  snapshot,   \* what CreateToolhelp32Snapshot has recorded, in its order
  next,       \* the entry that is looked at
  pids, orig_len, i, ret,
  handle,     \* the process opened and what its handle allows
  seen,       \* history: processes of the snapshot
  cut,        \* history: ids found to be those of MSYS processes
  tried,      \* history: processes exit_process was called for
  denied,     \* history: processes that could not be opened
  told        \* history: by whom which process has been reached

tableVars == <<state, pid, ppid, parent, late>>
walkVars == <<snapshot, next, pids, orig_len, seen, cut>>
endVars == <<i, ret, handle, tried, denied>>
vars == <<kind, tableVars, pc, signo, walkVars, endVars, told>>

Born(p) == state[p] # "unborn"
Running(p) == state[p] = "running"
NoHandle == [of |-> NoProcess, may |-> "nothing"]

\* An id is free when no process runs under it and no handle keeps it.
Free(w) == \A p \in Processes :
  pid[p] = w => state[p] = "ended" /\ p # Main /\ p # handle.of

\* The parents of the processes that are there have ended, and their ids may
\* have been used again.
Init ==
  /\ kind \in Kinds
  /\ \E t \in Tables : pid = t.pid /\ ppid = t.ppid
  /\ state = [p \in Processes |-> IF pid[p] = NoPid THEN "unborn" ELSE "running"]
  /\ parent = [p \in Processes |-> NoProcess] /\ late = {}
  /\ pc = "snapshot" /\ signo \in Signals
  /\ snapshot = <<>> /\ next = 1 /\ pids = <<pid[Main]>> /\ orig_len = 1
  /\ i = 1 /\ ret = 0 /\ handle = NoHandle
  /\ seen = {} /\ cut = {} /\ tried = {} /\ denied = {} /\ told = {}

-----------------------------------------------------------------------------
(* The other processes, as long as anybody looks.                          *)

Spawn(p, q, w) ==
  /\ pc # "done" /\ Running(p) /\ ~Born(q) /\ Free(w)
  /\ state' = [state EXCEPT ![q] = "running"]
  /\ pid' = [pid EXCEPT ![q] = w]
  /\ ppid' = [ppid EXCEPT ![q] = pid[p]]
  /\ parent' = [parent EXCEPT ![q] = p]
  /\ UNCHANGED <<kind, late, pc, signo, walkVars, endVars, told>>

\* Of its own accord, or for what it was told.
End(p) ==
  /\ pc # "done" /\ Running(p)
  /\ state' = [state EXCEPT ![p] = "ended"]
  /\ UNCHANGED <<kind, pid, ppid, parent, late, pc, signo, walkVars, endVars, told>>

\* A helper is done at last: it was given the id of the process only.
LateHelper(w) ==
  /\ w \in late /\ late' = late \ {w}
  /\ told' = told \cup {[of |-> p, by |-> "helper"] :
                         p \in {p \in Processes : Running(p) /\ pid[p] = w}}
  /\ UNCHANGED <<kind, state, pid, ppid, parent, pc, signo, walkVars, endVars>>

-----------------------------------------------------------------------------
(* The walk.                                                               *)

RunningNow == {p \in Processes : Running(p)}
Listings(S) == {s \in [1 .. Cardinality(S) -> S] : \A p \in S : \E k \in DOMAIN s : s[k] = p}
Entry(p) == [pid |-> pid[p], ppid |-> ppid[p]]

TakeSnapshot ==
  /\ pc = "snapshot" /\ pc' = IF RunningNow = {} THEN "open" ELSE "walk"
  /\ \E order \in Listings(RunningNow) :
       snapshot' = [k \in DOMAIN order |-> Entry(order[k])]
  /\ seen' = RunningNow
  /\ UNCHANGED <<kind, tableVars, signo, next, pids, orig_len, cut, endVars, told>>

\* Without a snapshot there is no first entry either.
SnapshotFails ==
  /\ pc = "snapshot" /\ pc' = "open"
  /\ UNCHANGED <<kind, tableVars, signo, walkVars, endVars, told>>

entry == snapshot[next]

Listed == {pids[k] : k \in 1 .. Len(pids)}

\* Mistake: whoever is not in the list is taken for a child.
ListedNot == entry.pid \notin Listed

\* The list is searched from its end, and the id of the parent is met before
\* that of the process itself.
ChildOfListed ==
  \E k \in 1 .. Len(pids) :
    /\ pids[k] = entry.ppid
    /\ \A l \in k .. Len(pids) : pids[l] # entry.pid

\* cygwin_winpid_to_pid: whoever has the id now.
Msys(w) == {p \in Processes : Running(p) /\ pid[p] = w /\ kind[p] # "win32"}

\* Mistake: there is no look at how full the list is.
AdvanceUnchecked ==
  LET len == Len(pids') IN
  IF next < Len(snapshot)
    THEN next' = next + 1 /\ UNCHANGED <<pc, orig_len, i, snapshot>>
  ELSE IF len = orig_len \/ len >= MaxLen
    THEN pc' = "open" /\ i' = len /\ snapshot' = <<>> /\ next' = 1 /\ UNCHANGED orig_len
  ELSE next' = 1 /\ orig_len' = len /\ UNCHANGED <<pc, i, snapshot>>

\* Mistake: one pass is taken to be enough.
AdvanceOnce ==
  LET len == Len(pids') IN
  IF len < MaxLen /\ next < Len(snapshot)
    THEN next' = next + 1 /\ UNCHANGED <<pc, orig_len, i, snapshot>>
    ELSE pc' = "open" /\ i' = len /\ snapshot' = <<>> /\ next' = 1 /\ UNCHANGED orig_len

\* Mistake: another pass is made whether or not the list has grown.
AdvanceAgain ==
  LET len == Len(pids') IN
  IF len < MaxLen /\ next < Len(snapshot)
    THEN next' = next + 1 /\ UNCHANGED <<pc, orig_len, i, snapshot>>
  ELSE IF len >= MaxLen
    THEN pc' = "open" /\ i' = len /\ snapshot' = <<>> /\ next' = 1 /\ UNCHANGED orig_len
  ELSE next' = 1 /\ orig_len' = len /\ UNCHANGED <<pc, i, snapshot>>

\* On to the next entry, or to the next pass if the list has grown; or the
\* snapshot is closed.
Advance ==
  LET len == Len(pids') IN
  IF len < MaxLen /\ next < Len(snapshot)
    THEN next' = next + 1 /\ UNCHANGED <<pc, orig_len, i, snapshot>>
  ELSE IF len = orig_len \/ len >= MaxLen
    THEN pc' = "open" /\ i' = len /\ snapshot' = <<>> /\ next' = 1 /\ UNCHANGED orig_len
  ELSE next' = 1 /\ orig_len' = len /\ UNCHANGED <<pc, i, snapshot>>

PassOver ==
  /\ pc = "walk" /\ ~ChildOfListed
  /\ UNCHANGED pids /\ Advance
  /\ UNCHANGED <<kind, tableVars, signo, seen, cut, ret, handle, tried, denied, told>>

\* Mistake: the process is sent the signal if it does not lead its group.
SignalMember ==
  /\ pc = "walk" /\ ChildOfListed /\ Msys(entry.pid) # {}
  /\ told' = told \cup {[of |-> p, by |-> "signal"] :
                         p \in {p \in Msys(entry.pid) : kind[p] = "member"}}
  /\ cut' = cut \cup {entry.pid}
  /\ UNCHANGED pids /\ Advance
  /\ UNCHANGED <<kind, tableVars, signo, seen, ret, handle, tried, denied>>

\* An MSYS process is sent the signal if it leads its group, in every pass.
SignalMsys ==
  /\ pc = "walk" /\ ChildOfListed /\ Msys(entry.pid) # {}
  /\ told' = told \cup {[of |-> p, by |-> "signal"] :
                         p \in {p \in Msys(entry.pid) : kind[p] = "leader"}}
  /\ cut' = cut \cup {entry.pid}
  /\ UNCHANGED pids /\ Advance
  /\ UNCHANGED <<kind, tableVars, signo, seen, ret, handle, tried, denied>>

AddPid ==
  /\ pc = "walk" /\ ChildOfListed /\ Msys(entry.pid) = {}
  /\ pids' = Append(pids, entry.pid)
  /\ Advance
  /\ UNCHANGED <<kind, tableVars, signo, seen, cut, ret, handle, tried, denied, told>>

-----------------------------------------------------------------------------
(* From the end of the list to its beginning: exit_process.                *)

Down == i' = i - 1 /\ pc' = IF i = 1 THEN "done" ELSE "open"
Close == handle' = NoHandle /\ Down

\* What is tried first for the signal.
First == CASE signo \in {"SIGINT", "SIGQUIT"} -> "ctrl"
           [] signo = "SIGTERM" -> "exit"
           [] OTHER -> "terminate"

\* main_process, or whoever has the id now.  The first OpenProcess asks for
\* what the helpers need, the second for the right to terminate.  An exit
\* code of 259 looks like a process that still runs.
Open(p, may) ==
  /\ pc = "open"
  /\ IF i = 1 THEN p = Main /\ may = "all"
     ELSE Running(p) /\ pid[p] = pids[i] /\ may \in {"inject", "terminate"}
  /\ handle' = [of |-> p, may |-> may] /\ pc' = First
  /\ tried' = tried \cup {p}
  /\ UNCHANGED <<kind, tableVars, signo, walkVars, i, ret, denied, told>>

\* The process has ended, or neither OpenProcess is granted.
Pass ==
  /\ pc = "open"
  /\ i = 1 => ~Running(Main)
  /\ denied' = denied \cup
       {p \in Processes : i > 1 /\ Running(p) /\ pid[p] = pids[i]}
  /\ Down
  /\ UNCHANGED <<kind, tableVars, signo, walkVars, ret, handle, tried, told>>

\* kill_via_console_helper has the helper call a function in the process: it
\* is done within ten seconds, and FALSE is what the caller makes of the 0.
HelperDone(how) ==
  /\ pc = how /\ how \in {"ctrl", "exit"} /\ Running(handle.of)
  /\ told' = told \cup {[of |-> handle.of, by |-> "helper"]}
  /\ ret' = -1 /\ Close
  /\ UNCHANGED <<kind, tableVars, signo, walkVars, tried, denied>>

AfterHelper(how) == pc' = IF how = "ctrl" THEN "exit" ELSE "terminate"

\* There is none for this kind of machine, or it cannot do its work.
HelperFails(how) ==
  /\ pc = how /\ how \in {"ctrl", "exit"}
  /\ AfterHelper(how)
  /\ UNCHANGED <<kind, tableVars, signo, walkVars, endVars, told>>

\* Its exit code is not there yet after ten seconds.
HelperLate(how) ==
  /\ pc = how /\ how \in {"ctrl", "exit"} /\ Running(handle.of)
  /\ Cardinality(late) < MaxLate
  /\ late' = late \cup {pid[handle.of]}
  /\ AfterHelper(how)
  /\ UNCHANGED <<kind, state, pid, ppid, parent, signo, walkVars, endVars, told>>

\* Mistake: that it has failed is not noted.
TerminateSilent ==
  /\ pc = "terminate"
  /\ IF Running(handle.of) /\ handle.may # "inject"
       THEN /\ state' = [state EXCEPT ![handle.of] = "ended"]
            /\ told' = told \cup {[of |-> handle.of, by |-> "terminate"]}
       ELSE UNCHANGED <<state, told>>
  /\ UNCHANGED ret /\ Close
  /\ UNCHANGED <<kind, pid, ppid, parent, late, signo, walkVars, tried, denied>>

\* TerminateProcess: not 0 is success, but needs a handle that allows it.
Terminate ==
  /\ pc = "terminate"
  /\ IF Running(handle.of) /\ handle.may # "inject"
       THEN /\ state' = [state EXCEPT ![handle.of] = "ended"]
            /\ told' = told \cup {[of |-> handle.of, by |-> "terminate"]}
            /\ UNCHANGED ret
       ELSE ret' = -1 /\ UNCHANGED <<state, told>>
  /\ Close
  /\ UNCHANGED <<kind, pid, ppid, parent, late, signo, walkVars, tried, denied>>

Environment ==
  \/ \E p, q \in Processes, w \in Pids : Spawn(p, q, w)
  \/ \E p \in Processes : End(p)
  \/ \E w \in Pids : LateHelper(w)
Walk == TakeSnapshot \/ SnapshotFails \/ PassOver \/ SignalMsys \/ AddPid
Finish ==
  \/ \E p \in Processes, may \in {"all", "inject", "terminate"} : Open(p, may)
  \/ Pass \/ Terminate
  \/ \E how \in {"ctrl", "exit"} : HelperDone(how) \/ HelperFails(how) \/ HelperLate(how)
Returned == pc = "done" /\ UNCHANGED vars

Next == Environment \/ Walk \/ Finish \/ Returned
Spec == Init /\ [][Next]_vars

\* The calls return; a helper is waited for ten seconds at most.
FairSpec == Spec /\ WF_vars(Walk) /\ WF_vars(Finish)

-----------------------------------------------------------------------------
\* What the snapshot held.
Entries == {Entry(p) : p \in seen}

\* Every variable holds a value of its type, in pids there is always room for
\* the next id, and i is an index of it.
TypeOK ==
  /\ kind \in Kinds /\ state \in [Processes -> {"unborn", "running", "ended"}]
  /\ pid \in [Processes -> Pids \cup {NoPid}] /\ ppid \in [Processes -> Pids \cup {NoPid}]
  /\ parent \in [Processes -> Processes \cup {NoProcess}]
  /\ late \subseteq Pids
  /\ pc \in {"snapshot", "walk", "open", "ctrl", "exit", "terminate", "done"}
  /\ signo \in Signals
  /\ snapshot \in Seq([pid : Pids, ppid : Pids \cup {NoPid}])
  /\ pc = "walk" => next \in 1 .. Len(snapshot)
  /\ pids \in Seq(Pids) /\ Len(pids) \in 1 .. MaxLen /\ orig_len \in 1 .. Len(pids)
  /\ pc = "walk" => Len(pids) < MaxLen
  /\ i \in 0 .. Len(pids) /\ (pc # "done" => i >= 1) /\ ret \in {0, -1}
  /\ handle \in {NoHandle} \cup [of : Processes, may : {"all", "inject", "terminate"}]
  /\ pc \in {"ctrl", "exit", "terminate"} <=> handle # NoHandle
  /\ seen \subseteq Processes /\ cut \subseteq Pids
  /\ tried \subseteq Processes /\ denied \subseteq Processes
  /\ told \subseteq [of : Processes, by : {"signal", "helper", "terminate"}]

\* main_process was spawned by one that has ended and whose id a process of
\* the tree has now.
Cyclic == ppid[Main] \in Listed

\* The list is a tree that begins with main_process, each id once and after
\* the id of its parent, so that what was spawned is ended first; and whatever
\* the snapshot says was spawned by one of the list is in it, unless that was
\* an MSYS process or there was no room.
ListIsTree ==
  /\ pids[1] = pid[Main]
  /\ ~Cyclic =>
       \A k \in 2 .. Len(pids) :
         /\ \A j \in 1 .. k - 1 : pids[j] # pids[k]
         /\ \E e \in Entries :
              e.pid = pids[k] /\ \E j \in 1 .. k - 1 : pids[j] = e.ppid
  /\ pc \notin {"snapshot", "walk"} /\ Len(pids) < MaxLen =>
       \A e \in Entries :
         e.ppid \in Listed => e.pid \in Listed \cup cut

\* No id has been used twice, not even before.
NoReuse ==
  \A p, q \in Processes : Born(p) /\ Born(q) =>
    /\ pid[p] = pid[q] => p = q
    /\ ppid[p] = pid[q] => parent[p] = q

\* p was spawned by main_process, or by one that was.
Descends(p) ==
  \A S \in SUBSET Processes :
    Main \in S /\ (\A q \in Processes : parent[q] \in S => q \in S) => p \in S

\* Nobody else is opened, terminated or signalled, unless ids were used again.
OnlyDescendants ==
  NoReuse => \A p \in tried \cup denied \cup {t.of : t \in told} : Descends(p)

\* p has been running since the snapshot, and so have those between
\* main_process and p, all of them Windows processes.
Steady(p) ==
  \A S \in SUBSET Processes :
    /\ Main \in S
    /\ \A q \in seen : parent[q] \in S /\ Running(q) /\ kind[q] = "win32" => q \in S
    => p \in S

\* Whoever stays is met: of what a steady process has spawned, Windows
\* processes are opened at least, and leaders of a group get the signal.
SteadyHandled ==
  pc = "done" /\ Len(pids) < MaxLen =>
    \A p \in seen :
      Running(p) /\ parent[p] \in Processes /\ Steady(parent[p]) =>
        CASE kind[p] = "win32" -> p \in tried \cup denied
          [] kind[p] = "leader" -> [of |-> p, by |-> "signal"] \in told
          [] kind[p] = "member" -> TRUE

\* 0 is returned only when all that were opened had to be terminated.
ZeroMeansTerminated ==
  pc = "done" /\ ret = 0 =>
    \A p \in tried : [of |-> p, by |-> "terminate"] \in told

\* The function returns, however much its list grows.
TreeEnds == <>(pc = "done")

\* "For SIGKILL, we run TerminateProcess()": once it has been called for
\* main_process, what that had spawned, directly or not, and could be opened has
\* ended as well.
KillEndsAll ==
  pc = "done" /\ signo = "SIGKILL" /\ [of |-> Main, by |-> "terminate"] \in told =>
    \A p \in tried : Descends(p) => ~Running(p)
=============================================================================
