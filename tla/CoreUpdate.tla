------------------------------ MODULE CoreUpdate ------------------------------
(***************************************************************************)
(* pacman -Su in MSYS2 (patches 11 and 33): packages of the core system    *)
(* are upgraded first and by themselves, and then pacman has all other     *)
(* MSYS2 processes ended, for they run on files of the version before.     *)
(* The rest is upgraded by the next call.  Processes start and end in the  *)
(* meantime, other pacmans among them.                                     *)
(*                                                                         *)
(* With --print, --downloadonly or another root nothing of this changes    *)
(* the installation; such calls are left out.                              *)
(***************************************************************************)
EXTENDS Integers, FiniteSets

CONSTANTS
  Pacmans, Others,  \* processes: pacmans, and all the rest
  None,             \* nobody
  Packages, Core,   \* packages installed; alpm_pkg_is_core_package
  Runtime,          \* the package with the runtime
  OtherEntries,     \* entries of /proc that are no processes
  MaxVersion        \* bound: versions of the runtime

ASSUME CoreAssumption ==
  /\ IsFiniteSet(Pacmans) /\ IsFiniteSet(Others) /\ Pacmans \cap Others = {}
  /\ None \notin Pacmans
  /\ Core \subseteq Packages /\ Runtime \in Core
  /\ OtherEntries \in Nat /\ MaxVersion \in Nat /\ MaxVersion >= 2

VARIABLES
  outdated,   \* packages of which the repositories have a newer version
  runtime,    \* the version of the runtime that is installed
  load,       \* the version a process has loaded; 0: it does not run
  lock,       \* whose is the lock of the database
  phase,      \* where a pacman is
  trans_add,  \* the packages of its transaction
  room,       \* how many arguments fit into args
  listed,     \* processes in args
  brought     \* history: the runtime after the transaction of a pacman

pacmanVars == <<lock, phase, trans_add, room, listed, brought>>
coreVars == <<outdated, runtime, load, pacmanVars>>

Processes == Pacmans \cup Others
Running == {p \in Processes : load[p] # 0}

InitCore ==
  /\ outdated \in SUBSET Packages /\ runtime = 1
  /\ load = [p \in Processes |-> 0] /\ lock = None
  /\ phase = [p \in Pacmans |-> "off"]
  /\ trans_add = [p \in Pacmans |-> {}] /\ listed = [p \in Pacmans |-> {}]
  /\ room = [p \in Pacmans |-> 0] /\ brought = [p \in Pacmans |-> 0]

-----------------------------------------------------------------------------
(* Processes come and go.  A process loads the runtime that is installed.  *)

Starts(p) == p \notin Running /\ load' = [load EXCEPT ![p] = runtime]

StartOther(p) ==
  /\ p \in Others /\ Starts(p) /\ UNCHANGED <<outdated, runtime, pacmanVars>>

\* What is left of S when it has ended; its process ids are free.
Gone(S) ==
  /\ load' = [p \in Processes |-> IF p \in S THEN 0 ELSE load[p]]
  /\ phase' = [p \in Pacmans |-> IF p \in S THEN "off" ELSE phase[p]]
  /\ listed' = [p \in Pacmans |-> IF p \in S THEN {} ELSE listed[p] \ S]
  /\ trans_add' = [p \in Pacmans |-> IF p \in S THEN {} ELSE trans_add[p]]
  /\ room' = [p \in Pacmans |-> IF p \in S THEN 0 ELSE room[p]]
  /\ brought' = [p \in Pacmans |-> IF p \in S THEN 0 ELSE brought[p]]

\* Whoever ends of its own accord or is ended leaves its lock behind.
End(p) ==
  /\ p \in Running /\ Gone({p})
  /\ UNCHANGED <<outdated, runtime, lock>>

\* db.lck is removed by hand.
RemoveLock ==
  /\ lock # None /\ lock \notin Running
  /\ lock' = None
  /\ UNCHANGED <<outdated, runtime, load, phase, trans_add, room, listed, brought>>

Release ==
  /\ lock = None
  /\ \E new \in SUBSET Packages :
       /\ Runtime \in new => runtime < MaxVersion
       /\ outdated' = outdated \cup new
  /\ UNCHANGED <<runtime, load, pacmanVars>>

-----------------------------------------------------------------------------
(* sync_trans.                                                             *)

At(p, where) == phase[p] = where
Go(p, where) == phase' = [phase EXCEPT ![p] = where]

\* alpm_sync_sysupgrade_core, alpm_sync_sysupgrade: packages of one kind only.
Sysupgrade(core) == IF core THEN outdated \cap Core ELSE outdated \ Core

\* pacman -Su with targets, once it has the lock, under which outdated stays as
\* it is.  If there are core packages they become all of the transaction.
StartPacman(p, targets) ==
  LET core == (targets \cup Sysupgrade(TRUE)) \cap Core IN
  /\ p \in Pacmans /\ Starts(p) /\ lock = None
  /\ lock' = p
  /\ IF core # {}
       THEN Go(p, "execute core") /\ trans_add' = [trans_add EXCEPT ![p] = core]
       ELSE Go(p, "execute") /\ trans_add' = [trans_add EXCEPT ![p] = targets \cup Sysupgrade(FALSE)]
  /\ UNCHANGED <<outdated, runtime, room, listed, brought>>

Executes(p) == p \in Pacmans /\ phase[p] \in {"execute core", "execute"}

\* sync_prepare_execute: what the packages need besides is added,
Depend(p, needed) ==
  /\ Executes(p) /\ needed # {} /\ needed \subseteq outdated \ (Core \cup trans_add[p])
  /\ trans_add' = [trans_add EXCEPT ![p] = @ \cup needed]
  /\ UNCHANGED <<outdated, runtime, load, lock, phase, room, listed, brought>>

\* one package after the other is replaced,
Install(p, k) ==
  /\ Executes(p) /\ k \in trans_add[p]
  /\ trans_add' = [trans_add EXCEPT ![p] = @ \ {k}]
  /\ outdated' = outdated \ {k}
  /\ runtime' = IF k = Runtime /\ k \in outdated THEN runtime + 1 ELSE runtime
  /\ UNCHANGED <<load, lock, phase, room, listed, brought>>

\* and the transaction is released, the lock with it.
Executed(p) ==
  /\ Executes(p) /\ trans_add[p] = {} /\ lock' = None
  /\ IF At(p, "execute core")
       THEN /\ Go(p, "count") /\ brought' = [brought EXCEPT ![p] = runtime]
            /\ UNCHANGED <<load, trans_add, room, listed>>
       ELSE Gone({p})
  /\ UNCHANGED <<outdated, runtime>>

\* Any step fails, or the answer is no.
TransactionFails(p) ==
  /\ Executes(p) /\ lock' = None /\ Gone({p})
  /\ UNCHANGED <<outdated, runtime>>

-----------------------------------------------------------------------------
(* kill_all_other_msys_processes, when the user has said yes.              *)

CountEntries(p) ==
  /\ p \in Pacmans /\ At(p, "count")
  /\ room' = [room EXCEPT ![p] = 2 + 2 * (OtherEntries + Cardinality(Running)) + 1]
  /\ Go(p, "list")
  /\ UNCHANGED <<outdated, runtime, load, lock, trans_add, listed, brought>>

\* Mistake: pacman does not know its own process id in the list.
ListSelf(p) ==
  /\ p \in Pacmans /\ At(p, "list") /\ Go(p, "taskkill")
  /\ listed' = [listed EXCEPT ![p] = Running]
  /\ UNCHANGED <<outdated, runtime, load, lock, trans_add, room, brought>>

\* Mistake: whoever does not fit is left out.
ListWhatFits(p) ==
  /\ p \in Pacmans /\ At(p, "list")
  /\ \/ Running = {p} /\ Gone({p})
     \/ \E others \in SUBSET (Running \ {p}) :
          /\ others # {} /\ 2 + 2 * Cardinality(others) + 1 <= room[p]
          /\ others = Running \ {p} \/ 2 + 2 * Cardinality(others) + 1 = room[p]
          /\ Go(p, "taskkill") /\ listed' = [listed EXCEPT ![p] = others]
          /\ UNCHANGED <<load, trans_add, room, brought>>
  /\ UNCHANGED <<outdated, runtime, lock>>

\* /proc is gone through again; without anybody else that is all.  Arguments
\* beyond what was made room for overwrite the stack: with luck it goes on.
ListProcesses(p) ==
  LET others == Running \ {p} IN
  /\ p \in Pacmans /\ At(p, "list")
  /\ \/ others = {} /\ Gone({p})
     \/ /\ others # {} /\ Go(p, "taskkill") /\ listed' = [listed EXCEPT ![p] = others]
        /\ UNCHANGED <<load, trans_add, room, brought>>
     \/ 2 + 2 * Cardinality(others) + 1 > room[p] /\ Gone({p})
  /\ UNCHANGED <<outdated, runtime, lock>>

\* taskkill is run in the place of pacman: those it may end it ends.
Taskkill(p, ended) ==
  /\ p \in Pacmans /\ At(p, "taskkill") /\ ended \subseteq listed[p]
  /\ Gone(ended \cup {p})
  /\ UNCHANGED <<outdated, runtime, lock>>

\* /proc or taskkill cannot be opened.
KillFails(p) ==
  /\ p \in Pacmans /\ phase[p] \in {"count", "taskkill"}
  /\ Gone({p})
  /\ UNCHANGED <<outdated, runtime, lock>>

-----------------------------------------------------------------------------
CoreTypeOK ==
  /\ outdated \subseteq Packages /\ runtime \in 1 .. MaxVersion
  /\ load \in [Processes -> 0 .. MaxVersion] /\ lock \in Pacmans \cup {None}
  /\ phase \in [Pacmans -> {"off", "execute core", "execute", "count", "list",
                            "taskkill"}]
  /\ trans_add \in [Pacmans -> SUBSET Packages] /\ listed \in [Pacmans -> SUBSET Processes]
  /\ room \in [Pacmans -> Nat] /\ brought \in [Pacmans -> 0 .. MaxVersion]
  /\ \A p \in Pacmans :
       /\ At(p, "off") <=> p \notin Running
       /\ listed[p] \subseteq Running \ {p}
       /\ Executes(p) => lock = p

\* A pacman that ends well after a core upgrade: there was nobody to end, or
\* all are ended that it had listed.
EndsWell(p) ==
  /\ phase[p] \in {"list", "taskkill"} /\ phase'[p] = "off"
  /\ IF At(p, "list") THEN Running = {p} ELSE \A q \in listed[p] : load'[q] = 0

\* Then nobody is left that has loaded an older runtime than the one brought by
\* the upgrade, whoever started or ended in the meantime, another pacman that
\* upgrades it once more included.
OldRuntimeGone ==
  [][\A p \in Pacmans : EndsWell(p) =>
       \A q \in Processes : load'[q] = 0 \/ load'[q] >= brought[p]]_coreVars
=============================================================================
