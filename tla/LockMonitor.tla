------------------------------ MODULE LockMonitor ------------------------------
(***************************************************************************)
(* What the list of msys2-unlocker promises, whatever way it is made:      *)
(* processes come, go and change while the program looks at them one by    *)
(* one, and after each look it may publish a list.  LockingProcesses, the  *)
(* loop of main.c as it is written, implements this specification.         *)
(***************************************************************************)
CONSTANTS
  Pids,          \* process ids
  Absent,        \* "no process has this id"
  Kinds,         \* the processes there may be; each has a path
  LockingKinds,  \* those that hold a watched file
  EasyKinds,     \* those of them that a look is sure to notice
  EmptyPath      \* stands for the path of a process that is gone

VARIABLES
  table,         \* the processes
  looking,       \* a look at them is under way
  held,          \* who has held a watched file since it began, by what path
  sure,          \* whom it must find
  garbled,       \* an id has been taken down wrong since it began
  fresh,         \* the list is what the last look came to
  list           \* the list: pairs of an id and a path

monitorVars == <<table, looking, held, sure, garbled, fresh, list>>

Holders(K) == {<<p, table[p].path>> : p \in {q \in Pids : table[q] \in K}}

Init ==
  /\ table \in [Pids -> Kinds \cup {Absent}]
  /\ looking = FALSE /\ fresh = FALSE /\ garbled = FALSE
  /\ held = {} /\ sure = {} /\ list = {}

\* A process starts, exits or changes what it has loaded.  It need no longer
\* be found, and may be reported for what it held before.
TableChanges ==
  \E p \in Pids, k \in Kinds \cup {Absent} :
    /\ table' = [table EXCEPT ![p] = k]
    /\ held' = held \cup Holders(LockingKinds)'
    /\ sure' = {s \in sure : s[1] # p}
    /\ UNCHANGED <<looking, garbled, fresh, list>>

Look ==
  /\ ~looking /\ looking' = TRUE /\ fresh' = FALSE /\ garbled' = FALSE
  /\ held' = Holders(LockingKinds) /\ sure' = Holders(EasyKinds)
  /\ UNCHANGED <<table, list>>

\* The program notes an id that is not that of the process it looks at.
Garble ==
  /\ looking /\ garbled' = TRUE
  /\ UNCHANGED <<table, looking, held, sure, fresh, list>>

\* e is of a process that has held a file, by its path or by none.
Founded(e) == \E h \in held : /\ e[2] \in {h[2], EmptyPath}
                              /\ e[1] = h[1] \/ garbled

\* The new list names everyone who must be found, and nobody who has not
\* held a file since the look began or been listed before.
Report ==
  /\ looking /\ looking' = FALSE /\ fresh' = TRUE
  /\ sure \subseteq list'
  /\ \A e \in list' \ list : Founded(e)
  /\ UNCHANGED <<table, held, sure, garbled>>

\* The look ends without a result; the list stands.
GiveUp ==
  /\ looking /\ looking' = FALSE
  /\ UNCHANGED <<table, held, sure, garbled, fresh, list>>

\* There is no room for a list.
Lose ==
  /\ looking /\ looking' = FALSE
  /\ list' = {}
  /\ UNCHANGED <<table, held, sure, garbled, fresh>>

Next == TableChanges \/ Look \/ Garble \/ Report \/ GiveUp \/ Lose

Spec == Init /\ [][Next]_monitorVars
===============================================================================
