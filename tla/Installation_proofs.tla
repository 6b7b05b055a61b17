------------------------- MODULE Installation_proofs -------------------------
(***************************************************************************)
(* Proofs about Installation, for any number of shells and pacmans, any    *)
(* packages and any number of versions.                                    *)
(***************************************************************************)
EXTENDS Installation, FiniteSetTheorems, TLAPS

(* What is meant by the bound: a version to come is counted in it.          *)
Bounded == Runtime \in outdated => runtime < MaxVersion

\* Whoever goes on has a home.
HomesMade == \A s \in Others :
  at[s] \in {"skeleton", "keyring", "init", "generate", "populate", "ready"} => home[s] \in dirs

TypeInv == InstallationTypeOK /\ Bounded /\ HomesMade

LEMMA ProcessesFinite == IsFiniteSet(Processes)
  BY CoreAssumption, FS_Union DEF Processes

LEMMA RunningFinite == Cardinality(Running) \in Nat
<1>1. Running \subseteq Processes
  BY DEF Running
<1>2. QED
  BY <1>1, ProcessesFinite, FS_Subset, FS_CardinalityType

LEMMA Apart == /\ Pacmans \subseteq Processes /\ Others \subseteq Processes
               /\ \A p \in Pacmans : p \notin Others
               /\ MaxVersion \in Nat /\ MaxVersion >= 2 /\ Runtime \in Packages
  BY CoreAssumption DEF Processes

LEMMA ZeroIsVersion == 0 \in 0 .. MaxVersion /\ 1 .. MaxVersion \subseteq 0 .. MaxVersion
  BY Apart

-----------------------------------------------------------------------------
(* Types.                                                                  *)

LEMMA InitTyped == InitInstallation => TypeInv
<1> SUFFICES ASSUME InitInstallation PROVE TypeInv
  OBVIOUS
<1>1. CoreTypeOK /\ Bounded
  BY Apart DEF InitInstallation, InitCore, CoreTypeOK, Bounded, At, Running, Executes
<1>2. Start!StartTypeOK /\ HomesMade /\ \A s \in Others : at[s] = "off" /\ s \notin Running
  BY HomeAssumption, Apart
  DEF InitInstallation, InitCore, Start!InitStart, Start!StartTypeOK, Running, HomesMade
<1>3. QED
  BY <1>1, <1>2 DEF TypeInv, InstallationTypeOK

\* Whoever ends leaves the rest as it was.
LEMMA GoneTyped ==
  ASSUME TypeInv, NEW S \in SUBSET Processes, Gone(S), UNCHANGED <<outdated, runtime>>,
         lock' = lock \/ (lock' = None /\ \A p \in Pacmans : Executes(p) => p \in S)
  PROVE  /\ CoreTypeOK' /\ Bounded'
         /\ Running' = Running \ S
<1> USE DEF TypeInv, InstallationTypeOK, CoreTypeOK
<1>1. Running' = Running \ S
  BY DEF Gone, Running
<1>2. /\ load' \in [Processes -> 0 .. MaxVersion] /\ trans_add' \in [Pacmans -> SUBSET Packages]
      /\ room' \in [Pacmans -> Nat] /\ brought' \in [Pacmans -> 0 .. MaxVersion]
      /\ phase' \in [Pacmans -> {"off", "execute core", "execute", "count", "list", "taskkill"}]
  <2>1. /\ load \in [Processes -> 0 .. MaxVersion] /\ trans_add \in [Pacmans -> SUBSET Packages]
        /\ room \in [Pacmans -> Nat] /\ brought \in [Pacmans -> 0 .. MaxVersion]
        /\ phase \in [Pacmans -> {"off", "execute core", "execute", "count", "list", "taskkill"}]
    OBVIOUS
  <2>0. 0 \in 0 .. MaxVersion
    BY ZeroIsVersion
  <2> HIDE DEF TypeInv, InstallationTypeOK, CoreTypeOK
  <2>2. load' \in [Processes -> 0 .. MaxVersion]
    BY <2>0, <2>1 DEF Gone
  <2>3. trans_add' \in [Pacmans -> SUBSET Packages] /\ room' \in [Pacmans -> Nat]
    BY <2>0, <2>1 DEF Gone
  <2>4. brought' \in [Pacmans -> 0 .. MaxVersion]
    BY <2>0, <2>1 DEF Gone
  <2>5. phase' \in [Pacmans -> {"off", "execute core", "execute", "count", "list", "taskkill"}]
    BY <2>0, <2>1 DEF Gone
  <2>6. QED
    BY <2>2, <2>3, <2>4, <2>5
<1>2a. listed' \in [Pacmans -> SUBSET Processes]
  BY DEF Gone
<1>3. lock' \in Pacmans \cup {None}
  OBVIOUS
<1>4. ASSUME NEW p \in Pacmans
      PROVE  /\ At(p, "off")' <=> p \notin Running'
             /\ listed'[p] \subseteq Running' \ {p}
             /\ Executes(p)' => lock' = p
  <2>1. phase'[p] = IF p \in S THEN "off" ELSE phase[p]
    BY DEF Gone
  <2>2. listed'[p] = IF p \in S THEN {} ELSE listed[p] \ S
    BY DEF Gone
  <2>3. At(p, "off") <=> p \notin Running
    OBVIOUS
  <2>4. listed[p] \subseteq Running \ {p} /\ (Executes(p) => lock = p)
    OBVIOUS
  <2>5. At(p, "off")' <=> p \notin Running'
    BY <1>1, <2>1, <2>3 DEF At
  <2>6. listed'[p] \subseteq Running' \ {p}
    <3>1. CASE p \in S
      BY <2>2, <3>1
    <3>2. CASE p \notin S
      <4>1. listed'[p] = listed[p] \ S
        BY <2>2, <3>2
      <4> HIDE DEF TypeInv, InstallationTypeOK, CoreTypeOK
      <4>2. QED
        BY <1>1, <2>4, <4>1
    <3>3. QED
      BY <3>1, <3>2
  <2>7. Executes(p)' => lock' = p
    BY <2>1, <2>4 DEF Executes
  <2>8. QED
    BY <2>5, <2>6, <2>7
<1>5. CoreTypeOK'
  BY <1>2, <1>2a, <1>3, <1>4
<1>6. Bounded'
  BY DEF Bounded
<1>7. QED
  BY <1>1, <1>5, <1>6

\* The part of pacman, by itself.
LEMMA PacmanTyped ==
  ASSUME TypeInv, NEW p \in Pacmans, PacmanStep(p)
  PROVE  CoreTypeOK' /\ Bounded' /\ \A s \in Others : s \in Running' <=> s \in Running
<1> USE DEF TypeInv, InstallationTypeOK
<1>0. p \in Processes /\ p \notin Others
  BY Apart
<1>1. ASSUME NEW targets \in SUBSET Packages, StartPacman(p, targets)
      PROVE  CoreTypeOK' /\ Bounded' /\ \A s \in Others : s \in Running' <=> s \in Running
  <2>1. /\ p \notin Running /\ load' = [load EXCEPT ![p] = runtime] /\ lock = None /\ lock' = p
        /\ \E where \in {"execute core", "execute"} : phase' = [phase EXCEPT ![p] = where]
        /\ \E add \in SUBSET Packages : trans_add' = [trans_add EXCEPT ![p] = add]
        /\ UNCHANGED <<outdated, runtime, room, listed, brought>>
    BY <1>1 DEF StartPacman, Starts, Go, Sysupgrade, CoreTypeOK
  <2>2. Running' = Running \cup {p}
    <3>1. load \in [Processes -> 0 .. MaxVersion] /\ runtime \in 1 .. MaxVersion
      BY DEF CoreTypeOK
    <3>2. \A q \in Processes : load'[q] = IF q = p THEN runtime ELSE load[q]
      BY <1>0, <2>1, <3>1
    <3>3. QED
      BY <1>0, <3>1, <3>2 DEF Running
  <2>3. \A q \in Pacmans : ~Executes(q)
    BY <2>1, CoreAssumption DEF CoreTypeOK
  <2>4. CoreTypeOK'
    <3>1. /\ load' \in [Processes -> 0 .. MaxVersion] /\ trans_add' \in [Pacmans -> SUBSET Packages]
          /\ phase' \in [Pacmans -> {"off", "execute core", "execute", "count", "list", "taskkill"}]
      <4>1. /\ load \in [Processes -> 0 .. MaxVersion] /\ trans_add \in [Pacmans -> SUBSET Packages]
            /\ phase \in [Pacmans -> {"off", "execute core", "execute", "count", "list", "taskkill"}]
            /\ runtime \in 0 .. MaxVersion
        BY ZeroIsVersion DEF CoreTypeOK
      <4>2. load' \in [Processes -> 0 .. MaxVersion]
        BY <2>1, <4>1
      <4>3. trans_add' \in [Pacmans -> SUBSET Packages]
        BY <2>1, <4>1
      <4>4. phase' \in [Pacmans -> {"off", "execute core", "execute", "count", "list", "taskkill"}]
        BY <2>1, <4>1
      <4>5. QED
        BY <4>2, <4>3, <4>4
    <3>2. ASSUME NEW q \in Pacmans
          PROVE  /\ At(q, "off")' <=> q \notin Running'
                 /\ listed'[q] \subseteq Running' \ {q}
                 /\ Executes(q)' => lock' = q
      <4>1. phase'[q] = "off" <=> q # p /\ phase[q] = "off"
        BY <2>1 DEF CoreTypeOK
      <4>2. At(q, "off") <=> q \notin Running
        BY DEF CoreTypeOK
      <4>3. listed[q] \subseteq Running \ {q}
        BY DEF CoreTypeOK
      <4>4. Executes(q)' => q = p
        BY <2>1, <2>3 DEF Executes, CoreTypeOK
      <4>5. QED
        BY <2>1, <2>2, <4>1, <4>2, <4>3, <4>4 DEF At
    <3>3. QED
      BY <2>1, <3>1, <3>2 DEF CoreTypeOK
  <2>5. QED
    BY <1>0, <2>1, <2>2, <2>4 DEF Bounded
<1>2. ASSUME UNCHANGED <<load, listed, brought>>, lock' = lock,
             room' \in [Pacmans -> Nat], trans_add' \in [Pacmans -> SUBSET Packages],
             outdated' \subseteq Packages, runtime' \in 1 .. MaxVersion,
             UNCHANGED phase \/ (phase[p] = "count" /\ Go(p, "list")), Bounded'
      PROVE  CoreTypeOK' /\ Bounded' /\ \A s \in Others : s \in Running' <=> s \in Running
  <2>1. Running' = Running
    BY <1>2 DEF Running
  <2>2. QED
    BY <1>2, <2>1 DEF CoreTypeOK, At, Go, Executes
<1>3. ASSUME NEW needed \in SUBSET Packages, Depend(p, needed)
      PROVE  CoreTypeOK' /\ Bounded' /\ \A s \in Others : s \in Running' <=> s \in Running
  BY <1>2, <1>3 DEF Depend, CoreTypeOK, Bounded
<1>4. ASSUME NEW k \in Packages, InstallsTrusted(p, k)
      PROVE  CoreTypeOK' /\ Bounded' /\ \A s \in Others : s \in Running' <=> s \in Running
  <2>1. runtime' \in 1 .. MaxVersion /\ Bounded'
    <3>1. /\ outdated' = outdated \ {k}
          /\ runtime' = IF k = Runtime /\ k \in outdated THEN runtime + 1 ELSE runtime
          /\ runtime \in 1 .. MaxVersion /\ MaxVersion \in Nat
      BY <1>4, Apart DEF InstallsTrusted, Install, CoreTypeOK
    <3>2. CASE k = Runtime /\ k \in outdated
      BY <3>1, <3>2 DEF Bounded
    <3>3. CASE ~(k = Runtime /\ k \in outdated)
      BY <3>1, <3>3 DEF Bounded
    <3>4. QED
      BY <3>2, <3>3
  <2>2. QED
    BY <1>2, <1>4, <2>1 DEF InstallsTrusted, Install, CoreTypeOK
<1>5. ASSUME Gone({p}), UNCHANGED <<outdated, runtime>>, lock' = lock \/ (lock' = None /\ Executes(p))
      PROVE  CoreTypeOK' /\ Bounded' /\ \A s \in Others : s \in Running' <=> s \in Running
  <2>1. Executes(p) => \A q \in Pacmans : Executes(q) => q \in {p}
    BY DEF CoreTypeOK
  <2>2. {p} \in SUBSET Processes
    BY <1>0
  <2>3. QED
    BY <1>0, <1>5, <2>1, <2>2, GoneTyped
<1>6. CASE Executed(p)
  <2>1. CASE At(p, "execute core")
    <3>1. /\ lock' = None /\ phase' = [phase EXCEPT ![p] = "count"] /\ brought' = [brought EXCEPT ![p] = runtime]
          /\ UNCHANGED <<outdated, runtime, load, trans_add, room, listed>> /\ Executes(p)
      BY <1>6, <2>1 DEF Executed, Go
    <3>2. Running' = Running /\ \A q \in Pacmans : Executes(q) => q = p
      BY <3>1 DEF Running, CoreTypeOK
    <3>3. QED
      <4>1. /\ brought' \in [Pacmans -> 0 .. MaxVersion]
            /\ phase' \in [Pacmans -> {"off", "execute core", "execute", "count", "list", "taskkill"}]
        <5>1. /\ brought \in [Pacmans -> 0 .. MaxVersion] /\ runtime \in 0 .. MaxVersion
              /\ phase \in [Pacmans -> {"off", "execute core", "execute", "count", "list", "taskkill"}]
          BY ZeroIsVersion DEF CoreTypeOK
        <5>2. QED
          BY <3>1, <5>1
      <4>2. \A q \in Pacmans : /\ At(q, "off")' <=> At(q, "off")
                               /\ ~Executes(q)'
        BY <2>1, <3>1, <3>2 DEF At, Executes, CoreTypeOK
      <4>3. Bounded'
        BY <3>1 DEF Bounded
      <4>4. CoreTypeOK'
        BY <3>1, <3>2, <4>1, <4>2 DEF CoreTypeOK
      <4>5. QED
        BY <3>2, <4>3, <4>4
  <2>2. CASE ~At(p, "execute core")
    BY <1>5, <1>6, <2>2 DEF Executed
  <2>3. QED
    BY <2>1, <2>2
<1>7. CASE TransactionFails(p)
  BY <1>5, <1>7 DEF TransactionFails
<1>8. CASE CountEntries(p)
  <2>1. 2 + 2 * (OtherEntries + Cardinality(Running)) + 1 \in Nat
    BY RunningFinite, CoreAssumption
  <2>2. QED
    BY <1>2, <1>8, <2>1 DEF CountEntries, At, CoreTypeOK, Bounded
<1>9. CASE ListProcesses(p)
  <2>1. CASE Gone({p})
    BY <1>5, <1>9, <2>1 DEF ListProcesses
  <2>2. CASE ~Gone({p})
    <3>1. /\ Go(p, "taskkill") /\ listed' = [listed EXCEPT ![p] = Running \ {p}]
          /\ phase[p] = "list" /\ UNCHANGED <<outdated, runtime, lock, load, trans_add, room, brought>>
      BY <1>9, <2>2 DEF ListProcesses, At
    <3>2. Running' = Running /\ Running \in SUBSET Processes
      BY <3>1 DEF Running
    <3>3. QED
      <4>1. /\ phase' \in [Pacmans -> {"off", "execute core", "execute", "count", "list", "taskkill"}]
            /\ \A q \in Pacmans : /\ At(q, "off")' <=> At(q, "off")
                                  /\ Executes(q)' <=> Executes(q)
        BY <3>1 DEF At, Executes, CoreTypeOK, Go
      <4>2. ASSUME NEW q \in Pacmans PROVE listed'[q] \subseteq Running \ {q}
        <5>1. listed[q] \subseteq Running \ {q}
          BY DEF CoreTypeOK
        <5>2. listed'[q] = listed[q] \/ (q = p /\ listed'[q] = Running \ {p})
          BY <3>1
        <5>3. QED
          BY <5>1, <5>2
      <4>3. listed' \in [Pacmans -> SUBSET Processes]
        BY <3>1, <3>2 DEF CoreTypeOK
      <4>4. CoreTypeOK'
        BY <3>1, <3>2, <4>1, <4>2, <4>3 DEF CoreTypeOK
      <4>5. QED
        BY <3>1, <3>2, <4>4 DEF Bounded
  <2>3. QED
    BY <2>1, <2>2
<1>10. CASE KillFails(p)
  BY <1>5, <1>10 DEF KillFails
<1>11. QED
  BY <1>1, <1>3, <1>4, <1>6, <1>7, <1>8, <1>9, <1>10 DEF PacmanStep

\* The part of the shells.
LEMMA EndedTyped ==
  ASSUME TypeInv, NEW S, Start!Ended(S \cap Others)
  PROVE  /\ Start!StartTypeOK' /\ HomesMade'
         /\ \A s \in Others : at'[s] = IF s \in S THEN "off" ELSE at[s]
  BY HomeAssumption
  DEF TypeInv, HomesMade, InstallationTypeOK, Start!StartTypeOK, Start!Ended, Start!filesVars, Start!SetUp

LEMMA SetUpTyped ==
  ASSUME TypeInv, NEW s \in Others, Start!SetUpStep(s)
  PROVE  Start!StartTypeOK' /\ HomesMade' /\ at[s] # "off" /\ \A t \in Others : at'[t] = "off" <=> at[t] = "off"
<1> USE HomeAssumption
    DEF TypeInv, HomesMade, InstallationTypeOK, Start!StartTypeOK, Start!filesVars, Start!SetUp, Start!Go,
        Start!HomeIs, Start!KeyringIs
<1>0. CASE Start!LookForHome(s)
  BY <1>0 DEF Start!LookForHome
<1>1. CASE Start!MakeHome(s)
  BY <1>1 DEF Start!MakeHome
<1>2. CASE Start!CopySkeleton(s)
  <2>1. home[s] \in dirs
    BY <1>2 DEF Start!CopySkeleton
  <2>2. QED
    BY <1>2, <2>1 DEF Start!CopySkeleton
<1>3. CASE Start!LookForKeyring(s)
  BY <1>3 DEF Start!LookForKeyring
<1>4. CASE Start!MakeKeyring(s)
  BY <1>4 DEF Start!MakeKeyring
<1>5. CASE Start!GenerateKey(s)
  BY <1>5 DEF Start!GenerateKey
<1>6. CASE Start!Populate(s)
  BY <1>6 DEF Start!Populate
<1>7. QED
  BY <1>0, <1>1, <1>2, <1>3, <1>4, <1>5, <1>6 DEF Start!SetUpStep

LEMMA EnvironmentKept ==
  ASSUME TypeInv, UNCHANGED startVars
  PROVE  Start!StartTypeOK' /\ HomesMade' /\ UNCHANGED at
  BY DEF TypeInv, InstallationTypeOK, Start!StartTypeOK, HomesMade, startVars, Start!SetUp

LEMMA TypeStep == TypeInv /\ [NextInstallation]_installationVars => TypeInv'
<1> SUFFICES ASSUME TypeInv, [NextInstallation]_installationVars PROVE TypeInv'
  OBVIOUS
<1>a. CoreTypeOK /\ Bounded /\ Start!StartTypeOK /\ \A s \in Others : at[s] = "off" <=> s \notin Running
  BY DEF TypeInv, InstallationTypeOK
<1>b. ASSUME UNCHANGED coreVars PROVE CoreTypeOK' /\ Bounded' /\ Running' = Running
  BY <1>a, <1>b DEF coreVars, pacmanVars, CoreTypeOK, Bounded, Running, At, Executes
<1>1. ASSUME NEW s \in Others, ShellSetsUp(s) PROVE TypeInv'
  BY <1>a, <1>b, <1>1, SetUpTyped DEF ShellSetsUp, TypeInv, InstallationTypeOK
<1>2. ASSUME NEW s \in Others, NEW h \in Homes, ShellStarts(s, h) PROVE TypeInv'
  <2>1. /\ s \notin Running /\ load' = [load EXCEPT ![s] = runtime] /\ UNCHANGED <<outdated, runtime, pacmanVars>>
        /\ s \in Processes /\ s \notin Pacmans /\ runtime \in 1 .. MaxVersion /\ runtime \in 0 .. MaxVersion
        /\ load \in [Processes -> 0 .. MaxVersion]
    BY <1>2, <1>a, Apart, ZeroIsVersion DEF ShellStarts, StartOther, Starts, CoreTypeOK
  <2>2. load' \in [Processes -> 0 .. MaxVersion] /\ Running' = Running \cup {s}
    BY <2>1 DEF Running
  <2>3. ASSUME NEW q \in Pacmans
        PROVE  /\ At(q, "off")' <=> q \notin Running'
               /\ listed'[q] \subseteq Running' \ {q}
               /\ Executes(q)' => lock' = q
    <3>1. /\ At(q, "off") <=> q \notin Running
          /\ listed[q] \subseteq Running \ {q}
          /\ Executes(q) => lock = q
      BY <1>a DEF CoreTypeOK
    <3>2. QED
      BY <2>1, <2>2, <3>1 DEF At, Executes, pacmanVars
  <2>4. CoreTypeOK' /\ Bounded'
    BY <1>a, <2>1, <2>2, <2>3 DEF CoreTypeOK, Bounded, pacmanVars
  <2>5. Start!StartTypeOK' /\ HomesMade' /\ \A t \in Others : at'[t] = "off" <=> at[t] = "off" /\ t # s
    <3>1. /\ \E where \in {"home", "prompt"} : at' = [at EXCEPT ![s] = where]
          /\ home' = home \/ (home' = [home EXCEPT ![s] = h] /\ at'[s] = "home")
          /\ UNCHANGED <<dirs, skeletons, keyring, home_part, keyring_part>> /\ at[s] = "off"
      BY <1>2, <1>a DEF ShellStarts, Start!Login, Start!Go, Start!StartTypeOK, Start!filesVars
    <3>2. QED
      BY <1>a, <3>1 DEF Start!StartTypeOK, TypeInv, HomesMade, Start!SetUp
  <2>6. QED
    BY <1>a, <2>2, <2>4, <2>5 DEF TypeInv, InstallationTypeOK
<1>3. ASSUME NEW p \in Processes, Ends(p) PROVE TypeInv'
  <2>1. CoreTypeOK' /\ Bounded' /\ Running' = Running \ {p}
    BY <1>3, GoneTyped DEF Ends, End
  <2>2. /\ Start!StartTypeOK' /\ HomesMade'
        /\ \A s \in Others : at'[s] = IF s \in {p} THEN "off" ELSE at[s]
    BY <1>3, EndedTyped DEF Ends
  <2>3. QED
    BY <1>a, <2>1, <2>2 DEF TypeInv, InstallationTypeOK
<1>4. ASSUME NEW p \in Pacmans, NEW ended \in SUBSET listed[p], KillsAll(p, ended) PROVE TypeInv'
  <2>1. ended \cup {p} \in SUBSET Processes /\ p \notin Others
    <3>1. listed[p] \subseteq Processes
      BY <1>a DEF CoreTypeOK
    <3>2. QED
      BY <3>1, Apart
  <2>2. CoreTypeOK' /\ Bounded' /\ Running' = Running \ (ended \cup {p})
    BY <1>4, <2>1, GoneTyped DEF KillsAll, Taskkill
  <2>3. /\ Start!StartTypeOK' /\ HomesMade'
        /\ \A s \in Others : at'[s] = IF s \in ended THEN "off" ELSE at[s]
    BY <1>4, EndedTyped DEF KillsAll
  <2>4. QED
    BY <1>a, <2>1, <2>2, <2>3 DEF TypeInv, InstallationTypeOK
<1>5. ASSUME NEW p \in Pacmans, PacmanStep(p), UNCHANGED startVars PROVE TypeInv'
  BY <1>a, <1>5, PacmanTyped, EnvironmentKept DEF TypeInv, InstallationTypeOK
<1>6. ASSUME RemoveLock, UNCHANGED startVars PROVE TypeInv'
  <2>1. CoreTypeOK' /\ Bounded' /\ Running' = Running
    <3>1. /\ lock \notin Running /\ lock' = None
          /\ UNCHANGED <<outdated, runtime, load, phase, trans_add, room, listed, brought>>
      BY <1>6 DEF RemoveLock
    <3>2. Running' = Running /\ \A q \in Pacmans : ~Executes(q)
      BY <1>a, <3>1 DEF Running, CoreTypeOK, Executes, At
    <3>3. QED
      BY <1>a, <3>1, <3>2 DEF CoreTypeOK, Bounded, At, Executes
  <2>2. QED
    BY <1>a, <1>6, <2>1, EnvironmentKept DEF TypeInv, InstallationTypeOK
<1>7. ASSUME Release, UNCHANGED startVars PROVE TypeInv'
  <2>1. CoreTypeOK' /\ Bounded' /\ Running' = Running
    BY <1>a, <1>7 DEF Release, CoreTypeOK, Bounded, pacmanVars, Running, At, Executes
  <2>2. QED
    BY <1>a, <1>7, <2>1, EnvironmentKept DEF TypeInv, InstallationTypeOK
<1>8. CASE UNCHANGED installationVars
  BY <1>a, <1>b, <1>8, EnvironmentKept DEF installationVars, TypeInv, InstallationTypeOK
<1>9. QED
  BY <1>1, <1>2, <1>3, <1>4, <1>5, <1>6, <1>7, <1>8 DEF NextInstallation

LEMMA TypeInvariant == InstallationSpec => []TypeInv
  BY InitTyped, TypeStep, PTL DEF InstallationSpec

\* Shells and pacmans together keep their types: whoever holds a part of a
\* transaction has the lock, and pacman lists (patch 11, line 205) only what
\* runs, never itself.
THEOREM InstallationTypeCorrect == InstallationSpec => []InstallationTypeOK
<1>1. TypeInv => InstallationTypeOK
  BY DEF TypeInv
<1>2. QED
  BY <1>1, TypeInvariant, PTL

-----------------------------------------------------------------------------
(* The runtime.  Versions only go up, so whoever starts after the list has  *)
(* been made has no older one than the upgrade has brought.                 *)

LEMMA Versions ==
  ASSUME TypeInv
  PROVE  /\ runtime \in Nat /\ runtime >= 1
         /\ load \in [Processes -> 0 .. MaxVersion] /\ \A q \in Processes : load[q] \in Nat
         /\ brought \in [Pacmans -> 0 .. MaxVersion] /\ \A p \in Pacmans : brought[p] \in Nat
<1>1. /\ runtime \in 1 .. MaxVersion /\ load \in [Processes -> 0 .. MaxVersion]
      /\ brought \in [Pacmans -> 0 .. MaxVersion]
  BY DEF TypeInv, InstallationTypeOK, CoreTypeOK
<1>2. /\ 0 .. MaxVersion \subseteq Nat
      /\ \A n \in 1 .. MaxVersion : n \in Nat /\ n >= 1
  BY Apart
<1>3. QED
  BY <1>1, <1>2

LEMMA VersionsAfter ==
  ASSUME TypeInv'
  PROVE  /\ runtime' \in Nat
         /\ \A q \in Processes : load'[q] \in Nat
         /\ \A p \in Pacmans : brought'[p] \in Nat
<1>1. /\ runtime' \in 1 .. MaxVersion /\ load' \in [Processes -> 0 .. MaxVersion]
      /\ brought' \in [Pacmans -> 0 .. MaxVersion]
  BY DEF TypeInv, InstallationTypeOK, CoreTypeOK
<1>2. 0 .. MaxVersion \subseteq Nat /\ 1 .. MaxVersion \subseteq Nat
  BY Apart
<1>3. QED
  BY <1>1, <1>2

RuntimeInv ==
  /\ \A q \in Processes : load[q] <= runtime
  /\ \A p \in Pacmans : brought[p] <= runtime
  /\ \A p \in Pacmans : At(p, "taskkill") =>
       \A q \in Running : q = p \/ q \in listed[p] \/ load[q] >= brought[p]

LEMMA RuntimeInvByParts ==
  ASSUME TypeInv, RuntimeInv, TypeInv', runtime' >= runtime,
         \A q \in Processes : load'[q] \in {0, load[q]} \/ load'[q] = runtime',
         \A p \in Pacmans : brought'[p] \in {0, brought[p]} \/ brought'[p] = runtime',
         \A p \in Pacmans : At(p, "taskkill")' =>
           \/ Running' \subseteq listed'[p] \cup {p}
           \/ /\ At(p, "taskkill") /\ brought'[p] = brought[p]
              /\ \A q \in Running' : \/ load'[q] = runtime'
                                     \/ /\ q \in Running /\ load'[q] = load[q]
                                        /\ q \in listed[p] => q \in listed'[p]
  PROVE  RuntimeInv'
<1>1. /\ runtime \in Nat /\ runtime' \in Nat
      /\ \A q \in Processes : load[q] \in Nat
      /\ \A p \in Pacmans : brought[p] \in Nat
  BY Versions, VersionsAfter
<1>2. \A q \in Processes : load'[q] <= runtime'
  BY <1>1 DEF RuntimeInv
<1>3. \A p \in Pacmans : brought'[p] <= runtime'
  BY <1>1 DEF RuntimeInv
<1>4. ASSUME NEW p \in Pacmans, At(p, "taskkill")', NEW q \in Running'
      PROVE  q = p \/ q \in listed'[p] \/ load'[q] >= brought'[p]
  <2>1. CASE Running' \subseteq listed'[p] \cup {p}
    BY <1>4, <2>1
  <2>2. CASE load'[q] = runtime'
    <3>1. brought'[p] <= runtime' /\ brought'[p] \in Nat /\ runtime' \in Nat
      BY <1>3, VersionsAfter
    <3>2. QED
      BY <2>2, <3>1
  <2>3. CASE /\ At(p, "taskkill") /\ brought'[p] = brought[p]
             /\ q \in Running /\ load'[q] = load[q] /\ (q \in listed[p] => q \in listed'[p])
    BY <2>3 DEF RuntimeInv
  <2>4. QED
    BY <1>4, <2>1, <2>2, <2>3
<1>5. QED
  BY <1>2, <1>3, <1>4 DEF RuntimeInv

LEMMA GoneRuntime ==
  ASSUME TypeInv, RuntimeInv, TypeInv', NEW S \in SUBSET Processes, Gone(S), UNCHANGED runtime
  PROVE  RuntimeInv'
<1>1. runtime' >= runtime
  BY Versions
<1>2. \A q \in Processes : load'[q] \in {0, load[q]}
  BY DEF Gone
<1>3. \A p \in Pacmans : brought'[p] \in {0, brought[p]}
  BY DEF Gone
<1>4. ASSUME NEW p \in Pacmans, At(p, "taskkill")'
      PROVE  /\ At(p, "taskkill") /\ brought'[p] = brought[p]
             /\ \A q \in Running' : /\ q \in Running /\ load'[q] = load[q]
                                    /\ q \in listed[p] => q \in listed'[p]
  <2>1. p \notin S
    BY <1>4 DEF Gone, At
  <2>2. /\ phase[p] = "taskkill" /\ brought'[p] = brought[p] /\ listed'[p] = listed[p] \ S
    BY <1>4, <2>1 DEF Gone, At
  <2>3. \A q \in Running' : q \notin S /\ q \in Running /\ load'[q] = load[q]
    BY DEF Gone, Running
  <2>4. QED
    BY <2>2, <2>3 DEF At
<1>5. QED
  BY <1>1, <1>2, <1>3, <1>4, RuntimeInvByParts

LEMMA RuntimeStep ==
  ASSUME TypeInv, RuntimeInv, TypeInv', [NextInstallation]_installationVars
  PROVE  RuntimeInv'
<1>a. runtime \in Nat /\ load \in [Processes -> 0 .. MaxVersion] /\ brought \in [Pacmans -> 0 .. MaxVersion]
  BY Versions
<1>b. ASSUME UNCHANGED <<load, listed>>, runtime' >= runtime,
             \A p \in Pacmans : brought'[p] = brought[p] \/ (brought'[p] = runtime' /\ ~At(p, "taskkill")'),
             \A p \in Pacmans : At(p, "taskkill")' => At(p, "taskkill")
      PROVE  RuntimeInv'
  <2>1. Running' = Running
    BY <1>b DEF Running
  <2>2. QED
    BY <1>b, <2>1, RuntimeInvByParts
<1>c. ASSUME UNCHANGED <<runtime, load, listed, brought, phase>> PROVE RuntimeInv'
  BY <1>a, <1>b, <1>c DEF At
<1>d. ASSUME NEW p \in Processes, p \notin Running, load' = [load EXCEPT ![p] = runtime],
             UNCHANGED <<runtime, listed, brought>>,
             \A q \in Pacmans : At(q, "taskkill")' => At(q, "taskkill")
      PROVE  RuntimeInv'
  <2>1. \A q \in Processes : load'[q] = IF q = p THEN runtime' ELSE load[q]
    BY <1>a, <1>d
  <2>2. \A q \in Running' : load'[q] = runtime' \/ (q \in Running /\ load'[q] = load[q])
    BY <2>1 DEF Running
  <2>3. QED
    BY <1>a, <1>d, <2>1, <2>2, RuntimeInvByParts
<1>1. ASSUME NEW s \in Others, ShellSetsUp(s) PROVE RuntimeInv'
  BY <1>c, <1>1 DEF ShellSetsUp, coreVars, pacmanVars
<1>2. ASSUME NEW s \in Others, NEW h \in Homes, ShellStarts(s, h) PROVE RuntimeInv'
  BY <1>d, <1>2, Apart DEF ShellStarts, StartOther, Starts, pacmanVars, At
<1>3. ASSUME NEW p \in Processes, Ends(p) PROVE RuntimeInv'
  BY <1>3, GoneRuntime DEF Ends, End
<1>4. ASSUME NEW p \in Pacmans, NEW ended \in SUBSET listed[p], KillsAll(p, ended) PROVE RuntimeInv'
  <2>1. ended \cup {p} \in SUBSET Processes
    <3>1. listed[p] \subseteq Processes
      BY DEF TypeInv, InstallationTypeOK, CoreTypeOK
    <3>2. QED
      BY <3>1, Apart
  <2>2. QED
    BY <1>4, <2>1, GoneRuntime DEF KillsAll, Taskkill
<1>5. ASSUME NEW p \in Pacmans, PacmanStep(p) PROVE RuntimeInv'
  <2>0. p \in Processes /\ {p} \in SUBSET Processes
    BY Apart
  <2>1. ASSUME NEW targets \in SUBSET Packages, StartPacman(p, targets) PROVE RuntimeInv'
    <3>1. \A q \in Pacmans : At(q, "taskkill")' => At(q, "taskkill")
      <4>1. \E where \in {"execute core", "execute"} : phase' = [phase EXCEPT ![p] = where]
        BY <2>1 DEF StartPacman, Go
      <4>2. phase \in [Pacmans -> {"off", "execute core", "execute", "count", "list", "taskkill"}]
        BY DEF TypeInv, InstallationTypeOK, CoreTypeOK
      <4>3. QED
        BY <4>1, <4>2 DEF At
    <3>2. QED
      BY <1>d, <2>0, <2>1, <3>1 DEF StartPacman, Starts
  <2>2. ASSUME NEW needed \in SUBSET Packages, Depend(p, needed) PROVE RuntimeInv'
    BY <1>c, <2>2 DEF Depend
  <2>3. ASSUME NEW k \in Packages, InstallsTrusted(p, k) PROVE RuntimeInv'
    <3>1. runtime' >= runtime
      BY <1>a, <2>3 DEF InstallsTrusted, Install
    <3>2. QED
      BY <1>b, <2>3, <3>1 DEF InstallsTrusted, Install, At
  <2>4. CASE Gone({p}) /\ UNCHANGED runtime
    BY <2>0, <2>4, GoneRuntime
  <2>5. CASE Executed(p)
    <3>1. CASE At(p, "execute core")
      <4>1. /\ phase' = [phase EXCEPT ![p] = "count"] /\ brought' = [brought EXCEPT ![p] = runtime]
            /\ UNCHANGED <<runtime, load, listed>>
            /\ phase \in [Pacmans -> {"off", "execute core", "execute", "count", "list", "taskkill"}]
        BY <2>5, <3>1 DEF Executed, Go, TypeInv, InstallationTypeOK, CoreTypeOK
      <4>2. \A q \in Pacmans : At(q, "taskkill")' => At(q, "taskkill") /\ q # p
        BY <4>1 DEF At
      <4>3. \A q \in Pacmans : brought'[q] = brought[q] \/ (brought'[q] = runtime' /\ ~At(q, "taskkill")')
        BY <1>a, <4>1, <4>2
      <4>4. UNCHANGED <<load, listed>> /\ runtime' >= runtime
        <5>1. runtime' = runtime /\ load' = load /\ listed' = listed
          BY <4>1
        <5>2. QED
          BY <1>a, <5>1
      <4>5. QED
        BY <1>b, <4>2, <4>3, <4>4
    <3>2. CASE ~At(p, "execute core")
      BY <2>4, <2>5, <3>2 DEF Executed
    <3>3. QED
      BY <3>1, <3>2
  <2>6. CASE TransactionFails(p)
    BY <2>4, <2>6 DEF TransactionFails
  <2>7. CASE CountEntries(p)
    <3>1. \A q \in Pacmans : At(q, "taskkill")' => At(q, "taskkill")
      <4>1. phase \in [Pacmans -> {"off", "execute core", "execute", "count", "list", "taskkill"}]
        BY DEF TypeInv, InstallationTypeOK, CoreTypeOK
      <4>2. phase' = [phase EXCEPT ![p] = "list"]
        BY <2>7 DEF CountEntries, Go
      <4>3. QED
        BY <4>1, <4>2 DEF At
    <3>2. UNCHANGED <<load, listed, brought>> /\ runtime' >= runtime
      BY <1>a, <2>7 DEF CountEntries
    <3>3. QED
      BY <1>b, <3>1, <3>2
  <2>8. CASE ListProcesses(p)
    <3>1. CASE Go(p, "taskkill") /\ listed' = [listed EXCEPT ![p] = Running \ {p}]
               /\ UNCHANGED <<runtime, load, brought>>
      <4>1. /\ phase' = [phase EXCEPT ![p] = "taskkill"] /\ Running' = Running
            /\ listed \in [Pacmans -> SUBSET Processes]
            /\ phase \in [Pacmans -> {"off", "execute core", "execute", "count", "list", "taskkill"}]
        BY <3>1 DEF Go, Running, TypeInv, InstallationTypeOK, CoreTypeOK
      <4>2. \A q \in Pacmans : q # p => listed'[q] = listed[q] /\ (At(q, "taskkill")' => At(q, "taskkill"))
        BY <3>1, <4>1 DEF At
      <4>3. Running' \subseteq listed'[p] \cup {p}
        BY <3>1, <4>1
      <4>5. ASSUME NEW q \in Pacmans, At(q, "taskkill")'
            PROVE  \/ Running' \subseteq listed'[q] \cup {q}
                   \/ /\ At(q, "taskkill") /\ brought'[q] = brought[q]
                      /\ \A r \in Running' : /\ r \in Running /\ load'[r] = load[r]
                                             /\ r \in listed[q] => r \in listed'[q]
        BY <3>1, <4>1, <4>2, <4>3, <4>5
      <4>6. /\ \A q \in Processes : load'[q] \in {0, load[q]}
            /\ \A q \in Pacmans : brought'[q] \in {0, brought[q]}
            /\ runtime' >= runtime
        BY <1>a, <3>1
      <4>7. QED
        BY <4>5, <4>6, RuntimeInvByParts
    <3>2. QED
      BY <2>4, <2>8, <3>1 DEF ListProcesses
  <2>9. CASE KillFails(p)
    BY <2>4, <2>9 DEF KillFails
  <2>10. QED
    BY <1>5, <2>1, <2>2, <2>3, <2>5, <2>6, <2>7, <2>8, <2>9 DEF PacmanStep
<1>6. CASE RemoveLock
  BY <1>c, <1>6 DEF RemoveLock
<1>7. CASE Release
  BY <1>c, <1>7 DEF Release, pacmanVars
<1>8. CASE UNCHANGED installationVars
  BY <1>c, <1>8 DEF installationVars, coreVars, pacmanVars
<1>9. QED
  BY <1>1, <1>2, <1>3, <1>4, <1>5, <1>6, <1>7, <1>8 DEF NextInstallation

LEMMA RuntimeInvariant == InstallationSpec => []RuntimeInv
<1>1. InitInstallation => RuntimeInv
  <2> SUFFICES ASSUME InitInstallation PROVE RuntimeInv
    OBVIOUS
  <2>1. /\ runtime = 1 /\ load = [p \in Processes |-> 0] /\ brought = [p \in Pacmans |-> 0]
        /\ phase = [p \in Pacmans |-> "off"]
    BY DEF InitInstallation, InitCore
  <2>2. QED
    BY <2>1 DEF RuntimeInv, At
<1>2. QED
  BY <1>1, RuntimeStep, TypeInvariant, PTL DEF InstallationSpec

\* When pacman comes to an end after its list, nobody starts in this step.
LEMMA NobodyStarts ==
  ASSUME TypeInv, [NextInstallation]_installationVars, NEW p \in Pacmans, EndsWell(p)
  PROVE  \A q \in Processes : load'[q] \in {0, load[q]}
<1>a. \A S : Gone(S) => \A q \in Processes : load'[q] \in {0, load[q]}
  BY DEF Gone
<1>b. phase[p] # "off" /\ phase'[p] = "off"
  BY DEF EndsWell
<1>1. ASSUME NEW s \in Others, ShellSetsUp(s) PROVE UNCHANGED load
  BY <1>1 DEF ShellSetsUp, coreVars
<1>2. ASSUME NEW s \in Others, NEW h \in Homes, ShellStarts(s, h) PROVE FALSE
  BY <1>b, <1>2 DEF ShellStarts, StartOther, pacmanVars
<1>3. ASSUME NEW r \in Processes, Ends(r) PROVE \E S : Gone(S)
  BY <1>3 DEF Ends, End
<1>4. ASSUME NEW r \in Pacmans, NEW ended \in SUBSET listed[r], KillsAll(r, ended) PROVE \E S : Gone(S)
  BY <1>4 DEF KillsAll, Taskkill
<1>5. ASSUME NEW r \in Pacmans, PacmanStep(r) PROVE UNCHANGED load \/ \E S : Gone(S)
  <2>1. ASSUME NEW targets \in SUBSET Packages, StartPacman(r, targets) PROVE FALSE
    <3>1. \E where \in {"execute core", "execute"} : phase' = [phase EXCEPT ![r] = where]
      BY <2>1 DEF StartPacman, Go
    <3>2. phase \in [Pacmans -> {"off", "execute core", "execute", "count", "list", "taskkill"}]
      BY DEF TypeInv, InstallationTypeOK, CoreTypeOK
    <3>3. QED
      BY <1>b, <3>1, <3>2
  <2>2. QED
    BY <1>5, <2>1
    DEF PacmanStep, Depend, InstallsTrusted, Install, Executed, TransactionFails, CountEntries,
        ListProcesses, KillFails
<1>6. ASSUME RemoveLock \/ Release PROVE UNCHANGED load
  BY <1>6 DEF RemoveLock, Release
<1>7. ASSUME UNCHANGED installationVars PROVE UNCHANGED load
  BY <1>7 DEF installationVars, coreVars
<1>8. UNCHANGED load \/ \E S : Gone(S)
  BY <1>1, <1>2, <1>3, <1>4, <1>5, <1>6, <1>7 DEF NextInstallation
<1>9. QED
  BY <1>a, <1>8

LEMMA EndsWellStep ==
  ASSUME TypeInv, RuntimeInv, TypeInv', [NextInstallation]_installationVars,
         NEW p \in Pacmans, EndsWell(p), NEW q \in Processes
  PROVE  load'[q] = 0 \/ load'[q] >= brought[p]
<1>1. load'[q] \in {0, load[q]}
  BY NobodyStarts
<1>2. p \in Processes /\ p \notin Running'
  <2>1. phase'[p] = "off"
    BY DEF EndsWell
  <2>2. QED
    BY <2>1, Apart DEF TypeInv, InstallationTypeOK, CoreTypeOK, At
<1>3. CASE q \notin Running
  BY <1>1, <1>3 DEF Running
<1>4. CASE q = p
  BY <1>2, <1>4 DEF Running
<1>5. CASE q \in Running /\ q # p
  <2>1. phase[p] = "taskkill" /\ \A r \in listed[p] : load'[r] = 0
    BY <1>5 DEF EndsWell, At
  <2>2. q \in listed[p] \/ load[q] >= brought[p]
    BY <1>5, <2>1 DEF RuntimeInv, At
  <2>3. QED
    BY <1>1, <2>1, <2>2
<1>6. QED
  BY <1>3, <1>4, <1>5

\* What kill_all_other_msys_processes (patch 11, line 205) is for, for any
\* number of processes and of upgrades: a pacman that ends all it has listed
\* leaves nobody on a runtime older than the one it has brought.
THEOREM OldRuntimeIsGone == InstallationSpec => OldRuntimeGone
<1>1. ASSUME TypeInv, RuntimeInv, TypeInv', [NextInstallation]_installationVars
      PROVE  [\A p \in Pacmans : EndsWell(p) =>
                \A q \in Processes : load'[q] = 0 \/ load'[q] >= brought[p]]_coreVars
  BY <1>1, EndsWellStep
<1>2. QED
  BY <1>1, TypeInvariant, RuntimeInvariant, PTL DEF InstallationSpec, OldRuntimeGone

-----------------------------------------------------------------------------
(* The set-up.  Nobody takes back what another has made, so that what a     *)
(* shell has carried through itself stays.                                 *)

\* From one step for the keyring to the next, and never back.
Further == /\ keyring # "absent" => keyring' # "absent"
           /\ keyring \in {"key", "trusted"} => keyring' \in {"key", "trusted"}
           /\ keyring = "trusted" => keyring' = "trusted"
           /\ skeletons \subseteq skeletons'

Kept(s) ==
  /\ at[s] \in {"off", "home", "mkdir", "prompt"} => home_part[s] = "found"
  /\ home_part[s] = "done" /\ at[s] # "skeleton" => home[s] \in skeletons
  /\ at[s] \notin {"generate", "populate", "ready"} => keyring_part[s] = "found"
  /\ keyring_part[s] = "done" =>
       /\ at[s] = "generate" => keyring # "absent"
       /\ at[s] = "populate" => keyring \in {"key", "trusted"}
       /\ at[s] = "ready" => keyring = "trusted"

DoneInv == \A s \in Others : Kept(s)

\* Whoever does nothing keeps what it has, or has ended.
LEMMA OthersKept ==
  ASSUME NEW t \in Others, Kept(t), Further,
         \/ /\ at'[t] = at[t] /\ home'[t] = home[t]
            /\ home_part'[t] = home_part[t] /\ keyring_part'[t] = keyring_part[t]
         \/ at'[t] = "off" /\ home_part'[t] = "found" /\ keyring_part'[t] = "found"
  PROVE  Kept(t)'
  BY DEF Kept, Further

LEMMA SetUpKept ==
  ASSUME TypeInv, DoneInv, NEW s \in Others, Start!SetUpStep(s)
  PROVE  DoneInv'
<1>1. /\ at \in [Others -> Start!SetUp \cup {"off", "ready", "prompt"}] /\ home \in [Others -> Homes]
      /\ home_part \in [Others -> {"found", "done", "failed"}]
      /\ keyring_part \in [Others -> {"found", "done", "failed"}]
      /\ keyring \in {"absent", "directory", "key", "trusted"} /\ Kept(s)
  BY DEF TypeInv, InstallationTypeOK, Start!StartTypeOK, DoneInv
<1>2. Kept(s)' /\ Further
  <2> USE DEF Kept, Further, Start!Go, Start!HomeIs, Start!KeyringIs, Start!filesVars
  <2>1. CASE Start!LookForHome(s)
    BY <1>1, <2>1 DEF Start!LookForHome
  <2>2. CASE Start!MakeHome(s)
    BY <1>1, <2>2 DEF Start!MakeHome
  <2>3. CASE Start!CopySkeleton(s)
    BY <1>1, <2>3 DEF Start!CopySkeleton
  <2>4. CASE Start!LookForKeyring(s)
    BY <1>1, <2>4 DEF Start!LookForKeyring
  <2>5. CASE Start!MakeKeyring(s)
    BY <1>1, <2>5 DEF Start!MakeKeyring
  <2>6. CASE Start!GenerateKey(s)
    BY <1>1, <2>6 DEF Start!GenerateKey
  <2>7. CASE Start!Populate(s)
    BY <1>1, <2>7 DEF Start!Populate
  <2>8. QED
    BY <2>1, <2>2, <2>3, <2>4, <2>5, <2>6, <2>7 DEF Start!SetUpStep
<1>3. ASSUME NEW t \in Others, t # s PROVE Kept(t)'
  <2>1. /\ at'[t] = at[t] /\ home'[t] = home[t]
        /\ home_part'[t] = home_part[t] /\ keyring_part'[t] = keyring_part[t]
    BY <1>1, <1>3
    DEF Start!SetUpStep, Start!LookForHome, Start!MakeHome, Start!CopySkeleton, Start!LookForKeyring,
        Start!MakeKeyring, Start!GenerateKey, Start!Populate, Start!Go, Start!HomeIs, Start!KeyringIs
  <2>2. QED
    BY <1>2, <2>1, OthersKept DEF DoneInv
<1>4. QED
  BY <1>2, <1>3 DEF DoneInv

LEMMA EndedKept ==
  ASSUME DoneInv, NEW S, Start!Ended(S)
  PROVE  DoneInv'
<1>1. Further
  BY DEF Start!Ended, Start!filesVars, Further
<1>2. ASSUME NEW t \in Others
      PROVE  \/ /\ at'[t] = at[t] /\ home'[t] = home[t]
                /\ home_part'[t] = home_part[t] /\ keyring_part'[t] = keyring_part[t]
             \/ at'[t] = "off" /\ home_part'[t] = "found" /\ keyring_part'[t] = "found"
  BY DEF Start!Ended
<1>3. QED
  BY <1>1, <1>2, OthersKept DEF DoneInv

LEMMA DoneStep ==
  ASSUME TypeInv, DoneInv, [NextInstallation]_installationVars
  PROVE  DoneInv'
<1>1. ASSUME NEW s \in Others, ShellSetsUp(s) PROVE DoneInv'
  BY <1>1, SetUpKept DEF ShellSetsUp
<1>2. ASSUME NEW s \in Others, NEW h \in Homes, ShellStarts(s, h) PROVE DoneInv'
  <2>1. /\ at \in [Others -> Start!SetUp \cup {"off", "ready", "prompt"}] /\ home \in [Others -> Homes]
    BY DEF TypeInv, InstallationTypeOK, Start!StartTypeOK
  <2>2. /\ at[s] = "off" /\ UNCHANGED <<dirs, skeletons, keyring, home_part, keyring_part>>
        /\ \E where \in {"home", "prompt"} : at' = [at EXCEPT ![s] = where]
        /\ \A t \in Others \ {s} : home'[t] = home[t]
    BY <1>2, <2>1 DEF ShellStarts, Start!Login, Start!Go, Start!filesVars
  <2>3. Kept(s)'
    BY <2>1, <2>2 DEF DoneInv, Kept
  <2>4. ASSUME NEW t \in Others, t # s PROVE Kept(t)'
    BY <2>1, <2>2, <2>4, OthersKept DEF DoneInv, Further
  <2>5. QED
    BY <2>3, <2>4 DEF DoneInv
<1>3. ASSUME NEW p \in Processes, Ends(p) PROVE DoneInv'
  BY <1>3, EndedKept DEF Ends
<1>4. ASSUME NEW p \in Pacmans, NEW ended \in SUBSET listed[p], KillsAll(p, ended) PROVE DoneInv'
  BY <1>4, EndedKept DEF KillsAll
<1>5. ASSUME UNCHANGED startVars PROVE DoneInv'
  BY <1>5 DEF startVars, DoneInv, Kept
<1>6. QED
  BY <1>1, <1>2, <1>3, <1>4, <1>5 DEF NextInstallation, installationVars

\* filesystem/profile sources the scripts of /etc/post-install in several shells
\* at one time (05-home-dir.post:215, 07-pacman-key.post:3): for any number of
\* shells, homes and pacmans, what a shell has set up itself, all of its own
\* steps having gone well, is there when it is through.
THEOREM DoneStays == InstallationSpec => []DoneIsThere
<1>1. InitInstallation => DoneInv
  BY DEF InitInstallation, Start!InitStart, DoneInv, Kept
<1>2. DoneInv => DoneIsThere
  BY DEF DoneInv, Kept, DoneIsThere, Start!DoneIsThere
<1>3. QED
  BY <1>1, <1>2, DoneStep, TypeInvariant, PTL DEF InstallationSpec
=============================================================================
