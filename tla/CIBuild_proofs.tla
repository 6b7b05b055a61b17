---------------------------- MODULE CIBuild_proofs ----------------------------
(***************************************************************************)
(* Proofs about CIBuild.                                                   *)
(*                                                                         *)
(* The script never touches the variables of the Python program but in     *)
(* Listing, so a build is a behaviour of BuildOrder (OrderIsRun) and all   *)
(* that is proved there holds of a build.  CIInv strengthens the           *)
(* properties of the script with what each step has left behind: where     *)
(* the new packages are entered already and where they are stored.         *)
(***************************************************************************)
EXTENDS CIBuild, BuildOrder_proofs

Before == {"setup", "listing", "detected"}
InTurn == {"copy", "makepkg", "repo-add", "sync", "store", "install", "uninstall"}

\* Nothing has been built yet, and the order that is read is the final one.
BeforeInv ==
  /\ step \in Before =>
       /\ package = NoPackage /\ B = <<>> /\ out = {} /\ repo = {} /\ upgraded = {}
       /\ stale = {}
  /\ step \in {"setup", "listing"} => todo = <<>>
  /\ step \notin {"setup", "listing", "end"} => phase \in {"printed", "raised"}

\* In a turn B is the recipe of the package of the turn.
TurnInv ==
  /\ step \in InTurn => package \in packages
  /\ step = "copy" => B = <<>>
  /\ step \in InTurn \ {"copy"} => B = <<package>>
  /\ step = "loop" => B = <<>> /\ out = {}
  /\ step \notin {"install", "uninstall", "end"} => pending = {}
  /\ step \in {"copy", "makepkg"} => out = {}
  /\ step = "uninstall" => pkg \in pending

\* What the repository lists is stored but for what the turn has just built.
RepoInv ==
  /\ step \in {"loop", "copy", "makepkg", "repo-add"} => synced = repo /\ repo \subseteq artifacts
  /\ step \in {"sync", "store"} => out \subseteq repo /\ repo \subseteq artifacts \cup out
  /\ step \in {"store", "install", "uninstall"} => synced = repo
  /\ step \in {"install", "uninstall"} => out \subseteq repo /\ repo \subseteq artifacts

\* What is installed of the new versions, while a package is looked at.
CleanInv ==
  /\ step \notin {"uninstall", "end"} => upgraded \subseteq Base
  /\ step = "uninstall" =>
       upgraded \subseteq
         Base \cup (IF package \in DontInstall THEN {} ELSE {pkg} \cup Fetched(package))

CIInv == CITypeOK /\ BeforeInv /\ TurnInv /\ RepoInv /\ CleanInv

-----------------------------------------------------------------------------
(* A build is a run of the Python program.                                 *)

\* What a step of the script does to the variables of BuildOrder.
LEMMA StepOfOrder == [CINext]_allVars => [Next]_vars
<1> SUFFICES ASSUME CINext \/ UNCHANGED allVars, ~UNCHANGED vars PROVE Next
  OBVIOUS
<1>1. CASE UNCHANGED allVars
  BY <1>1 DEF allVars
<1>2. CASE Listing
  BY <1>2 DEF Listing, Next
<1>3. CASE CINext /\ ~Listing
  BY <1>3 DEF CINext, Build, Done, allVars, Setup, ReadOrder, NoChanges, AddRepository,
     NextPackage, CopyRecipe, Makepkg, RepoAdd, Sync, Store, StoreFails, Install,
     Uninstall, CleanUp, AllBuilt, Fail
<1> QED
  BY <1>1, <1>2, <1>3

\* .ci/ci-build.sh 57: whatever the script does, before and after it reads
\* the order, the Python program behaves as it does alone.
THEOREM OrderIsRun == CISpec => Spec
<1>1. CIInit => Init
  BY DEF CIInit
<1> QED
  BY <1>1, StepOfOrder, PTL DEF CISpec, Spec

\* Of what is printed nothing changes any more.
LEMMA OrderStays ==
  ASSUME [Next]_vars, phase \in {"printed", "raised"}
  PROVE  UNCHANGED vars
BY DEF Next, Gather, Raise, Order, Ended, vars, ListPackages, StartReading, EnterAlias,
   Gathered, Skip, WarnCycle, Descend, Take, Ascend, Printed

-----------------------------------------------------------------------------
(* The script's invariant.                                                 *)

\* At the start there is nothing to be wrong.
LEMMA CIInitInv == CIInit /\ IInv => CIInv
BY BuildOrderAssumption, CIBuildAssumption
   DEF CIInit, Init, CIInv, IInv, CITypeOK, BeforeInv, TurnInv, RepoInv, CleanInv, Before, InTurn

\* Every step of the script but Listing leaves the program's variables alone.
LEMMA CIInvStep ==
  ASSUME CIInv, TypeOK, TypeOK', [CINext]_allVars
  PROVE  CIInv'
<1> USE BuildOrderAssumption, CIBuildAssumption
    DEF CIInv, CITypeOK, BeforeInv, TurnInv, RepoInv, CleanInv, Before, InTurn
<1> USE DEF vars, loopVars, repoVars
<1>1. CASE Setup
  BY <1>1 DEF Setup, Goto, Fetched, TypeOK
<1>2. CASE Listing
  BY <1>2 DEF Listing, ciVars, TypeOK
<1>3. CASE ReadOrder
  BY <1>3 DEF ReadOrder, Goto, Fetched, TypeOK
<1>4. CASE NoChanges
  BY <1>4 DEF NoChanges, Exit, Fetched, TypeOK
<1>5. CASE AddRepository
  BY <1>5 DEF AddRepository, Goto, Fetched, TypeOK
<1>6. CASE NextPackage
  BY <1>6 DEF NextPackage, Goto, Fetched, TypeOK
<1>7. CASE CopyRecipe
  BY <1>7 DEF CopyRecipe, Goto, Fetched, TypeOK
<1>8. CASE Makepkg
  <2>1. B = <<package>> /\ package \in packages /\ packages \subseteq Packages
    BY <1>8 DEF Makepkg, Goto, TypeOK
  <2>2. /\ recipe.deps[package] \subseteq Names /\ recipe.provides[package] \subseteq Names
    BY <2>1 DEF TypeOK
  <2>3. out' \subseteq Names /\ stale' \subseteq packages \X Names
    BY <1>8, <2>1, <2>2 DEF Makepkg, Aliases, Old
  <2> QED
    BY <1>8, <2>3 DEF Makepkg, Goto, TypeOK
<1>9. CASE RepoAdd
  BY <1>9 DEF RepoAdd, Goto, Fetched, TypeOK
<1>10. CASE Sync
  BY <1>10 DEF Sync, Goto, Fetched, TypeOK
<1>11. CASE Store
  BY <1>11 DEF Store, Goto, Fetched, TypeOK
<1>12. CASE StoreFails
  BY <1>12 DEF StoreFails, Exit, Fetched, TypeOK
<1>13. ASSUME NEW n \in Names, Install(n) PROVE CIInv'
  BY <1>13 DEF Install, Goto, Fetched, TypeOK
<1>14. CASE Uninstall
  BY <1>14 DEF Uninstall, Goto, Fetched, TypeOK
<1>15. CASE CleanUp
  BY <1>15 DEF CleanUp, Goto, Fetched, TypeOK
<1>16. CASE AllBuilt
  BY <1>16 DEF AllBuilt, Exit, Fetched, TypeOK
<1>17. CASE Fail
  BY <1>17 DEF Fail, Exit, Fetched, TypeOK
<1>18. CASE UNCHANGED allVars
  BY <1>18 DEF allVars, ciVars, Fetched, TypeOK
<1> QED
  BY <1>1, <1>2, <1>3, <1>4, <1>5, <1>6, <1>7, <1>8, <1>9, <1>10, <1>11, <1>12, <1>13,
     <1>14, <1>15, <1>16, <1>17, <1>18 DEF CINext, Build, Done

\* The invariant holds throughout a build, on top of what holds of the order.
THEOREM CIInvariance == CISpec => []CIInv
<1>1. IInv => TypeOK
  BY DEF IInv
<1>2. CIInit => CIInv
  <2>1. CIInit => IInv
    BY InitInv DEF CIInit
  <2> QED
    BY <2>1, CIInitInv
<1>3. CIInv /\ TypeOK /\ TypeOK' /\ [CINext]_allVars => CIInv'
  BY CIInvStep
<1> QED
  BY <1>2, <1>3, OrderIsRun, OrderTypeCorrect, PTL DEF CISpec

\* Every variable of the script keeps its type: the loop goes over packages of
\* the change, in B is the recipe of its turn.
THEOREM BuildTypeCorrect == CISpec => []CITypeOK
<1>1. CIInv => CITypeOK
  BY DEF CIInv
<1> QED
  BY <1>1, CIInvariance, PTL

\* 101-103: whenever pacman may fetch a package, its database is the last one
\* of the local repository, and every package it lists is there.
THEOREM RepositoryServable == CISpec => []RepoServable
<1>1. CIInv => RepoServable
  BY DEF CIInv, RepoInv, CITypeOK, RepoServable
<1> QED
  BY <1>1, CIInvariance, PTL

\* 108, 142-144: what a turn installs is gone before the next one builds.
THEOREM TurnsClean == CISpec => []CleanSystem
<1>1. CIInv => CleanSystem
  BY DEF CIInv, CleanInv, CleanSystem
<1> QED
  BY <1>1, CIInvariance, PTL

-----------------------------------------------------------------------------
(* What is stored and what is installed follows the order.                 *)

\* The binaries of the first m packages of the order.
StoredTo(m) == {n \in Names : \E i \in 1 .. Len(ordered) : i <= m /\ n \in Aliases(ordered[i])}

\* How many turns have begun.
turn == Len(ordered) - Len(todo)

\* The list is what is left of the order, and package is what came before.
ListInv ==
  step \notin {"setup", "listing", "end"} =>
    /\ Len(todo) <= Len(ordered)
    /\ \A i \in 1 .. Len(todo) : todo[i] = ordered[turn + i]
    /\ step \in InTurn => turn >= 1 /\ package = ordered[turn]

\* Stored is what the turns so far have built.
StoredInv ==
  /\ step \in {"setup", "listing"} => artifacts = {}
  /\ step = "detected" => turn = 0
  /\ step \in {"detected", "loop", "install", "uninstall"} => artifacts = StoredTo(turn)
  /\ step \in {"copy", "makepkg", "repo-add", "sync", "store"} => artifacts = StoredTo(turn - 1)
  /\ step \in {"repo-add", "sync", "store", "install", "uninstall"} => out = Aliases(package)
  /\ step = "end" =>
       \E m \in Nat : StoredTo(m) \subseteq artifacts /\ artifacts \subseteq StoredTo(m + 1)
  /\ result = "success" => step = "end" /\ artifacts = StoredTo(Len(ordered))

\* The system's own packages among them have been upgraded.
UpgradedTo(m) ==
  \A i \in 1 .. Len(ordered) :
    i <= m /\ ordered[i] \notin DontInstall => Aliases(ordered[i]) \cap Base \subseteq upgraded
UpgradedInv ==
  /\ step \in {"detected", "loop"} => UpgradedTo(turn)
  /\ step \in InTurn => UpgradedTo(turn - 1)
  /\ step \in {"install", "uninstall"} /\ package \notin DontInstall =>
       (out \ pending) \cap Base \subseteq upgraded
  /\ step = "uninstall" /\ package \notin DontInstall =>
       {pkg} \cap Base \subseteq upgraded

BuildInv == ListInv /\ StoredInv /\ UpgradedInv /\ NoStaleDeps

-----------------------------------------------------------------------------
\* What is aliased to a package is a name.
LEMMA AliasNames == ASSUME TypeOK, NEW p \in packages PROVE Aliases(p) \subseteq Names
<1>1. p \in Packages
  BY DEF TypeOK
<1> QED
  BY <1>1, BuildOrderAssumption DEF TypeOK, Aliases

\* One more turn stores one more package.
LEMMA StoredNext ==
  ASSUME TypeOK, NEW m \in 1 .. Len(ordered)
  PROVE  StoredTo(m) = StoredTo(m - 1) \cup Aliases(ordered[m])
<1>1. ordered \in Seq(packages) /\ ordered[m] \in packages
  BY DEF TypeOK
<1>2. Aliases(ordered[m]) \subseteq Names
  BY <1>1, AliasNames
<1>3. \A i \in 1 .. Len(ordered) : i <= m <=> i <= m - 1 \/ i = m
  BY <1>1
<1> QED
  BY <1>2, <1>3 DEF StoredTo

\* What is stored depends on the program's variables only.
LEMMA SameOrder ==
  ASSUME UNCHANGED vars
  PROVE  /\ \A p : Aliases(p)' = Aliases(p)
         /\ \A m : StoredTo(m)' = StoredTo(m)
         /\ Distinct' = Distinct
BY DEF vars, Aliases, StoredTo, Distinct

\* Only reading the order and taking the next package change the list.
LEMMA ListStays ==
  ASSUME CIInv, ListInv, TypeOK, TypeOK', [CINext]_allVars
  PROVE  ListInv'
<1> USE DEF ListInv, vars, loopVars, TypeOK
<1>0. ASSUME UNCHANGED <<vars, todo, package>>, step \notin {"setup", "listing", "end"},
             step' \in InTurn => step \in InTurn
      PROVE  ListInv'
  BY <1>0 DEF turn, InTurn
<1>1. CASE step' \in {"listing", "end"}
  BY <1>1
<1>2. CASE ReadOrder
  <2>1. ordered' = ordered /\ step' = "detected" /\ ordered \in Seq(packages)
    BY <1>2 DEF ReadOrder, Goto
  <2>2. CASE todo' = ordered
    BY <2>1, <2>2 DEF turn, InTurn
  <2>3. CASE todo' = <<>>
    BY <2>1, <2>3 DEF turn, InTurn
  <2> QED
    BY <1>2, <2>2, <2>3 DEF ReadOrder
<1>3. CASE NextPackage
  <2>1. /\ todo \in Seq(packages) /\ todo # <<>> /\ todo' = Tail(todo) /\ package' = todo[1]
        /\ ordered' = ordered /\ step = "loop" /\ step' = "copy"
    BY <1>3 DEF NextPackage, Goto, CIInv, CITypeOK
  <2>2. /\ Len(todo) \in Nat /\ Len(todo) >= 1 /\ Len(todo') = Len(todo) - 1
        /\ \A i \in 1 .. Len(todo') : todo'[i] = todo[i + 1]
    BY <2>1
  <2>3. turn' = turn + 1 /\ turn \in Nat
    BY <2>1, <2>2 DEF turn
  <2> QED
    BY <2>1, <2>2, <2>3
<1>4. CASE AddRepository \/ CopyRecipe \/ Makepkg \/ RepoAdd \/ Sync \/ Store \/ Uninstall
  BY <1>0, <1>4 DEF AddRepository, CopyRecipe, Makepkg, RepoAdd, Sync, Store, Uninstall, Goto, InTurn
<1>5. ASSUME NEW n \in Names, Install(n) PROVE ListInv'
  BY <1>0, <1>5 DEF Install, Goto, InTurn
<1>6. CASE CleanUp
  BY <1>6 DEF CleanUp, Goto, InTurn, turn
<1>7. CASE UNCHANGED allVars
  BY <1>7 DEF allVars, ciVars, turn
<1> QED
  BY <1>1, <1>2, <1>3, <1>4, <1>5, <1>6, <1>7
     DEF CINext, Build, Done, Setup, Listing, NoChanges, StoreFails, AllBuilt, Fail, Goto, Exit, ciVars

\* Nothing is stored before the first turn, and nothing is taken back.
LEMMA StoredGrows ==
  ASSUME TypeOK
  PROVE  StoredTo(0) = {} /\ \A m \in Nat : StoredTo(m) \subseteq StoredTo(m + 1)
<1>1. Len(ordered) \in Nat
  BY DEF TypeOK
<1> QED
  BY <1>1 DEF StoredTo

\* The step of a turn in which stored grows is Store; it ends half-way at most.
LEMMA StoredStays ==
  ASSUME CIInv, ListInv, StoredInv, IInv, TypeOK', [CINext]_allVars
  PROVE  StoredInv'
<1>1. TypeOK /\ CITypeOK /\ Len(ordered) \in Nat /\ Len(todo) \in Nat
  BY DEF IInv, CIInv, CITypeOK, TypeOK
<1>2. step \notin {"setup", "listing", "end"} => turn \in Nat /\ turn <= Len(ordered)
  BY <1>1 DEF ListInv, turn
<1> USE DEF StoredInv
<1>3. ASSUME UNCHANGED <<vars, artifacts>>, step # "end", step' = "end",
             result' = "success" => artifacts = StoredTo(Len(ordered))
      PROVE  StoredInv'
  <2>1. \E m \in Nat : StoredTo(m) \subseteq artifacts /\ artifacts \subseteq StoredTo(m + 1)
    <3>1. CASE step \in {"setup", "listing"}
      BY <1>1, <3>1, StoredGrows
    <3>2. CASE step \in {"detected", "loop", "install", "uninstall"}
      BY <1>1, <1>2, <3>2, StoredGrows
    <3>3. CASE step \in {"copy", "makepkg", "repo-add", "sync", "store"}
      <4>1. turn - 1 \in Nat /\ artifacts = StoredTo(turn - 1)
        BY <1>2, <3>3 DEF ListInv, InTurn
      <4> QED
        BY <1>1, <4>1, StoredGrows
    <3> QED
      BY <1>1, <1>3, <3>1, <3>2, <3>3 DEF CITypeOK
  <2>2. ordered' = ordered
    BY <1>3 DEF vars
  <2> QED
    BY <1>3, <2>1, <2>2, SameOrder
<1>4. CASE Setup \/ Listing
  BY <1>4 DEF Setup, Listing, Goto, repoVars, ciVars
<1>5. CASE ReadOrder
  <2>1. turn' = 0
    BY <1>1, <1>5 DEF ReadOrder, turn, IInv, StackInv, vars
  <2>2. artifacts' = {} /\ step' = "detected" /\ result' = result
    BY <1>5 DEF ReadOrder, Goto, repoVars
  <2> QED
    BY <1>1, <1>5, <2>1, <2>2, StoredGrows, SameOrder DEF ReadOrder, Goto
<1>6. CASE NoChanges \/ AllBuilt
  <2>1. Len(todo) = 0 /\ turn = Len(ordered)
    BY <1>1, <1>6 DEF NoChanges, AllBuilt, turn
  <2> QED
    BY <1>3, <1>6, <2>1 DEF NoChanges, AllBuilt, Exit, repoVars
<1>7. CASE Fail
  BY <1>3, <1>7 DEF Fail, Exit, repoVars
<1>8. CASE StoreFails
  <2>1. /\ turn - 1 \in Nat /\ turn \in 1 .. Len(ordered)
        /\ artifacts = StoredTo(turn - 1) /\ out = Aliases(ordered[turn])
    BY <1>2, <1>8 DEF StoreFails, ListInv, InTurn
  <2>2. artifacts \subseteq artifacts' /\ artifacts' \subseteq artifacts \cup out
    BY <1>8 DEF StoreFails
  <2>3. StoredTo(turn - 1) \subseteq artifacts' /\ artifacts' \subseteq StoredTo((turn - 1) + 1)
    <3>1. (turn - 1) + 1 = turn
      BY <2>1
    <3> QED
      BY <1>1, <2>1, <2>2, <3>1, StoredNext
  <2> QED
    BY <1>8, <2>1, <2>3, SameOrder DEF StoreFails, Exit
<1>9. CASE NextPackage
  <2>1. turn' = turn + 1
    BY <1>1, <1>9 DEF NextPackage, CITypeOK, turn, vars
  <2>2. /\ step = "loop" /\ step' = "copy" /\ artifacts' = artifacts /\ result' = result
    BY <1>9 DEF NextPackage, Goto, repoVars
  <2>3. turn' - 1 = turn
    BY <1>2, <2>1, <2>2
  <2> QED
    BY <1>9, <2>2, <2>3, SameOrder DEF NextPackage
<1>11. CASE AddRepository \/ CopyRecipe \/ RepoAdd \/ Sync \/ Uninstall \/ CleanUp
  BY <1>11, SameOrder DEF AddRepository, CopyRecipe, RepoAdd, Sync, Uninstall, CleanUp, Goto,
     turn, vars, loopVars, repoVars
<1>12. ASSUME NEW n \in Names, Install(n) PROVE StoredInv'
  BY <1>12, SameOrder DEF Install, Goto, turn, vars, repoVars
<1>13. CASE Makepkg
  <2>1. out' = Aliases(package)
    BY <1>13 DEF Makepkg, Goto, CIInv, TurnInv, InTurn
  <2> QED
    BY <1>13, <2>1, SameOrder DEF Makepkg, Goto, turn, vars, repoVars
<1>14. CASE Store
  <2>1. turn \in 1 .. Len(ordered) /\ artifacts = StoredTo(turn - 1) /\ out = Aliases(ordered[turn])
    BY <1>2, <1>14 DEF Store, Goto, ListInv, InTurn
  <2>2. artifacts' = StoredTo(turn)
    BY <1>1, <1>14, <2>1, StoredNext DEF Store
  <2> QED
    BY <1>14, <2>2, SameOrder DEF Store, Goto, turn, vars
<1>15. CASE UNCHANGED allVars
  BY <1>15, SameOrder DEF allVars, ciVars, loopVars, repoVars, turn, vars
<1> QED
  BY <1>4, <1>5, <1>6, <1>7, <1>8, <1>9, <1>11, <1>12, <1>13, <1>14, <1>15
     DEF CINext, Build, Done

\* Installing upgrades; of what the system needs nothing is removed.
LEMMA UpgradedStays ==
  ASSUME CIInv, ListInv, StoredInv, UpgradedInv, IInv, TypeOK', [CINext]_allVars
  PROVE  UpgradedInv'
<1>1. TypeOK /\ CITypeOK /\ Len(ordered) \in Nat /\ Len(todo) \in Nat
  BY DEF IInv, CIInv, CITypeOK, TypeOK
<1>2. step \notin {"setup", "listing", "end"} => turn \in Nat /\ turn <= Len(ordered)
  BY <1>1 DEF ListInv, turn
<1>3. ASSUME UNCHANGED vars, NEW m, UpgradedTo(m), upgraded \cap Base \subseteq upgraded'
      PROVE  UpgradedTo(m)'
  BY <1>3, SameOrder DEF UpgradedTo, vars
<1> USE DEF UpgradedInv
<1>4. CASE Setup \/ Listing \/ NoChanges \/ AllBuilt \/ Fail \/ StoreFails
  BY <1>4 DEF Setup, Listing, NoChanges, AllBuilt, Fail, StoreFails, Goto, Exit, InTurn, ciVars
<1>5. CASE ReadOrder
  <2>1. turn' = 0
    BY <1>1, <1>5 DEF ReadOrder, turn, IInv, StackInv, vars
  <2>2. ordered' = ordered /\ step' = "detected"
    BY <1>5 DEF ReadOrder, Goto, vars
  <2> QED
    BY <1>1, <2>1, <2>2 DEF UpgradedTo, InTurn
<1>6. CASE NextPackage
  <2>1. turn' = turn + 1
    BY <1>1, <1>6 DEF NextPackage, CITypeOK, turn, vars
  <2>2. step = "loop" /\ step' = "copy" /\ UNCHANGED upgraded
    BY <1>6 DEF NextPackage, Goto
  <2>3. turn' - 1 = turn
    BY <1>2, <2>1, <2>2
  <2> QED
    BY <1>3, <1>6, <2>2, <2>3 DEF NextPackage
<1>7. CASE AddRepository \/ CopyRecipe \/ Makepkg \/ RepoAdd \/ Sync
  BY <1>3, <1>7 DEF AddRepository, CopyRecipe, Makepkg, RepoAdd, Sync, Goto, InTurn,
     turn, vars, loopVars
<1>8. CASE Store
  BY <1>3, <1>8 DEF Store, Goto, InTurn, turn, vars
<1>9. ASSUME NEW n \in Names, Install(n) PROVE UpgradedInv'
  <2>1. upgraded \subseteq upgraded' /\ (package \notin DontInstall => n \in upgraded')
    BY <1>9 DEF Install
  <2> QED
    BY <1>3, <1>9, <2>1 DEF Install, Goto, InTurn, turn, vars
<1>10. CASE Uninstall
  <2>1. upgraded \cap Base \subseteq upgraded'
    BY <1>10 DEF Uninstall
  <2> QED
    BY <1>3, <1>10, <2>1 DEF Uninstall, Goto, InTurn, turn, vars
<1>11. CASE CleanUp
  <2>1. /\ step = "install" /\ step' = "loop" /\ pending = {} /\ out = Aliases(package)
        /\ package = ordered[turn] /\ UNCHANGED <<vars, todo, upgraded>>
    BY <1>11 DEF CleanUp, Goto, StoredInv, ListInv, InTurn
  <2>2. turn' = turn
    BY <2>1 DEF turn, vars
  <2>3. UpgradedTo(turn)
    BY <1>2, <2>1 DEF UpgradedTo, InTurn
  <2> QED
    BY <1>3, <2>1, <2>2, <2>3 DEF InTurn
<1>12. CASE UNCHANGED allVars
  BY <1>3, <1>12 DEF allVars, ciVars, loopVars, turn, vars
<1> QED
  BY <1>4, <1>5, <1>6, <1>7, <1>8, <1>9, <1>10, <1>11, <1>12 DEF CINext, Build, Done

\* The package of a turn comes after those the table gives for its
\* dependencies, so that these are stored and entered when it is built.
LEMMA DepsStored ==
  ASSUME TypeOK, IInv, NEW k \in 1 .. Len(ordered), NEW n \in recipe.deps[ordered[k]],
         toadd[n] # NoPackage, <<ordered[k], toadd[n]>> \notin warned
  PROVE  /\ n \in StoredTo(k - 1)
         /\ \E j \in 1 .. Len(ordered) :
              j <= k - 1 /\ ordered[j] = toadd[n] /\ n \in Aliases(ordered[j])
<1>1. Len(ordered) \in Nat /\ ordered[k] \in Packages /\ n \in Names
  BY BuildOrderAssumption DEF TypeOK
<1>2. PICK j \in 1 .. (k - 1) : ordered[j] = toadd[n]
  BY DEF IInv, DepsFirst
<1>3. j \in 1 .. Len(ordered) /\ j <= k - 1
  BY <1>1, <1>2
<1>4. n \in Aliases(ordered[j])
  BY <1>1, <1>2 DEF IInv, AliasInv
<1> QED
  BY <1>1, <1>2, <1>3, <1>4 DEF StoredTo

\* Only makepkg meets old versions: of what the list keeps back.
LEMMA FreshStays ==
  ASSUME CIInv, BuildInv, IInv, TypeOK', [CINext]_allVars
  PROVE  NoStaleDeps'
<1>1. TypeOK /\ CITypeOK
  BY DEF IInv, CIInv
<1>2. CASE Makepkg
  <2>1. /\ step = "makepkg" /\ B[1] = package /\ turn \in 1 .. Len(ordered)
        /\ package = ordered[turn] /\ UNCHANGED vars /\ synced = repo
        /\ artifacts = StoredTo(turn - 1) /\ artifacts \subseteq repo /\ UpgradedTo(turn - 1)
    <3>1. step = "makepkg" /\ Len(ordered) \in Nat /\ Len(todo) \in Nat
      BY <1>1, <1>2 DEF Makepkg, Goto, CITypeOK, TypeOK
    <3> QED
      BY <1>1, <1>2, <3>1 DEF Makepkg, BuildInv, ListInv, StoredInv, UpgradedInv, InTurn, turn,
         CIInv, TurnInv, RepoInv, CITypeOK
  <2>2. ASSUME Distinct, NEW n \in Old(recipe.deps[package])
        PROVE  <<package, toadd[n]>> \in warned \/ (n \in Base /\ toadd[n] \in DontInstall)
    <3>1. /\ n \in recipe.deps[ordered[turn]] /\ toadd[n] # NoPackage
          /\ n \notin upgraded /\ n \notin synced \ Base
      BY <2>1, <2>2 DEF Old
    <3>2. ASSUME <<package, toadd[n]>> \notin warned
          PROVE  n \in Base /\ toadd[n] \in DontInstall
      <4>1. PICK j \in 1 .. Len(ordered) :
              j <= turn - 1 /\ ordered[j] = toadd[n] /\ n \in Aliases(ordered[j])
        BY <1>1, <2>1, <3>1, <3>2, DepsStored
      <4>2. n \in Base
        BY <1>1, <2>1, <3>1, <3>2, DepsStored
      <4> QED
        BY <2>1, <3>1, <4>1, <4>2 DEF UpgradedTo
    <3> QED
      BY <3>2
  <2>3. stale' = stale \cup {<<package, n>> : n \in Old(recipe.deps[package])}
    BY <1>2, <2>1 DEF Makepkg
  <2>4. Distinct' = Distinct /\ UNCHANGED <<toadd, warned>>
    BY <2>1, SameOrder DEF vars
  <2> QED
    BY <2>2, <2>3, <2>4 DEF BuildInv, NoStaleDeps
<1>3. CASE Listing
  <2>1. stale = {} /\ stale' = {}
    BY <1>3 DEF Listing, ciVars, CIInv, BeforeInv, Before
  <2> QED
    BY <2>1 DEF NoStaleDeps
<1>4. ASSUME UNCHANGED <<vars, stale>> PROVE NoStaleDeps'
  BY <1>4, SameOrder DEF BuildInv, NoStaleDeps, vars
<1>5. ASSUME NEW n \in Names, Install(n) PROVE NoStaleDeps'
  BY <1>4, <1>5 DEF Install
<1> QED
  BY <1>2, <1>3, <1>4, <1>5 DEF CINext, Build, Done, allVars, ciVars, Setup, ReadOrder, NoChanges,
     AddRepository, NextPackage, CopyRecipe, RepoAdd, Sync, Store, StoreFails, Uninstall,
     CleanUp, AllBuilt, Fail

\* The loop follows the order in every state.
THEOREM BuildInvariance == CISpec => []BuildInv
<1>1. CIInit => BuildInv
  BY DEF CIInit, Init, BuildInv, ListInv, StoredInv, UpgradedInv, NoStaleDeps, InTurn
<1>2. BuildInv /\ CIInv /\ IInv /\ IInv' /\ [CINext]_allVars => BuildInv'
  <2>1. IInv' => TypeOK'
    BY DEF IInv
  <2> QED
    BY <2>1, ListStays, StoredStays, UpgradedStays, FreshStays DEF BuildInv, IInv
<1> QED
  BY <1>1, <1>2, CIInvariance, OrderIsRun, Invariance, PTL DEF CISpec

\* 93-103: what a package is built against is the new version of what changed
\* along with it, whatever fails, unless a cycle or the list says otherwise.
THEOREM FreshDependencies == CISpec => []NoStaleDeps
<1>1. BuildInv => NoStaleDeps
  BY DEF BuildInv
<1> QED
  BY <1>1, BuildInvariance, PTL

\* 103: what is uploaded can be installed, wherever the script has stopped.
THEOREM UploadUsable == CISpec => []UploadClosed
<1>1. ASSUME IInv, CIInv, BuildInv PROVE UploadClosed
  <2>1. TypeOK /\ CITypeOK /\ Len(ordered) \in Nat /\ Len(todo) \in Nat
    BY <1>1 DEF IInv, CIInv, CITypeOK, TypeOK
  <2>2. PICK m \in Nat : StoredTo(m) \subseteq artifacts /\ artifacts \subseteq StoredTo(m + 1)
    <3> USE <1>1, <2>1, StoredGrows DEF BuildInv, StoredInv
    <3>1. CASE step \in {"setup", "listing"}
      BY <3>1
    <3>2. CASE step \in {"detected", "loop", "install", "uninstall"}
      <4>1. turn \in Nat
        BY <3>2 DEF ListInv, turn
      <4> QED
        BY <3>2, <4>1
    <3>3. CASE step \in {"copy", "makepkg", "repo-add", "sync", "store"}
      <4>1. turn - 1 \in Nat
        BY <3>3 DEF ListInv, turn, InTurn
      <4> QED
        BY <3>3, <4>1
    <3> QED
      BY <3>1, <3>2, <3>3 DEF CITypeOK
  <2>3. SUFFICES ASSUME Distinct, NEW p \in packages, Aliases(p) \cap artifacts # {},
                        NEW n \in recipe.deps[p], toadd[n] # NoPackage,
                        <<p, toadd[n]>> \notin warned
                 PROVE  n \in artifacts
    BY DEF UploadClosed
  <2>4. PICK i \in 1 .. Len(ordered) : i <= m + 1 /\ Aliases(p) \cap Aliases(ordered[i]) # {}
    BY <2>2, <2>3 DEF StoredTo
  <2>5. p = ordered[i]
    BY <2>1, <2>3, <2>4 DEF Distinct, TypeOK
  <2>6. PICK j \in 1 .. Len(ordered) :
          j <= i - 1 /\ ordered[j] = toadd[n] /\ n \in Aliases(ordered[j])
    BY <1>1, <2>1, <2>3, <2>5, DepsStored
  <2>7. j <= m /\ n \in Names
    BY <2>1, <2>3, <2>4, <2>6, AliasNames DEF TypeOK
  <2> QED
    BY <2>2, <2>6, <2>7 DEF StoredTo
<1> QED
  BY <1>1, BuildInvariance, CIInvariance, OrderIsRun, Invariance, PTL

\* 151-152: success is announced when everything that was listed is stored.
THEOREM SuccessIsComplete == CISpec => []SuccessMeansAll
<1>1. ASSUME IInv, BuildInv PROVE SuccessMeansAll
  <2>1. SUFFICES ASSUME result = "success"
                 PROVE  artifacts = UNION {Aliases(ordered[i]) : i \in 1 .. Len(ordered)}
    BY DEF SuccessMeansAll
  <2>2. artifacts = StoredTo(Len(ordered))
    BY <1>1, <2>1 DEF BuildInv, StoredInv
  <2>3. TypeOK /\ Len(ordered) \in Nat
    BY <1>1 DEF IInv, TypeOK
  <2>4. \A i \in 1 .. Len(ordered) : Aliases(ordered[i]) \subseteq Names
    BY <2>3, AliasNames DEF TypeOK
  <2> QED
    BY <2>2, <2>3, <2>4 DEF StoredTo
<1> QED
  BY <1>1, BuildInvariance, OrderIsRun, Invariance, PTL

-----------------------------------------------------------------------------
(* That the script comes to an end: how far it has still to go.            *)

TurnLeft ==
  CASE step = "copy" -> 6 [] step = "makepkg" -> 5 [] step = "repo-add" -> 4
    [] step = "sync" -> 3 [] step = "store" -> 2 [] step = "loop" -> 0
    [] OTHER -> 1

\* A binary is installed and removed again.
BinariesLeft == 2 * Cardinality(pending) + (IF step = "install" THEN 1 ELSE 0)

CIRank ==
  CASE step = "setup" -> <<7, 0, 0, 0>>
    [] step = "listing" -> <<3 + Rank[1], Rank[2], Rank[3], Rank[4]>>
    [] step = "detected" -> <<2, 0, 0, 0>>
    [] step = "end" -> <<0, 0, 0, 0>>
    [] OTHER -> <<1, Len(todo), TurnLeft, BinariesLeft>>

Looping == InTurn \cup {"loop"}

\* In the loop, the rank is made of numbers.
CIRankParts ==
  /\ Rank \in Ranks /\ Len(todo) \in Nat
  /\ IsFiniteSet(pending) /\ Cardinality(pending) \in Nat
  /\ step \in Looping =>
       CIRank = <<1, Len(todo), TurnLeft, BinariesLeft>>
       /\ TurnLeft \in Nat /\ BinariesLeft \in Nat

LEMMA CIRankPartsTyped == CIInv /\ TypeOK => CIRankParts
<1> SUFFICES ASSUME CIInv, TypeOK PROVE CIRankParts
  OBVIOUS
<1>1. Rank \in Ranks
  BY RankIsRank
<1>2. todo \in Seq(packages) /\ pending \subseteq Names
  BY DEF CIInv, CITypeOK
<1>3. IsFiniteSet(pending) /\ Cardinality(pending) \in Nat
  BY <1>2, FiniteNamesAssumption, FS_Subset, FS_CardinalityType
<1>4. TurnLeft \in Nat
  BY DEF TurnLeft
<1>5. BinariesLeft \in Nat
  BY <1>3 DEF BinariesLeft
<1>6. step \in Looping => CIRank = <<1, Len(todo), TurnLeft, BinariesLeft>>
  BY DEF Looping, InTurn, CIRank
<1>7. QED
  BY <1>1, <1>2, <1>3, <1>4, <1>5, <1>6 DEF CIRankParts

LEMMA CIRankPartsNext == CIInv' /\ TypeOK' => CIRankParts'
  BY CIRankPartsTyped, PTL

\* The four numbers of a rank.
LEMMA RankIs ==
  ASSUME NEW r \in Ranks
  PROVE  r[1] \in Nat /\ r[2] \in Nat /\ r[3] \in Nat /\ r[4] \in Nat
  BY DEF Ranks

LEMMA CIRankIsRank == CIInv /\ TypeOK => CIRank \in Ranks
<1> SUFFICES ASSUME CIInv, TypeOK PROVE CIRank \in Ranks
  OBVIOUS
<1>1. step \in {"setup", "listing", "detected", "end"} \cup Looping
  BY DEF CIInv, CITypeOK, Looping, InTurn
<1>2. CIRankParts
  BY CIRankPartsTyped
<1>3. CASE step = "listing"
  <2>1. /\ CIRank = <<3 + Rank[1], Rank[2], Rank[3], Rank[4]>>
        /\ Rank[1] \in Nat /\ Rank[2] \in Nat /\ Rank[3] \in Nat /\ Rank[4] \in Nat
    BY <1>2, <1>3, RankIs DEF CIRank, CIRankParts
  <2>2. 3 + Rank[1] \in Nat
    BY <2>1
  <2>3. QED
    BY <2>1, <2>2, RankTyped
<1>4. CASE step \in {"setup", "detected", "end"}
  BY <1>4, RankTyped DEF CIRank
<1>5. CASE step \in Looping
  BY <1>2, <1>5, RankTyped DEF CIRankParts
<1>6. QED
  BY <1>1, <1>3, <1>4, <1>5

\* The script ends, or its loop begins, or it comes to the loop.
LEMMA PartFalls ==
  ASSUME CIRankParts, CIRankParts',
         \/ step # "end" /\ step' = "end"
         \/ step = "setup" /\ step' = "listing"
         \/ step = "listing" /\ step' = "detected"
         \/ step = "detected" /\ step' = "loop",
         step \in {"setup", "listing", "detected", "end"} \cup Looping
  PROVE  Below(CIRank', CIRank)
<1>1. /\ Rank[1] \in Nat /\ Rank[2] \in Nat /\ Rank[3] \in Nat /\ Rank[4] \in Nat
  BY RankIs DEF CIRankParts
<1>2. \/ step = "setup" /\ CIRank = <<7, 0, 0, 0>>
      \/ step = "listing" /\ CIRank = <<3 + Rank[1], Rank[2], Rank[3], Rank[4]>>
      \/ step = "detected" /\ CIRank = <<2, 0, 0, 0>>
      \/ step = "end"
      \/ step \in Looping /\ CIRank = <<1, Len(todo), TurnLeft, BinariesLeft>>
  BY DEF CIRank, CIRankParts
<1>3. CASE step # "end" /\ step' = "end"
  <2>1. CIRank' = <<0, 0, 0, 0>>
    BY <1>3 DEF CIRank
  <2>2. CIRank[1] \in Nat /\ CIRank[1] > 0
    BY <1>1, <1>2, <1>3
  <2>3. QED
    BY <2>1, <2>2 DEF Below
<1>4. CASE step = "setup" /\ step' = "listing"
  <2>1. CIRank = <<7, 0, 0, 0>>
    BY <1>4 DEF CIRank
  <2>2. Rank'[1] \in 0 .. 3
    BY DEF Rank
  <2>3. CIRank'[1] = 3 + Rank'[1]
    BY <1>4 DEF CIRank
  <2>4. CIRank'[1] \in Nat /\ CIRank'[1] < 7
    BY <2>2, <2>3
  <2>5. QED
    BY <2>1, <2>4 DEF Below
<1>5. CASE step = "listing" /\ step' = "detected"
  <2>1. CIRank' = <<2, 0, 0, 0>>
    BY <1>5 DEF CIRank
  <2>2. CIRank[1] = 3 + Rank[1]
    BY <1>5 DEF CIRank
  <2>3. CIRank'[1] = 2 /\ 2 < CIRank[1]
    BY <1>1, <2>1, <2>2
  <2>4. QED
    BY <2>3 DEF Below
<1>6. CASE step = "detected" /\ step' = "loop"
  <2>1. CIRank = <<2, 0, 0, 0>> /\ CIRank'[1] = 1
    BY <1>6 DEF CIRank
  <2>2. QED
    BY <2>1 DEF Below
<1>7. QED
  BY <1>3, <1>4, <1>5, <1>6

LEMMA ListingFalls ==
  ASSUME CIRankParts, CIRankParts', IInv, TypeOK', Listing
  PROVE  Below(CIRank', CIRank)
<1>1. step = "listing" /\ step' = "listing"
  BY DEF Listing, ciVars
<1>2. Below(Rank', Rank)
  BY OrderFalls DEF Listing
<1>3. /\ CIRank = <<3 + Rank[1], Rank[2], Rank[3], Rank[4]>>
      /\ CIRank' = <<3 + Rank'[1], Rank'[2], Rank'[3], Rank'[4]>>
  BY <1>1 DEF CIRank
<1>4. /\ Rank[1] \in Nat /\ Rank[2] \in Nat /\ Rank[3] \in Nat /\ Rank[4] \in Nat
  BY RankIs DEF CIRankParts
<1>5. /\ Rank'[1] \in Nat /\ Rank'[2] \in Nat /\ Rank'[3] \in Nat /\ Rank'[4] \in Nat
  BY RankIs DEF CIRankParts
<1>6. QED
  BY <1>2, <1>3, <1>4, <1>5 DEF Below

\* From one step of a turn to the next; to a turn from the list of packages.
LEMMA TurnFalls ==
  ASSUME CIRankParts, CIRankParts', step \in Looping, step' \in Looping,
         \/ Len(todo') < Len(todo)
         \/ todo' = todo /\ TurnLeft' < TurnLeft
         \/ todo' = todo /\ TurnLeft' = TurnLeft /\ BinariesLeft' < BinariesLeft
  PROVE  Below(CIRank', CIRank)
<1>1. /\ CIRank = <<1, Len(todo), TurnLeft, BinariesLeft>>
      /\ Len(todo) \in Nat /\ TurnLeft \in Nat /\ BinariesLeft \in Nat
  BY DEF CIRankParts
<1>2. /\ CIRank' = <<1, Len(todo'), TurnLeft', BinariesLeft'>>
      /\ Len(todo') \in Nat /\ TurnLeft' \in Nat /\ BinariesLeft' \in Nat
  BY DEF CIRankParts
<1>3. QED
  BY <1>1, <1>2 DEF Below

LEMMA BuildFalls ==
  ASSUME CIInv, CIInv', IInv, TypeOK', Build
  PROVE  Below(CIRank', CIRank)
<1>1. CIRankParts /\ CIRankParts' /\ TypeOK
  BY CIRankPartsTyped, CIRankPartsNext DEF IInv
<1>2. step \in {"setup", "listing", "detected", "end"} \cup Looping
  BY DEF CIInv, CITypeOK, Looping, InTurn
<1>3. CASE Setup
  BY <1>1, <1>2, <1>3, PartFalls DEF Setup, Goto
<1>4. CASE Listing
  BY <1>1, <1>4, ListingFalls
<1>5. CASE ReadOrder \/ AddRepository
  BY <1>1, <1>2, <1>5, PartFalls DEF ReadOrder, AddRepository, Goto
<1>6. CASE NoChanges \/ StoreFails \/ AllBuilt \/ Fail
  BY <1>1, <1>2, <1>6, PartFalls DEF NoChanges, StoreFails, AllBuilt, Fail, Exit
<1>7. CASE NextPackage
  <2>1. /\ step \in Looping /\ step' \in Looping /\ todo # <<>> /\ todo' = Tail(todo)
        /\ todo \in Seq(packages)
    BY <1>7 DEF NextPackage, Goto, Looping, InTurn, CIInv, CITypeOK
  <2>2. Len(todo') < Len(todo)
    BY <2>1
  <2>3. QED
    BY <1>1, <2>1, <2>2, TurnFalls
<1>8. CASE CopyRecipe \/ Makepkg \/ RepoAdd \/ Sync \/ Store \/ CleanUp
  <2>1. step \in Looping /\ step' \in Looping /\ todo' = todo
    BY <1>8 DEF CopyRecipe, Makepkg, RepoAdd, Sync, Store, CleanUp, Goto, Looping, InTurn,
       loopVars
  <2>2. TurnLeft' < TurnLeft
    BY <1>8 DEF CopyRecipe, Makepkg, RepoAdd, Sync, Store, CleanUp, Goto, TurnLeft
  <2>3. QED
    BY <1>1, <2>1, <2>2, TurnFalls
<1>9. ASSUME NEW n \in Names, Install(n) PROVE Below(CIRank', CIRank)
  <2>1. /\ step = "install" /\ step' = "uninstall" /\ todo' = todo /\ pending' = pending
    BY <1>9 DEF Install, Goto
  <2>2. TurnLeft' = TurnLeft /\ BinariesLeft' < BinariesLeft
    BY <1>1, <2>1 DEF TurnLeft, BinariesLeft, CIRankParts
  <2>3. QED
    BY <1>1, <2>1, <2>2, TurnFalls DEF Looping, InTurn
<1>10. CASE Uninstall
  <2>1. /\ step = "uninstall" /\ step' = "install" /\ todo' = todo
        /\ pkg \in pending /\ pending' = pending \ {pkg}
    BY <1>10 DEF Uninstall, Goto, CIInv, TurnInv
  <2>2. Cardinality(pending') = Cardinality(pending) - 1
    BY <1>1, <2>1, FS_RemoveElement DEF CIRankParts
  <2>3. TurnLeft' = TurnLeft
    BY <2>1 DEF TurnLeft
  <2>4. BinariesLeft' < BinariesLeft
    BY <1>1, <2>1, <2>2 DEF BinariesLeft, CIRankParts
  <2>5. QED
    BY <1>1, <2>1, <2>3, <2>4, TurnFalls DEF Looping, InTurn
<1>11. QED
  BY <1>3, <1>4, <1>5, <1>6, <1>7, <1>8, <1>9, <1>10 DEF Build

\* Every step of the script lowers its rank.
BuildNears == [][Build => Below(CIRank', CIRank)]_allVars

\* .ci/ci-build.sh: each step brings a build nearer to its end, whatever fails
\* and however the order of the packages has come about.
THEOREM BuildComesNearer == CISpec => [](CIRank \in Ranks) /\ BuildNears
<1>1. CIInv /\ CIInv' /\ IInv /\ TypeOK' /\ [CINext]_allVars =>
        [Build => Below(CIRank', CIRank)]_allVars
  BY BuildFalls
<1>2. IInv => TypeOK
  BY DEF IInv
<1>3. QED
  BY <1>1, <1>2, CIInvariance, OrderIsRun, Invariance, CIRankIsRank, PTL
  DEF CISpec, BuildNears
=============================================================================
