---------------------------- MODULE Installation ----------------------------
(***************************************************************************)
(* An MSYS2 installation at work: login shells set it up when they find it *)
(* new (FirstStart), pacman upgrades it and ends all that runs in it       *)
(* (CoreUpdate), a shell at its set-up included, and nothing of a package  *)
(* is installed that the keyring does not vouch for.                       *)
(***************************************************************************)
EXTENDS CoreUpdate

CONSTANTS Homes, Root, Fallback   \* those of FirstStart

ASSUME HomeAssumption == {Root, Fallback} \subseteq Homes

VARIABLES at, home, dirs, skeletons, keyring, home_part, keyring_part

Start == INSTANCE FirstStart WITH Shells <- Others

startVars == <<at, home, dirs, skeletons, keyring, home_part, keyring_part>>
installationVars == <<coreVars, startVars>>

InitInstallation == InitCore /\ Start!InitStart

-----------------------------------------------------------------------------
ShellStarts(s, h) == StartOther(s) /\ Start!Login(s, h)

ShellSetsUp(s) == Start!SetUpStep(s) /\ UNCHANGED coreVars

\* Whatever ends without pacman: its terminal is closed, it is left or exits.
Ends(p) == End(p) /\ Start!Ended({p} \cap Others)

KillsAll(p, ended) == Taskkill(p, ended) /\ Start!Ended(ended \cap Others)

\* libalpm checks the signatures first.
InstallsTrusted(p, k) == keyring = "trusted" /\ Install(p, k)

PacmanStep(p) ==
  \/ \E targets \in SUBSET Packages : StartPacman(p, targets)
  \/ \E needed \in SUBSET Packages : Depend(p, needed)
  \/ \E k \in Packages : InstallsTrusted(p, k)
  \/ Executed(p) \/ TransactionFails(p)
  \/ CountEntries(p) \/ ListProcesses(p) \/ KillFails(p)

NextInstallation ==
  \/ \E s \in Others : ShellSetsUp(s) \/ \E h \in Homes : ShellStarts(s, h)
  \/ \E p \in Processes : Ends(p)
  \/ \E p \in Pacmans : \E ended \in SUBSET listed[p] : KillsAll(p, ended)
  \/ \E p \in Pacmans : PacmanStep(p) /\ UNCHANGED startVars
  \/ (RemoveLock \/ Release) /\ UNCHANGED startVars

InstallationSpec == InitInstallation /\ [][NextInstallation]_installationVars

-----------------------------------------------------------------------------
\* Both parts have their types, and a process that is a shell runs exactly when
\* it is somewhere in its start or behind it.
InstallationTypeOK ==
  /\ CoreTypeOK /\ Start!StartTypeOK
  /\ \A s \in Others : at[s] = "off" <=> s \notin Running

\* Also when pacman ends any of the shells and upgrades the files they come
\* from: what a shell has set up itself is there when it is through.
DoneIsThere == Start!DoneIsThere

\* "Initial setup complete. MSYS2 is now ready to use." (profile).
ReadyWhenSaid == Start!ReadyWhenSaid
=============================================================================
