------------------------------- MODULE CIBuild -------------------------------
(***************************************************************************)
(* .ci/ci-build.sh: reads the order that ci-get-build-order.py prints      *)
(* (BuildOrder) and builds the packages one by one.  Each is built in a    *)
(* directory B, entered in a local repository that pacman prefers from     *)
(* then on, stored for upload, installed, looked at and removed again.     *)
(*                                                                         *)
(* An alias of a recipe stands for a binary package.  A version is "new"   *)
(* if this run has built it.                                               *)
(***************************************************************************)
EXTENDS BuildOrder

CONSTANTS
  Base,         \* names the build system itself needs: always installed
  DontInstall   \* ci-dont-install-list.txt

ASSUME CIBuildAssumption == Base \subseteq Names /\ DontInstall \subseteq Packages

VARIABLES
  step,       \* where ci-build.sh is
  result,     \* its exit status
  todo,       \* what is left of the array packages
  package,    \* the loop variable
  B,          \* recipes copied to B: the first is the directory itself
  out,        \* B/*.pkg.tar.*
  pending,    \* binaries the inner loop has still to look at
  pkg,        \* its loop variable
  repo,       \* artifacts/ci.db.tar.gz
  synced,     \* pacman's copy of it
  artifacts,  \* packages stored for upload
  upgraded,   \* names installed in their new version
  stale       \* history: pairs of a package and an old version it was built with

loopVars == <<todo, package, B, out, pending, pkg>>
repoVars == <<repo, synced, artifacts>>
ciVars == <<step, result, loopVars, repoVars, upgraded, stale>>
allVars == <<vars, ciVars>>

CIInit ==
  /\ Init
  /\ step = "setup" /\ result = "running"
  /\ todo = <<>> /\ package = NoPackage
  /\ B = <<>> /\ out = {} /\ pending = {} /\ pkg = NoPackage
  /\ repo = {} /\ synced = {} /\ artifacts = {}
  /\ upgraded = {} /\ stale = {}

-----------------------------------------------------------------------------
Goto(from, to) == step = from /\ step' = to /\ UNCHANGED result
Exit(status) == step' = "end" /\ result' = status

\* mkdir artifacts, the upstream remote, pacman -Fy.
Setup ==
  /\ Goto("setup", "listing")
  /\ UNCHANGED <<vars, loopVars, repoVars, upgraded, stale>>

\* The Python program runs.
Listing == step = "listing" /\ (Gather \/ Raise \/ Order) /\ UNCHANGED ciVars

\* readarray reads to the end of the output; how the program ended is lost in
\* the process substitution.
ReadOrder ==
  /\ Goto("listing", "detected")
  /\ phase \in {"printed", "raised"}
  /\ todo' = IF phase = "printed" THEN ordered ELSE <<>>
  /\ UNCHANGED <<vars, package, B, out, pending, pkg, repoVars, upgraded, stale>>

\* success 'No changes in package recipes'
NoChanges ==
  /\ step = "detected" /\ todo = <<>>
  /\ Exit("success")
  /\ UNCHANGED <<vars, loopVars, repoVars, upgraded, stale>>

\* An empty repository is put first in pacman.conf; git and python go.
AddRepository ==
  /\ todo # <<>> /\ Goto("detected", "loop")
  /\ repo' = {} /\ synced' = {}
  /\ UNCHANGED <<vars, loopVars, artifacts, upgraded, stale>>

-----------------------------------------------------------------------------
\* Mistake: the package stays in the list.
NextPackageAgain ==
  /\ todo # <<>> /\ Goto("loop", "copy")
  /\ package' = Head(todo)
  /\ UNCHANGED <<vars, todo, B, out, pending, pkg, repoVars, upgraded, stale>>

\* for package in packages: the cache is cleared and keys are fetched.
NextPackage ==
  /\ todo # <<>> /\ Goto("loop", "copy")
  /\ package' = Head(todo) /\ todo' = Tail(todo)
  /\ UNCHANGED <<vars, B, out, pending, pkg, repoVars, upgraded, stale>>

\* cp -r: into B, if there should be one.
CopyRecipe ==
  /\ Goto("copy", "makepkg")
  /\ B' = Append(B, package)
  /\ UNCHANGED <<vars, todo, package, out, pending, pkg, repoVars, upgraded, stale>>

\* What pacman has to fetch for a package, and whether it can.
Fetched(p) == recipe.deps[p] \ Base
CanFetch(N) == N \cap synced \subseteq artifacts
Old(N) == {n \in N : toadd[n] # NoPackage
                     /\ n \notin upgraded \cup (synced \ Base)}

\* makepkg --syncdeps --rmdeps in B
Makepkg ==
  /\ Goto("makepkg", "repo-add")
  /\ CanFetch(Fetched(B[1]))
  /\ out' = out \cup Aliases(B[1])
  /\ stale' = stale \cup {<<B[1], n>> : n \in Old(recipe.deps[B[1]])}
  /\ UNCHANGED <<vars, todo, package, B, pending, pkg, repoVars, upgraded>>

RepoAdd ==
  /\ Goto("repo-add", "sync")
  /\ repo' = repo \cup out
  /\ UNCHANGED <<vars, loopVars, synced, artifacts, upgraded, stale>>

\* Mistake: pacman is not told of the new packages.
SyncNothing ==
  /\ Goto("sync", "store")
  /\ UNCHANGED <<vars, loopVars, repoVars, upgraded, stale>>

\* pacman -Sy
Sync ==
  /\ Goto("sync", "store")
  /\ synced' = repo
  /\ UNCHANGED <<vars, loopVars, repo, artifacts, upgraded, stale>>

\* Mistake: only the package named like the directory is stored.
StoreMain ==
  /\ Goto("store", "install")
  /\ artifacts' = artifacts \cup {package}
  /\ pending' = out
  /\ UNCHANGED <<vars, todo, package, B, out, pkg, repo, synced, upgraded, stale>>

\* cp B/*.pkg.tar.* artifacts
Store ==
  /\ Goto("store", "install")
  /\ artifacts' = artifacts \cup out
  /\ pending' = out
  /\ UNCHANGED <<vars, todo, package, B, out, pkg, repo, synced, upgraded, stale>>

\* The copy ends half-way.
StoreFails ==
  /\ step = "store" /\ Exit("failure")
  /\ \E some \in SUBSET out : artifacts' = artifacts \cup some
  /\ UNCHANGED <<vars, loopVars, repo, synced, upgraded, stale>>

\* pacman --upgrade, with the dependencies that are missing.
Install(n) ==
  /\ n \in pending /\ Goto("install", "uninstall")
  /\ pkg' = n
  /\ IF package \in DontInstall THEN UNCHANGED upgraded
     ELSE /\ CanFetch(Fetched(package))
          /\ upgraded' = upgraded \cup {n} \cup (Fetched(package) \cap synced)
  /\ UNCHANGED <<vars, todo, package, B, out, pending, repoVars, stale>>

\* Mistake: the dependencies that came with the package are left.
UninstallFlat ==
  /\ Goto("uninstall", "install")
  /\ upgraded' = IF package \in DontInstall THEN upgraded
                 ELSE upgraded \ ({pkg} \ Base)
  /\ pending' = pending \ {pkg} /\ pkg' = NoPackage
  /\ UNCHANGED <<vars, todo, package, B, out, repoVars, stale>>

\* pacman -R --recursive --unneeded: the package and what came with it, but
\* nothing the system needs.
Uninstall ==
  /\ Goto("uninstall", "install")
  /\ upgraded' = IF package \in DontInstall THEN upgraded
                 ELSE upgraded \ (({pkg} \cup Fetched(package)) \ Base)
  /\ pending' = pending \ {pkg} /\ pkg' = NoPackage
  /\ UNCHANGED <<vars, todo, package, B, out, repoVars, stale>>

\* Mistake: B is left for the next package.
CleanUpNothing ==
  /\ pending = {} /\ Goto("install", "loop")
  /\ package' = NoPackage
  /\ UNCHANGED <<vars, todo, B, out, pending, pkg, repoVars, upgraded, stale>>

\* rm -rf B, unset package
CleanUp ==
  /\ pending = {} /\ Goto("install", "loop")
  /\ B' = <<>> /\ out' = {} /\ package' = NoPackage
  /\ UNCHANGED <<vars, todo, pending, pkg, repoVars, upgraded, stale>>

\* success 'All packages built successfully'
AllBuilt ==
  /\ step = "loop" /\ todo = <<>>
  /\ Exit("success")
  /\ UNCHANGED <<vars, loopVars, repoVars, upgraded, stale>>

\* Mistake: a package that fails is passed over.
FailOn ==
  /\ step \in {"makepkg", "repo-add"} /\ step' = "loop" /\ UNCHANGED result
  /\ B' = <<>> /\ out' = {}
  /\ UNCHANGED <<vars, todo, package, pending, pkg, repoVars, upgraded, stale>>

\* Any command of its own may fail: set -e, or failure(), ends the script.
Fail ==
  /\ step \notin {"listing", "end"} /\ Exit("failure")
  /\ step = "detected" => todo # <<>>
  /\ UNCHANGED <<vars, loopVars, repoVars, upgraded, stale>>

Build == \/ Setup \/ Listing \/ ReadOrder \/ NoChanges \/ AddRepository
         \/ NextPackage \/ CopyRecipe \/ Makepkg \/ RepoAdd \/ Sync
         \/ Store \/ StoreFails
         \/ (\E n \in Names : Install(n)) \/ Uninstall
         \/ CleanUp \/ AllBuilt \/ Fail
Done == step = "end" /\ UNCHANGED allVars

CINext == Build \/ Done
CISpec == CIInit /\ [][CINext]_allVars
CIFairSpec == CISpec /\ WF_allVars(Build)

-----------------------------------------------------------------------------
\* Every variable holds a value of its type, those of the Python program too.
CITypeOK ==
  /\ TypeOK
  /\ step \in {"setup", "listing", "detected", "loop", "copy", "makepkg",
               "repo-add", "sync", "store", "install", "uninstall", "end"}
  /\ result \in {"running", "success", "failure"}
  /\ todo \in Seq(packages) /\ package \in packages \cup {NoPackage}
  /\ B \in {<<>>, <<package>>}
  /\ out \subseteq Names /\ pending \subseteq out /\ pkg \in pending \cup {NoPackage}
  /\ repo \subseteq Names /\ synced \subseteq repo
  /\ artifacts \subseteq repo /\ upgraded \subseteq repo
  /\ stale \subseteq packages \X Names

\* Whenever pacman may fetch, it finds every package its database lists, and
\* the database is the repository's last one.
RepoServable ==
  step \in {"loop", "copy", "makepkg", "install", "uninstall"} =>
    synced = repo /\ synced \subseteq artifacts

\* No package built earlier is there when the next one is built, but for
\* those the system itself needs.
CleanSystem == step \in {"loop", "copy", "makepkg"} => upgraded \subseteq Base

\* A package is built with the new version of what changed along with it,
\* unless a cycle was reported or the list keeps that from being installed.
NoStaleDeps ==
  Distinct => \A w \in stale :
    \/ <<w[1], toadd[w[2]]>> \in warned
    \/ w[2] \in Base /\ toadd[w[2]] \in DontInstall

\* What is uploaded, after a failure too, needs no changed package that is
\* not uploaded, but for reported cycles.
UploadClosed ==
  Distinct => \A p \in packages : Aliases(p) \cap artifacts # {} =>
    \A n \in recipe.deps[p] :
      toadd[n] # NoPackage =>
        n \in artifacts \/ <<p, toadd[n]>> \in warned

\* Success after packages were listed means that all of them are stored.
SuccessMeansAll ==
  result = "success" /\ phase = "printed" =>
    artifacts = UNION {Aliases(ordered[i]) : i \in 1 .. Len(ordered)}

\* "Could not detect changed files" is a failure, not a success.
DetectionFailureReported == phase = "raised" => result # "success"

\* The script ends, provided that every command does.
BuildEnds == <>(step = "end")
=============================================================================
