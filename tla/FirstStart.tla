------------------------------ MODULE FirstStart ------------------------------
(***************************************************************************)
(* filesystem/profile and the scripts of /etc/post-install: a login shell  *)
(* that finds no home directory takes the installation for new and sets it *)
(* up, sourcing one script after the other.  Several shells may start at   *)
(* the same time, of one user or of several, and any may be ended before   *)
(* it is through; nothing records how far one has got.                     *)
(***************************************************************************)
EXTENDS Integers, FiniteSets

CONSTANTS
  Shells,      \* login shells
  Homes,       \* what HOME may be
  Root,        \* "/"
  Fallback     \* the HOME of whoever can make none: "/tmp" or "/"

VARIABLES
  at,         \* where in its start a shell is; "ready" when it has said so,
              \* "prompt" when there was nothing to set up, "off"
  home,       \* HOME of a shell that sets up
  dirs,       \* home directories there are
  skeletons,  \* those that no file of /etc/skel is to be copied to any more
  keyring,    \* /etc/pacman.d/gnupg: what there is of it
  home_part,    \* history: whether a shell has "found" its home and the keyring
  keyring_part  \* there, has itself "done" all of its steps for it so far, or
                \* one of these has "failed"

filesVars == <<dirs, skeletons, keyring>>
startVars == <<at, home, filesVars, home_part, keyring_part>>

SetUp == {"home", "mkdir", "skeleton", "keyring", "init", "generate", "populate"}

InitStart ==
  /\ at = [s \in Shells |-> "off"] /\ home = [s \in Shells |-> Root]
  /\ dirs \in {D \in SUBSET Homes : {Root, Fallback} \subseteq D}
  /\ skeletons = dirs /\ keyring = "absent"
  /\ home_part = [s \in Shells |-> "found"] /\ keyring_part = [s \in Shells |-> "found"]

Go(s, where) == at' = [at EXCEPT ![s] = where]

HomeIs(s, part) ==
  home_part' = [home_part EXCEPT ![s] = part] /\ UNCHANGED keyring_part
KeyringIs(s, part) ==
  keyring_part' = [keyring_part EXCEPT ![s] = part] /\ UNCHANGED home_part

\* MAYBE_FIRST_START.  Devices, mtab and what is copied from Windows to /etc are
\* left out: each is looked for by itself and made up for at any set-up.  A
\* shell that exits because Windows has no such files ends before "keyring".
Login(s, h) ==
  /\ at[s] = "off"
  /\ IF h \notin dirs \/ h = Root
       THEN Go(s, "home") /\ home' = [home EXCEPT ![s] = h]
       ELSE Go(s, "prompt") /\ UNCHANGED home
  /\ UNCHANGED <<filesVars, home_part, keyring_part>>

\* The home directory may have been made since.
LookForHome(s) ==
  /\ at[s] = "home" /\ Go(s, IF home[s] \in dirs THEN "keyring" ELSE "mkdir")
  /\ UNCHANGED <<home, filesVars, home_part, keyring_part>>

\* mkdir -p, which a directory made by another shell does not disturb; where it
\* cannot be made the shell goes on with another HOME, one that is there.
MakeHome(s) ==
  /\ at[s] = "mkdir" /\ UNCHANGED <<skeletons, keyring>>
  /\ \/ /\ dirs' = dirs \cup {home[s]} /\ Go(s, "skeleton")
        /\ HomeIs(s, "done") /\ UNCHANGED home
     \/ /\ home[s] \notin dirs /\ home' = [home EXCEPT ![s] = Fallback] /\ Go(s, "keyring")
        /\ UNCHANGED <<dirs, home_part, keyring_part>>

\* The files that are there already stay as they are.
CopySkeleton(s) ==
  /\ at[s] = "skeleton" /\ Go(s, "keyring")
  /\ UNCHANGED <<home, dirs, keyring>>
  /\ \/ skeletons' = skeletons \cup {home[s]} /\ UNCHANGED <<home_part, keyring_part>>
     \/ UNCHANGED skeletons /\ HomeIs(s, "failed")

\* The guard asks for the directory.
LookForKeyring(s) ==
  /\ at[s] = "keyring"
  /\ Go(s, IF keyring = "absent" THEN "init" ELSE "ready")
  /\ UNCHANGED <<home, filesVars, home_part, keyring_part>>

\* Mistake: the keyring is made anew, whatever there is of it by now.
MakeAnew(s) ==
  /\ at[s] = "init" /\ UNCHANGED <<home, dirs, skeletons>>
  /\ \/ keyring' = "directory" /\ Go(s, "generate") /\ KeyringIs(s, "done")
     \/ Go(s, "populate") /\ UNCHANGED keyring /\ KeyringIs(s, "failed")

\* pacman-key --init makes the directory, and then the key to sign with.
MakeKeyring(s) ==
  /\ at[s] = "init" /\ UNCHANGED <<home, dirs, skeletons>>
  /\ \/ /\ keyring' = IF keyring = "absent" THEN "directory" ELSE keyring
        /\ Go(s, "generate") /\ KeyringIs(s, "done")
     \/ Go(s, "populate") /\ UNCHANGED keyring /\ KeyringIs(s, "failed")

GenerateKey(s) ==
  /\ at[s] = "generate" /\ Go(s, "populate")
  /\ UNCHANGED <<home, dirs, skeletons>>
  /\ \/ /\ keyring' = IF keyring = "directory" THEN "key" ELSE keyring
        /\ UNCHANGED <<home_part, keyring_part>>
     \/ UNCHANGED keyring /\ KeyringIs(s, "failed")

\* pacman-key --populate needs that key; its failure is of no consequence.
Populate(s) ==
  /\ at[s] = "populate" /\ Go(s, "ready")
  /\ UNCHANGED <<home, dirs, skeletons>>
  /\ \/ /\ keyring \in {"key", "trusted"} /\ keyring' = "trusted"
        /\ UNCHANGED <<home_part, keyring_part>>
     \/ UNCHANGED keyring /\ KeyringIs(s, "failed")

\* Shells are ended, or exit; what they were at is left as it is.
Ended(S) ==
  /\ at' = [s \in Shells |-> IF s \in S THEN "off" ELSE at[s]]
  /\ home' = [s \in Shells |-> IF s \in S THEN Root ELSE home[s]]
  /\ home_part' = [s \in Shells |-> IF s \in S THEN "found" ELSE home_part[s]]
  /\ keyring_part' = [s \in Shells |-> IF s \in S THEN "found" ELSE keyring_part[s]]
  /\ UNCHANGED filesVars

SetUpStep(s) ==
  \/ LookForHome(s) \/ MakeHome(s) \/ CopySkeleton(s)
  \/ LookForKeyring(s) \/ MakeKeyring(s) \/ GenerateKey(s) \/ Populate(s)

-----------------------------------------------------------------------------
StartTypeOK ==
  /\ at \in [Shells -> SetUp \cup {"off", "ready", "prompt"}]
  /\ home \in [Shells -> Homes]
  /\ {Root, Fallback} \subseteq dirs /\ dirs \subseteq Homes
  /\ skeletons \subseteq dirs
  /\ keyring \in {"absent", "directory", "key", "trusted"}
  /\ home_part \in [Shells -> {"found", "done", "failed"}]
  /\ keyring_part \in [Shells -> {"found", "done", "failed"}]

\* What a shell has set up itself, without a step of its own that failed, is
\* there when it is through, whatever other shells are at, have failed in or
\* have been ended in: two may make the same home or the keyring at one time.
DoneIsThere ==
  \A s \in Shells : at[s] = "ready" =>
    /\ home_part[s] = "done" => home[s] \in skeletons
    /\ keyring_part[s] = "done" => keyring = "trusted"

\* "Initial setup complete. MSYS2 is now ready to use.": unless a step of its
\* own has failed, the home of the shell that says so holds its files and the
\* keyring can be used.
ReadyWhenSaid ==
  \A s \in Shells :
    at[s] = "ready" /\ home_part[s] # "failed" /\ keyring_part[s] # "failed" =>
      home[s] \in skeletons /\ keyring = "trusted"
=============================================================================
