-------------------------- MODULE MCExitProcessTree --------------------------
(* Instances for ExitProcessTree.                                          *)
EXTENDS ExitProcessTree

CONSTANTS m, x, z

\* z may be an MSYS process.
OneMsys == {[p \in Processes |-> IF p = z THEN k ELSE "win32"] :
             k \in {"win32", "leader", "member"}}

\* m alone, or with x; the parents of both have ended.  Of the ids, which all
\* are alike, m has the first one.
MaybeX ==
  {[pid |-> [p \in Processes |-> IF p = m THEN 1 ELSE NoPid],
    ppid |-> [p \in Processes |-> IF p = m THEN w ELSE NoPid]] : w \in {NoPid, 2}}
  \cup
  {[pid |-> [p \in Processes |-> CASE p = m -> 1 [] p = x -> 2 [] OTHER -> NoPid],
    ppid |-> [p \in Processes |-> CASE p = m -> w [] p = x -> v [] OTHER -> NoPid]] :
     w \in {NoPid, 2, 3}, v \in {NoPid, 1, 3}}
=============================================================================
