-------------------------- MODULE MCLockingProcesses --------------------------
(* Small process tables for LockingProcesses.                              *)
EXTENDS LockingProcesses

CONSTANTS p1, p2, p3

Process(path, mods, locks, access) ==
  [path |-> path, mods |-> mods, locks |-> locks, access |-> access]

\* Processes that can be looked into: one with and without the watched
\* module, one with more modules than the first attempt has room for.
OpenKinds == {Process("a", 1, TRUE, "ok"), Process("a", 1, FALSE, "ok"),
              Process("b", 2, TRUE, "ok")}

\* Processes that cannot: no access, a 64-bit one seen from a 32-bit program,
\* and one whose modules cannot be read at all.
ClosedKinds == {Process("b", 1, TRUE, "denied"), Process("b", 2, TRUE, "partial"),
                Process("b", 1, FALSE, "fails")}

MixedKinds == OpenKinds \cup ClosedKinds

MCPaths == {"", "a", "b"}
MCNameLen == [p \in MCPaths |-> IF p = "" THEN 1 ELSE 2]
=============================================================================
