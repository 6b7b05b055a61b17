--------------------------- MODULE MCInstallation ---------------------------
(* Two shells and two pacmans; all of a kind are alike.                    *)
EXTENDS Installation, TLC

CONSTANTS s1, s2, p1, p2

MCOthers == {s1, s2}
MCPacmans == {p1, p2}
Alike == Permutations(MCOthers) \cup Permutations(MCPacmans)
=============================================================================
