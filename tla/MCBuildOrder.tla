---------------------------- MODULE MCBuildOrder ----------------------------
(* Recipes for BuildOrder: two packages go by one name.                    *)
EXTENDS BuildOrder

CONSTANTS a, b, c, lib

\* b says that it provides what a is called, as uutils-coreutils does.
SharedNames ==
  [deps : {[p \in Packages |-> IF p = c THEN {a, b} ELSE {}]},
   provides : {[p \in Packages |-> IF p = b THEN {a} ELSE {}]}]
=============================================================================
