------------------------------ MODULE MCCIBuild ------------------------------
(* Recipes for CIBuild: all graphs of three packages, one of them split.   *)
EXTENDS CIBuild

CONSTANTS a, b, c, lib

\* a package split off from b, which others depend on by its own name
Provides == [p \in Packages |-> IF p = b THEN {lib} ELSE {}]
OwnNames == [deps : [Packages -> {S \in SUBSET Names : Cardinality(S) <= 2}],
             provides : {Provides}]

\* a and b say that they provide lib.
SharedName == [deps : {[p \in Packages |-> IF p = c THEN {a, lib} ELSE {}]},
               provides : {[p \in Packages |-> IF p = c THEN {} ELSE {lib}]}]

Graphs == OwnNames \cup SharedName
=============================================================================
