----------------------------- MODULE MCUnlocker -----------------------------
(* The command lines of MCUnlockerArguments for the whole program.         *)
EXTENDS Unlocker, MCUnlockerArguments
=============================================================================
