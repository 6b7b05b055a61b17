------------------------- MODULE MCUnlockerArguments -------------------------
(* Command lines for UnlockerArguments.                                    *)
EXTENDS UnlockerArguments

Switch(kind) == [kind |-> kind, given |-> 0, full |-> 0, toolong |-> FALSE]
FileArg(kind, given, full) ==
  [kind |-> kind, given |-> given, full |-> full, toolong |-> FALSE]

\* Files given by their full paths, as the default arguments are, and one given
\* by a shorter, relative one.
MixedArgs ==
  {Switch(k) : k \in {"gui", "tui", "help", "query", "move", "ask"}}
    \cup {FileArg("file", 2, 2), FileArg("file", 3, 3), FileArg("file", 1, 4),
          [FileArg("file", 5, 5) EXCEPT !.toolong = TRUE]}

AllActions == {"unspecified", "help", "query", "unlocker"}
=============================================================================
