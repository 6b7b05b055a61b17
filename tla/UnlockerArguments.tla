--------------------------- MODULE UnlockerArguments ---------------------------
(***************************************************************************)
(* msys2-unlocker/main.c: ParseArguments.  The command line is read twice: *)
(* the first pass takes the switches and adds up the room the full names   *)
(* of the files need, the second takes the switches again and stores the   *)
(* names behind one another in one allocation.                             *)
(*                                                                         *)
(* An argument is what the code makes of it: a switch, or a file with the  *)
(* lengths of the name given and of the full path _fullpath turns it into. *)
(***************************************************************************)
EXTENDS Naturals, Sequences, FiniteSets, FiniteSetsExt

CONSTANTS
  Args,       \* the arguments that may be given
  MaxArgs,    \* bound: length of the command line
  MaxFiles,   \* 32
  Actions     \* values of kAction, which may be left over on the stack

Modes == {"observe", "ask", "force"}
ArgRecords ==
  [kind : Modes \cup {"gui", "tui", "help", "query", "move", "file"},
   given : Nat, full : Nat, toolong : BOOLEAN]

ASSUME ArgsAssumption ==
  /\ Args \subseteq ArgRecords
  /\ MaxArgs \in Nat /\ MaxFiles \in Nat
  /\ {"unspecified", "help", "query", "unlocker"} \subseteq Actions

VARIABLES argv, pass, argi, result,
          action, unlock_mode, move_suffix, interface_style,
          num_filenames, num_filename_char, filename_chars, p_filenames

switchVars == <<action, unlock_mode, move_suffix, interface_style>>
fileVars == <<num_filenames, num_filename_char, filename_chars, p_filenames>>
vars == <<argv, pass, argi, result, action, unlock_mode, move_suffix,
          interface_style, num_filenames, num_filename_char, filename_chars,
          p_filenames>>

\* All that is no switch, --console and --debug of the help included.
IsFile(a) == a.kind = "file"

\* args->action is the only field that is not set before the first pass.
Init ==
  /\ argv \in UNION {[1 .. n -> Args] : n \in 0 .. MaxArgs}
  /\ pass = 1 /\ argi = 1 /\ result = "parsing"
  /\ action \in Actions
  /\ unlock_mode = "unknown" /\ move_suffix = FALSE
  /\ interface_style \in {{"tui"}, {"gui"}}     \* LaunchedFromConsole
  /\ num_filenames = 0 /\ num_filename_char = 0
  /\ filename_chars = 0 /\ p_filenames = <<>>

-----------------------------------------------------------------------------
Reading == result = "parsing" /\ argi <= Len(argv)
arg == argv[argi]
NextArg == argi' = argi + 1 /\ UNCHANGED <<argv, pass, result>>
Return(code) == result' = code /\ UNCHANGED <<argv, pass, argi>>

InterfaceSwitch ==
  /\ Reading /\ arg.kind \in {"gui", "tui"}
  /\ interface_style' = interface_style \cup {arg.kind}
  /\ NextArg
  /\ UNCHANGED <<action, unlock_mode, move_suffix, fileVars>>

\* Mistake: only the mode is kept.
ModeSwitchAlone ==
  /\ Reading /\ arg.kind \in Modes
  /\ unlock_mode' = arg.kind
  /\ NextArg
  /\ UNCHANGED <<action, move_suffix, interface_style, fileVars>>

ModeSwitch ==
  /\ Reading /\ arg.kind \in Modes
  /\ action' = "unlocker" /\ unlock_mode' = arg.kind
  /\ NextArg
  /\ UNCHANGED <<move_suffix, interface_style, fileVars>>

HelpSwitch ==
  /\ Reading /\ arg.kind = "help"
  /\ action' = "help"
  /\ Return("kSuccess")
  /\ UNCHANGED <<unlock_mode, move_suffix, interface_style, fileVars>>

QuerySwitch ==
  /\ Reading /\ arg.kind = "query"
  /\ action' = "query"
  /\ NextArg
  /\ UNCHANGED <<unlock_mode, move_suffix, interface_style, fileVars>>

\* The suffix is copied into an allocation of its own, once in each pass.
MoveSuffixSwitch ==
  /\ Reading /\ arg.kind = "move"
  /\ \/ move_suffix' = TRUE /\ NextArg
     \/ move_suffix' = FALSE /\ Return("kFailMalloc")
  /\ UNCHANGED <<action, unlock_mode, interface_style, fileVars>>

\* Mistake: the limit is checked before the count is increased.
CountFileLate ==
  /\ Reading /\ pass = 1 /\ IsFile(arg)
  /\ num_filenames' = num_filenames + 1
  /\ IF num_filenames > MaxFiles
       THEN Return("kUserTooManyFiles") /\ UNCHANGED num_filename_char
     ELSE IF arg.toolong
       THEN Return("kUserFilenameTooLong") /\ UNCHANGED num_filename_char
     ELSE num_filename_char' = num_filename_char + arg.full + 1 /\ NextArg
  /\ UNCHANGED <<switchVars, filename_chars, p_filenames>>

CountFile ==
  /\ Reading /\ pass = 1 /\ IsFile(arg)
  /\ num_filenames' = num_filenames + 1
  /\ IF num_filenames' > MaxFiles
       THEN Return("kUserTooManyFiles") /\ UNCHANGED num_filename_char
     ELSE IF arg.toolong
       THEN Return("kUserFilenameTooLong") /\ UNCHANGED num_filename_char
     ELSE num_filename_char' = num_filename_char + arg.full + 1 /\ NextArg
  /\ UNCHANGED <<switchVars, filename_chars, p_filenames>>

\* Mistake: room is left for the terminating NUL of the name only.
StoreFileTight ==
  /\ Reading /\ pass = 2 /\ IsFile(arg)
  /\ num_filenames' = num_filenames + 1
  /\ p_filenames' = [k \in 1 .. num_filenames' |->
       IF k = num_filenames' THEN [start |-> filename_chars, of |-> argi]
                             ELSE p_filenames[k]]
  /\ filename_chars' = filename_chars + arg.given
  /\ NextArg
  /\ UNCHANGED <<switchVars, num_filename_char>>

\* The full name is stored; the place of the next one is reckoned from the
\* length of the name that was given.
StoreFile ==
  /\ Reading /\ pass = 2 /\ IsFile(arg)
  /\ num_filenames' = num_filenames + 1
  /\ p_filenames' = [k \in 1 .. num_filenames' |->
       IF k = num_filenames' THEN [start |-> filename_chars, of |-> argi]
                             ELSE p_filenames[k]]
  /\ filename_chars' = filename_chars + arg.given + 1
  /\ NextArg
  /\ UNCHANGED <<switchVars, num_filename_char>>

\* Mistake: the second pass begins one argument late.
SecondPassLate ==
  /\ result = "parsing" /\ argi > Len(argv) /\ pass = 1
  /\ pass' = 2 /\ argi' = 2 /\ num_filenames' = 0 /\ filename_chars' = 0
  /\ UNCHANGED <<argv, result, switchVars, num_filename_char, p_filenames>>

SecondPass ==
  /\ result = "parsing" /\ argi > Len(argv) /\ pass = 1
  /\ \/ /\ pass' = 2 /\ argi' = 1 /\ num_filenames' = 0 /\ filename_chars' = 0
        /\ UNCHANGED <<argv, result>>
     \/ Return("kFailMalloc") /\ UNCHANGED <<num_filenames, filename_chars>>
  /\ UNCHANGED <<switchVars, num_filename_char, p_filenames>>

Finish ==
  /\ result = "parsing" /\ argi > Len(argv) /\ pass = 2
  /\ Return(IF num_filenames = 0 THEN "kUserNoFiles" ELSE "kSuccess")
  /\ UNCHANGED <<switchVars, fileVars>>

Returned == result # "parsing" /\ UNCHANGED vars

Parse ==
  \/ InterfaceSwitch \/ ModeSwitch \/ HelpSwitch \/ QuerySwitch
  \/ MoveSuffixSwitch \/ CountFile \/ StoreFile \/ SecondPass \/ Finish

Next == Parse \/ Returned

Spec == Init /\ [][Next]_vars

-----------------------------------------------------------------------------
(* What a command line means, said of the whole of it.                     *)

Before(n) == 1 .. (n - 1)
FilesIn(K) == {k \in K : IsFile(argv[k])}

\* Where reading stops: a call for help, or the first file that is one too
\* many or too long.
Stops == {k \in 1 .. Len(argv) :
            \/ argv[k].kind = "help"
            \/ IsFile(argv[k]) /\ (\/ argv[k].toolong
                                   \/ Cardinality(FilesIn(Before(k))) >= MaxFiles)}
Read == IF Stops = {} THEN 1 .. Len(argv) ELSE 1 .. Min(Stops)

Verdict ==
  IF Stops = {} THEN IF FilesIn(Read) = {} THEN "kUserNoFiles" ELSE "kSuccess"
  ELSE LET stop == argv[Min(Stops)] IN
       IF stop.kind = "help" THEN "kSuccess"
       ELSE IF Cardinality(FilesIn(Before(Min(Stops)))) >= MaxFiles
         THEN "kUserTooManyFiles" ELSE "kUserFilenameTooLong"

Parsed == result \notin {"parsing", "kFailMalloc"}

\* Reading twice, returning early and counting as it goes, the code comes to
\* the answer that the command line as a whole calls for.
AnswerAsMeant == Parsed => result = Verdict

\* The names stored do not run into one another and stay in the allocation.
NamesIntact ==
  result = "kSuccess" /\ Stops = {} =>
    \A k \in 1 .. num_filenames :
      LET end == p_filenames[k].start + argv[p_filenames[k].of].full + 1 IN
      end <= IF k < num_filenames THEN p_filenames[k + 1].start
                                  ELSE num_filename_char

GivenInFull ==
  \A k \in 1 .. Len(argv) : IsFile(argv[k]) => argv[k].given = argv[k].full

\* Files given by their full paths are stored whole: what the first pass has
\* reckoned is what the second one takes up, and no name overwrites the next.
\* (A name given shorter than it is stored does so: main.c:325-326.)
FullNamesIntact == GivenInFull => NamesIntact

\* Every field holds a value of its type.
TypeOK ==
  /\ pass \in {1, 2} /\ argi \in 1 .. Len(argv) + 1
  /\ result \in {"parsing", "kSuccess", "kUserNoFiles", "kUserTooManyFiles",
                 "kUserFilenameTooLong", "kFailMalloc"}
  /\ action \in Actions /\ unlock_mode \in Modes \cup {"unknown"}
  /\ move_suffix \in BOOLEAN /\ interface_style \in SUBSET {"tui", "gui"}
  /\ num_filenames \in 0 .. MaxFiles + 1
  /\ num_filename_char \in Nat /\ filename_chars \in Nat
  /\ Len(p_filenames) <= MaxFiles
=============================================================================
