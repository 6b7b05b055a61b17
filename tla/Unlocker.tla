------------------------------- MODULE Unlocker -------------------------------
(***************************************************************************)
(* msys2-unlocker/main.c, main: the command line is read                   *)
(* (UnlockerArguments), the interface is started with what it says         *)
(* (SplashThread), and then main prints the help, or looks at the files    *)
(* given over and over (LockingProcesses) until there is nothing to        *)
(* replace any more.  The splash plays beside it.                          *)
(***************************************************************************)
EXTENDS UnlockerArguments

CONSTANT Frames     \* IDC_SPLASH_COUNT
ASSUME FramesAssumption == Frames \in Nat /\ Frames >= 2

VARIABLES
  main, status, waited, bitmaps, use_gui, use_tui, ui_thread_event,
  ui, h_splash_wnd, timer, queue, frame, done_donate, shown, donations,
  end         \* why main has returned

interfaceVars ==
  <<main, status, waited, bitmaps, use_gui, use_tui, ui_thread_event, ui,
    h_splash_wnd, timer, queue, frame, done_donate, shown, donations>>
unlockerVars == <<vars, interfaceVars, end>>

Interface == INSTANCE SplashThread

UnlockerInit == Init /\ Interface!Init /\ end = "none"

-----------------------------------------------------------------------------
ReadArguments == Parse /\ UNCHANGED <<interfaceVars, end>>

\* Without files, with too many, and when the parser fails otherwise.
RefuseArguments ==
  /\ result \notin {"parsing", "kSuccess"} /\ main = "init"
  /\ main' = "ended" /\ end' = "arguments"
  /\ UNCHANGED <<vars, status, waited, bitmaps, use_gui, use_tui,
                 ui_thread_event, ui, h_splash_wnd, timer, queue, frame,
                 done_donate, shown, donations>>

\* InterfaceStateInit; when it fails, CleanupAndExit.
StartInterface ==
  /\ result = "kSuccess" /\ Interface!Main
  /\ end' = IF main' = "ended" THEN "interface" ELSE end
  /\ UNCHANGED vars

\* The first that is looked at, whatever has been given besides.
HelpOnly == action = "help"

PrintHelp ==
  /\ HelpOnly /\ Interface!Return
  /\ end' = "help" /\ UNCHANGED vars

Watching == main = "running" /\ ~HelpOnly

\* UpdateState returns kSuccessNoReplacements, the one value that ends the
\* loop; kFailEnumProc is returned by nobody.
NothingToReplace ==
  /\ Watching /\ move_suffix /\ Interface!Return
  /\ end' = "replaced" /\ UNCHANGED vars

Watch == Watching /\ Interface!Scanning /\ UNCHANGED <<vars, end>>

Splash == Interface!Splash /\ UNCHANGED <<vars, end>>
TimerMessage == Interface!TimerMessage /\ UNCHANGED <<vars, end>>
Tick == Interface!Tick /\ UNCHANGED <<vars, end>>
Exited == Interface!Ended /\ UNCHANGED <<vars, end>>

MainThread ==
  ReadArguments \/ RefuseArguments \/ StartInterface \/ PrintHelp

UnlockerNext ==
  \/ MainThread \/ NothingToReplace \/ Watch
  \/ Splash \/ Tick \/ Exited

\* Both threads run on and timers come due; files may be replaced for ever.
UnlockerSpec ==
  /\ UnlockerInit /\ [][UnlockerNext]_unlockerVars
  /\ WF_unlockerVars(MainThread)
  /\ WF_unlockerVars(Splash) /\ WF_unlockerVars(TimerMessage)
  /\ WF_unlockerVars(Tick)

-----------------------------------------------------------------------------
UnlockerTypeOK ==
  /\ TypeOK /\ Interface!TypeOK
  /\ end \in {"none", "arguments", "interface", "help", "replaced"}
  /\ main = "ended" <=> end # "none"

\* From when it starts to look, main looks at the files that were given, at
\* least one, each once and in their order; that the parser was left early, or
\* in its first pass, never gets that far.  Given in full, their names are whole.
WatchedAsGiven ==
  Watching =>
    /\ Stops = {} /\ num_filenames >= 1
    /\ num_filenames = Cardinality(FilesIn(DOMAIN argv))
    /\ {p_filenames[k].of : k \in 1 .. num_filenames} = FilesIn(DOMAIN argv)
    /\ \A k \in 2 .. num_filenames : p_filenames[k - 1].of < p_filenames[k].of
    /\ FullNamesIntact

\* Switches that set args.action, which has no value of its own.
ActionSwitches == Modes \cup {"help", "query"}

\* The action main looks at is help alone; that --query and the modes were
\* given makes no difference to what it does then.  With --help it never goes on
\* to look at files, whatever is given besides, and without --help it prints the
\* help only if no switch has set args.action: then the value found on the stack
\* decides.
HelpAsAsked ==
  result = "kSuccess" /\ main \in {"running", "ended"} =>
    LET Given(kinds) == \E k \in DOMAIN argv : argv[k].kind \in kinds IN
    /\ Given({"help"}) => end \in {"none", "interface", "help"} /\ ~Watching
    /\ end = "help" => Given({"help"}) \/ ~Given(ActionSwitches)

\* The pictures are drawn one after the other: of those the loop has passed all
\* that could be decoded, and nothing else; the page is opened at most once, when
\* the last picture is due.
SplashInOrder == Interface!SplashInOrder /\ Interface!DrawnIsLoaded

\* The program comes through its start, whatever becomes of the thread.
StartEnds == <>(Watching \/ main = "ended")

\* A splash that has its window draws every picture there is, or the process
\* ends.
SplashPlays == Interface!SplashPlays
=============================================================================
