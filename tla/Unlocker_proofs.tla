--------------------------- MODULE Unlocker_proofs ---------------------------
(***************************************************************************)
(* Proofs about Unlocker, for any command line, any limit of files and any *)
(* number of frames.                                                       *)
(***************************************************************************)
EXTENDS Unlocker, Progress, FiniteSetTheorems, TLAPS

-----------------------------------------------------------------------------
(* The splash.                                                             *)

Visible == h_splash_wnd = "window"

\* Those of the first n pictures that can be drawn, once they are loaded.
Drawable(n) == {f \in 0 .. n - 1 : bitmaps[f] # "NULL"}

\* A window has all its pictures, only a window is drawn in, and what has been
\* drawn is all that can be of what lies before the frame that is due; donating
\* comes at the last.
PlayInv ==
  /\ main = "init" => h_splash_wnd = "unset" /\ ui = "none"
  /\ Visible => use_gui
  /\ use_gui => \A f \in 0 .. Frames - 1 : bitmaps[f] # "unset"
  /\ ui \in {"none", "init"} => h_splash_wnd = "unset"
  /\ main \in {"init", "start"} => ui = "none"
  /\ ~Visible => frame = 0
  /\ "WM_PAINT" \in queue => Visible
  /\ timer = "window" => h_splash_wnd \in {"window", "empty"}
  /\ ui_thread_event => ui \in {"timer", "loop"}
  /\ shown \subseteq Drawable(Frames)
  /\ frame < Frames - 1 => shown = Drawable(frame) /\ ~done_donate /\ donations = 0
  /\ frame = Frames - 1 => Drawable(frame) \subseteq shown /\ done_donate /\ donations = 1

SplashInv == Interface!TypeOK /\ PlayInv

LEMMA InitSplash == Interface!Init => SplashInv
<1> SUFFICES ASSUME Interface!Init PROVE SplashInv
  OBVIOUS
<1>1. /\ 0 \in 0 .. Frames - 1 /\ 0 # Frames - 1 /\ 0 .. 0 - 1 = {}
  BY FramesAssumption
<1>2. Interface!TypeOK
  BY <1>1 DEF Interface!Init, Interface!TypeOK
<1>3. frame = 0 /\ shown = Drawable(frame) /\ ~done_donate /\ donations = 0
  BY <1>1 DEF Interface!Init, Drawable
<1>4. PlayInv
  BY <1>1, <1>3 DEF Interface!Init, PlayInv, Visible, Drawable
<1>5. QED
  BY <1>2, <1>4 DEF SplashInv

LEMMA PaintInv ==
  ASSUME SplashInv, Interface!Paint, bitmaps' = bitmaps
  PROVE  /\ frame' \in 0 .. Frames - 1 /\ done_donate' \in BOOLEAN /\ donations' \in Nat
         /\ shown' \subseteq 0 .. Frames - 1 /\ (shown \subseteq Drawable(Frames))'
         /\ frame' < Frames - 1 => (shown = Drawable(frame))' /\ ~done_donate' /\ donations' = 0
         /\ frame' = Frames - 1 =>
              (Drawable(frame) \subseteq shown)' /\ done_donate' /\ donations' = 1
<1>1. /\ Frames \in Nat /\ Frames >= 2 /\ frame \in 0 .. Frames - 1 /\ done_donate \in BOOLEAN
      /\ donations \in Nat /\ shown \subseteq 0 .. Frames - 1 /\ shown \subseteq Drawable(Frames)
      /\ frame < Frames - 1 => shown = Drawable(frame) /\ ~done_donate /\ donations = 0
      /\ frame = Frames - 1 => Drawable(frame) \subseteq shown /\ done_donate /\ donations = 1
  BY FramesAssumption DEF SplashInv, Interface!TypeOK, PlayInv
<1>2. /\ shown' = shown \cup {f \in {frame} : bitmaps[f] # "NULL"}
      /\ frame' = IF frame < Frames - 1 THEN frame + 1 ELSE frame
      /\ done_donate' = (done_donate \/ frame' = Frames - 1)
      /\ donations' = donations + (IF done_donate' = done_donate THEN 0 ELSE 1)
  BY DEF Interface!Paint
<1>3. /\ \A n : Drawable(n)' = Drawable(n)
      /\ Drawable(frame + 1) = Drawable(frame) \cup {f \in {frame} : bitmaps[f] # "NULL"}
      /\ {f \in {frame} : bitmaps[f] # "NULL"} \subseteq Drawable(Frames)
  <2>1. /\ \A f : f \in 0 .. (frame + 1) - 1 <=> f \in 0 .. frame - 1 \/ f = frame
        /\ frame \in 0 .. Frames - 1
    BY <1>1
  <2>2. QED
    BY <2>1 DEF Drawable
<1>4. shown' \subseteq 0 .. Frames - 1 /\ (shown \subseteq Drawable(Frames))'
  <2>1. shown' \subseteq Drawable(Frames)
    BY <1>1, <1>2, <1>3
  <2>2. Drawable(Frames) \subseteq 0 .. Frames - 1
    BY DEF Drawable
  <2>3. QED
    BY <1>3, <2>1, <2>2
<1>5. CASE frame = Frames - 1
  <2>1. frame' = frame /\ done_donate' = TRUE /\ done_donate = TRUE
    BY <1>1, <1>2, <1>5
  <2>2. donations' = 1
    <3>1. donations = 1
      BY <1>1, <1>5
    <3>2. donations' = donations + 0
      BY <1>2, <2>1
    <3>3. QED
      BY <3>1, <3>2
  <2>3. (Drawable(frame) \subseteq shown)'
    BY <1>1, <1>2, <1>3, <1>5, <2>1
  <2>4. QED
    BY <1>1, <1>4, <1>5, <2>1, <2>2, <2>3
<1>6. CASE frame < Frames - 1
  <2>1. frame' = frame + 1 /\ (shown = Drawable(frame))'
    BY <1>1, <1>2, <1>3, <1>6
  <2>2. CASE frame' = Frames - 1
    <3>1. done_donate' = TRUE /\ done_donate = FALSE /\ donations = 0
      BY <1>1, <1>2, <1>6, <2>2
    <3>2. donations' = 1
      BY <1>2, <3>1
    <3>3. QED
      BY <1>1, <1>4, <2>1, <2>2, <3>1, <3>2
  <2>3. CASE frame' < Frames - 1
    BY <1>1, <1>2, <1>4, <1>6, <2>1, <2>3
  <2>4. QED
    BY <1>1, <1>6, <2>1, <2>2, <2>3
<1>7. QED
  BY <1>1, <1>5, <1>6

\* Each step of either thread keeps this, whatever the other is doing.
LEMMA SplashStep ==
  ASSUME SplashInv, interface_style' \in SUBSET {"tui", "gui"},
         \/ Interface!Main \/ Interface!Return \/ Interface!Splash \/ Interface!Tick
         \/ UNCHANGED interfaceVars
         \/ main' = "ended" /\ UNCHANGED <<status, waited, bitmaps, use_gui, use_tui, ui_thread_event,
              ui, h_splash_wnd, timer, queue, frame, done_donate, shown, donations>>
  PROVE  SplashInv'
<1> USE FramesAssumption
<1>1. CASE Interface!InterfaceInit
  <2>1. /\ main = "init" /\ main' = "start" /\ status' \in {"kSuccess", "kFailTuiNYI"}
        /\ use_tui' = FALSE
        /\ UNCHANGED <<waited, ui_thread_event, ui, h_splash_wnd, timer, queue, frame, done_donate, shown, donations>>
    BY <1>1 DEF Interface!InterfaceInit, Interface!windowVars
  <2>2. bitmaps' \in [0 .. Frames - 1 -> {"unset", "NULL", "image"}]
    BY <1>1 DEF Interface!InterfaceInit, Interface!Load, Interface!Loaded
  <2>3. use_gui' \in BOOLEAN /\ (use_gui' => \A f \in 0 .. Frames - 1 : bitmaps'[f] # "unset")
    <3>1. use_gui' = ("gui" \in interface_style /\ bitmaps' \in Interface!Loaded(Frames))
      BY <1>1 DEF Interface!InterfaceInit
    <3>2. \A f \in 0 .. Frames - 1 : ~(Frames <= f)
      OBVIOUS
    <3>3. QED
      BY <3>1, <3>2 DEF Interface!Loaded
  <2>4. ~Visible /\ frame = 0 /\ shown = {} /\ ~done_donate /\ donations = 0
    <3>1. ~Visible /\ frame = 0
      BY <2>1 DEF SplashInv, PlayInv, Visible, Drawable
    <3>2. 0 < Frames - 1 /\ 0 .. 0 - 1 = {}
      OBVIOUS
    <3>3. QED
      BY <3>1, <3>2 DEF SplashInv, PlayInv, Drawable
  <2>5. Interface!TypeOK'
    BY <2>1, <2>2, <2>3 DEF SplashInv, Interface!TypeOK
  <2>6. (shown \subseteq Drawable(Frames) /\ shown = Drawable(frame))' /\ frame' # Frames - 1
    <3>1. 0 .. 0 - 1 = {}
      OBVIOUS
    <3>2. QED
      BY <2>1, <2>4, <3>1 DEF Drawable
  <2>7. PlayInv'
    BY <2>1, <2>3, <2>4, <2>6 DEF SplashInv, PlayInv, Visible, Drawable
  <2>8. QED
    BY <2>5, <2>7 DEF SplashInv
<1>2. CASE Interface!BeginThread
  BY <1>2 DEF Interface!BeginThread, Interface!windowVars, Interface!stateVars,
     SplashInv, Interface!TypeOK, PlayInv, Visible, Drawable
<1>3. CASE Interface!WaitSignalled \/ Interface!WaitTimeout
  <2>1. /\ main = "wait" /\ main' \in {"running", "ended"}
        /\ ui_thread_event' \in BOOLEAN /\ (ui_thread_event' => ui_thread_event)
        /\ waited' \in {"signalled", "timeout"} /\ (waited' = "signalled" => ui_thread_event)
        /\ UNCHANGED <<status, bitmaps, use_gui, use_tui, ui, h_splash_wnd, timer, queue, frame,
                       done_donate, shown, donations>>
    <3>1. CASE Interface!WaitSignalled
      BY <3>1 DEF Interface!WaitSignalled, Interface!GoOn, Interface!windowVars, Interface!stateVars
    <3>2. CASE Interface!WaitTimeout
      BY <3>2 DEF Interface!WaitTimeout, Interface!GoOn, Interface!windowVars, Interface!stateVars,
         SplashInv, Interface!TypeOK
    <3>3. QED
      BY <1>3, <3>1, <3>2
  <2>2. Interface!TypeOK'
    BY <2>1 DEF SplashInv, Interface!TypeOK, PlayInv
  <2>3. PlayInv'
    BY <2>1 DEF SplashInv, PlayInv, Visible, Drawable
  <2>4. QED
    BY <2>2, <2>3 DEF SplashInv
<1>4. CASE Interface!Return
  BY <1>4 DEF Interface!Return, Interface!windowVars, Interface!stateVars,
     SplashInv, Interface!TypeOK, PlayInv, Visible, Drawable
<1>5. CASE Interface!SplashInit
  <2>1. /\ ui = "init" /\ ui' = "signal" /\ ~Visible
        /\ UNCHANGED <<main, status, waited, bitmaps, use_gui, use_tui, ui_thread_event, timer,
                       frame, done_donate, shown, donations>>
        /\ \A n : Drawable(n)' = Drawable(n)
    BY <1>5 DEF Interface!SplashInit, Interface!windowVars, Interface!stateVars,
       Interface!mainVars, SplashInv, PlayInv, Drawable, Visible
  <2>2. /\ h_splash_wnd' \in {"unset", "NULL", "empty", "window"}
        /\ queue' \subseteq queue \cup {"WM_PAINT"}
        /\ "WM_PAINT" \in queue' => Visible'
        /\ Visible' => use_gui
        /\ timer # "window"
        /\ main \notin {"init", "start"} /\ ~ui_thread_event
    BY <1>5, <2>1 DEF Interface!SplashInit, SplashInv, Interface!TypeOK, PlayInv, Visible
  <2>3. Interface!TypeOK'
    BY <2>1, <2>2 DEF SplashInv, Interface!TypeOK, PlayInv
  <2>4. PlayInv'
    BY <2>1, <2>2 DEF SplashInv, PlayInv
  <2>5. QED
    BY <2>3, <2>4 DEF SplashInv
<1>6. CASE Interface!SignalEvent
  BY <1>6 DEF Interface!SignalEvent, Interface!Alive, Interface!windowVars, Interface!stateVars,
     Interface!mainVars, SplashInv, Interface!TypeOK, PlayInv, Visible, Drawable
<1>7. CASE Interface!SetTimer
  <2>1. /\ timer' \in {"off", "thread", "window"}
        /\ timer' = "window" => h_splash_wnd \in {"window", "empty"}
    BY <1>7 DEF Interface!SetTimer, SplashInv, Interface!TypeOK, Visible
  <2>2. QED
    BY <1>7, <2>1 DEF Interface!SetTimer, Interface!Alive, Interface!windowVars, Interface!stateVars,
       Interface!mainVars, SplashInv, Interface!TypeOK, PlayInv, Visible, Drawable
<1>8. CASE \/ Interface!PaintMessage
           \/ Interface!TimerMessage /\ Visible /\ timer = "window"
  <2>1. Visible /\ Interface!Paint /\ Interface!Served /\ queue' \subseteq queue /\ ui = "loop"
    BY <1>8 DEF Interface!PaintMessage, Interface!TimerMessage, Interface!Serving, SplashInv, PlayInv, Visible, Drawable
  <2>2. Visible'
    BY <2>1 DEF Interface!Served, Visible
  <2>3. /\ UNCHANGED <<main, status, waited, bitmaps, use_gui, use_tui, ui_thread_event, ui, h_splash_wnd, timer>>
    BY <2>1 DEF Interface!Served, Interface!mainVars, Interface!stateVars
  <2>4. QED
    BY <2>1, <2>2, <2>3, PaintInv DEF SplashInv, Interface!TypeOK, PlayInv
<1>9. CASE \/ Interface!TimerMessage /\ ~(Visible /\ timer = "window")
           \/ Interface!Tick
  <2>1. /\ queue' \subseteq queue \cup {"WM_TIMER"}
        /\ UNCHANGED <<main, status, waited, bitmaps, use_gui, use_tui, ui_thread_event, ui, h_splash_wnd,
                       timer, frame, done_donate, shown, donations>>
    BY <1>9 DEF Interface!TimerMessage, Interface!Tick, Interface!Served, Interface!mainVars,
       Interface!stateVars, Interface!windowVars, Visible
  <2>2. Interface!TypeOK'
    BY <2>1 DEF SplashInv, Interface!TypeOK
  <2>3. PlayInv'
    BY <2>1 DEF SplashInv, PlayInv, Visible, Drawable
  <2>4. QED
    BY <2>2, <2>3 DEF SplashInv
<1>10. CASE UNCHANGED interfaceVars
  BY <1>10 DEF interfaceVars, SplashInv, Interface!TypeOK, PlayInv, Visible, Drawable
<1>11. CASE main' = "ended" /\ UNCHANGED <<status, waited, bitmaps, use_gui, use_tui, ui_thread_event,
              ui, h_splash_wnd, timer, queue, frame, done_donate, shown, donations>>
  BY <1>11 DEF SplashInv, Interface!TypeOK, PlayInv, Visible, Drawable
<1>12. QED
  BY <1>1, <1>2, <1>3, <1>4, <1>5, <1>6, <1>7, <1>8, <1>9, <1>10, <1>11 DEF Interface!Main, Interface!Splash

-----------------------------------------------------------------------------
(* The command line.                                                       *)

Files(n) == FilesIn(Before(n))      \* the files among the first n - 1
N == Len(argv)

Shape ==
  /\ \E n \in 0 .. MaxArgs : argv \in [1 .. n -> Args]
  /\ pass \in {1, 2} /\ argi \in 1 .. N + 1
  /\ result \in {"parsing", "kSuccess", "kUserNoFiles", "kUserTooManyFiles",
                 "kUserFilenameTooLong", "kFailMalloc"}
  /\ action \in Actions /\ unlock_mode \in Modes \cup {"unknown"}
  /\ move_suffix \in BOOLEAN /\ interface_style \in SUBSET {"tui", "gui"}
  /\ num_filename_char \in Nat /\ filename_chars \in Nat
  /\ num_filenames \in 0 .. MaxFiles + 1

\* Nothing read so far stops the reading, and the second pass comes only when
\* nothing does.
Passed ==
  /\ \A k \in 1 .. argi - 1 : k \notin Stops
  /\ pass = 2 => Stops = {} /\ Cardinality(Files(N + 1)) <= MaxFiles

\* The files are counted as they come, in either pass.
Counted ==
  result = "parsing" \/ pass = 2 =>
    num_filenames = Cardinality(Files(argi)) /\ num_filenames <= MaxFiles

\* The second pass has stored those it has read, in their order.
Stored ==
  /\ pass = 1 => p_filenames = <<>>
  /\ pass = 2 =>
       /\ IF num_filenames = 0 THEN p_filenames = <<>>
          ELSE p_filenames \in [1 .. num_filenames -> [start : Nat, of : Files(argi)]]
       /\ \A j \in Files(argi) : \E k \in 1 .. num_filenames : p_filenames[k].of = j
       /\ \A k \in 2 .. num_filenames : p_filenames[k - 1].of < p_filenames[k].of

\* A switch that has been read has set the action.
Acted ==
  result = "parsing" \/ pass = 2 =>
    \A k \in 1 .. argi - 1 :
      argv[k].kind \in Modes \cup {"query"} => action \in {"unlocker", "query"}

\* Why the parser has returned.
Answered ==
  /\ result = "kSuccess" =>
       \/ pass = 2 /\ argi = N + 1 /\ num_filenames >= 1
       \/ pass = 1 /\ argi \in Stops /\ argv[argi].kind = "help" /\ action = "help"
  /\ result = "kUserNoFiles" => pass = 2 /\ argi = N + 1 /\ num_filenames = 0
  /\ result = "kUserTooManyFiles" =>
       pass = 1 /\ argi \in Stops /\ IsFile(argv[argi]) /\ Cardinality(Files(argi)) >= MaxFiles
  /\ result = "kUserFilenameTooLong" =>
       /\ pass = 1 /\ argi \in Stops /\ IsFile(argv[argi]) /\ argv[argi].toolong
       /\ Cardinality(Files(argi)) < MaxFiles

ParserInv == Shape /\ Passed /\ Counted /\ Stored /\ Acted /\ Answered

LEMMA LineRead ==
  ASSUME Shape
  PROVE  /\ N \in Nat /\ DOMAIN argv = 1 .. N /\ argi \in Nat /\ argi >= 1
         /\ \A k \in 1 .. N : argv[k] \in Args /\ argv[k] \in ArgRecords
<1>1. PICK n \in 0 .. MaxArgs : argv \in [1 .. n -> Args]
  BY DEF Shape
<1>2. n \in Nat
  BY <1>1, ArgsAssumption
<1>3. Len(argv) = n
  BY <1>1, <1>2
<1>4. QED
  BY <1>1, <1>2, <1>3, ArgsAssumption DEF Shape, N

LEMMA FilesFinite ==
  ASSUME NEW n \in Nat
  PROVE  IsFiniteSet(Files(n)) /\ Cardinality(Files(n)) \in Nat /\ Files(n) \subseteq 1 .. n - 1
<1>1. IsFiniteSet(1 .. n - 1)
  BY FS_Interval
<1>2. Files(n) \subseteq 1 .. n - 1
  BY DEF Files, FilesIn, Before
<1>3. QED
  BY <1>1, <1>2, FS_Subset, FS_CardinalityType

LEMMA FilesNone == Files(1) = {} /\ Cardinality(Files(1)) = 0
<1>1. 1 .. 1 - 1 = {}
  OBVIOUS
<1>2. Files(1) = {}
  BY <1>1 DEF Files, FilesIn, Before
<1>3. QED
  BY <1>2, FS_EmptySet

LEMMA FilesNext ==
  ASSUME NEW n \in Nat, n >= 1
  PROVE  /\ IsFile(argv[n]) => /\ Files(n + 1) = Files(n) \cup {n}
                               /\ Cardinality(Files(n + 1)) = Cardinality(Files(n)) + 1
         /\ ~IsFile(argv[n]) => Files(n + 1) = Files(n)
<1>1. 1 .. (n + 1) - 1 = (1 .. n - 1) \cup {n} /\ n \notin 1 .. n - 1
  OBVIOUS
<1>2. IsFile(argv[n]) => Files(n + 1) = Files(n) \cup {n}
  BY <1>1 DEF Files, FilesIn, Before
<1>3. n \notin Files(n)
  BY <1>1, FilesFinite
<1>4. IsFile(argv[n]) => Cardinality(Files(n + 1)) = Cardinality(Files(n)) + 1
  BY <1>2, <1>3, FilesFinite, FS_AddElement
<1>5. ~IsFile(argv[n]) => Files(n + 1) = Files(n)
  BY <1>1 DEF Files, FilesIn, Before
<1>6. QED
  BY <1>2, <1>4, <1>5

LEMMA FilesGrow ==
  ASSUME NEW n \in Nat, NEW m \in Nat, n <= m
  PROVE  Cardinality(Files(n)) <= Cardinality(Files(m))
<1>1. 1 .. n - 1 \subseteq 1 .. m - 1
  OBVIOUS
<1>2. Files(n) \subseteq Files(m)
  BY <1>1 DEF Files, FilesIn, Before
<1>3. QED
  BY <1>2, FilesFinite, FS_Subset

LEMMA LineKept ==
  ASSUME argv' = argv
  PROVE  N' = N /\ Stops' = Stops /\ \A n : Files(n)' = Files(n)
  BY DEF N, Stops, Files, FilesIn, Before, IsFile

\* Reading on, past an argument that does not stop it.
LEMMA ReadOn ==
  ASSUME ParserInv, Reading, argi \notin Stops, NextArg
  PROVE  /\ argi \in 1 .. N /\ argi' = argi + 1 /\ argi' \in 1 .. N' + 1 /\ arg = argv[argi]
         /\ argv' = argv /\ pass' = pass /\ result' = result /\ result = "parsing"
         /\ Passed' /\ Answered'
         /\ Files(argi)' = Files(argi + 1)
<1>1. /\ argi \in 1 .. N /\ argi' = argi + 1 /\ arg = argv[argi] /\ N' = N /\ Stops' = Stops
      /\ argv' = argv /\ pass' = pass /\ result' = result /\ result = "parsing"
  BY LineRead, LineKept DEF ParserInv, Shape, Reading, NextArg, arg, N
<1>2. Files(argi)' = Files(argi + 1) /\ Files(N + 1)' = Files(N + 1)
  BY <1>1 DEF Files, FilesIn, Before, IsFile
<1>3. N \in Nat
  BY LineRead DEF ParserInv
<1>4. argi' \in 1 .. N' + 1
  BY <1>1, <1>3
<1>5. \A k \in 1 .. argi' - 1 : k = argi \/ k \in 1 .. argi - 1
  BY <1>1, <1>3
<1>6. Passed'
  BY <1>1, <1>2, <1>5 DEF ParserInv, Passed
<1>7. Answered'
  BY <1>1 DEF Answered
<1>8. QED
  BY <1>1, <1>2, <1>4, <1>6, <1>7

\* A switch that is read.
LEMMA SwitchRead ==
  ASSUME ParserInv, Reading, NextArg, UNCHANGED fileVars, ~IsFile(arg), arg.kind # "help",
         action' \in Actions, unlock_mode' \in Modes \cup {"unknown"}, move_suffix' \in BOOLEAN,
         interface_style' \in SUBSET {"tui", "gui"},
         action' = action \/ action' \in {"unlocker", "query"},
         arg.kind \in Modes \cup {"query"} => action' \in {"unlocker", "query"}
  PROVE  ParserInv'
<1>1. argi \notin Stops
  BY DEF Stops, arg
<1>2. /\ argi \in 1 .. N /\ argi' = argi + 1 /\ argi' \in 1 .. N' + 1 /\ arg = argv[argi]
      /\ argv' = argv /\ pass' = pass /\ result' = result /\ result = "parsing"
      /\ Passed' /\ Answered' /\ Files(argi)' = Files(argi + 1)
  BY <1>1, ReadOn
<1>3. Files(argi)' = Files(argi)
  <2>1. argi \in Nat /\ argi >= 1
    BY LineRead DEF ParserInv
  <2>2. QED
    BY <1>2, <2>1, FilesNext
<1>4. UNCHANGED <<num_filenames, num_filename_char, filename_chars, p_filenames>>
  BY DEF fileVars
<1>5. Shape'
  BY <1>2, <1>4 DEF ParserInv, Shape
<1>6. Counted' /\ Stored'
  BY <1>2, <1>3, <1>4 DEF ParserInv, Counted, Stored
<1>7. Acted'
  <2>1. \A k \in 1 .. argi' - 1 : k = argi \/ k \in 1 .. argi - 1
    BY <1>2
  <2>2. QED
    BY <1>2, <2>1 DEF ParserInv, Acted
<1>8. QED
  BY <1>2, <1>5, <1>6, <1>7 DEF ParserInv

LEMMA FileCounted ==
  ASSUME ParserInv, CountFile
  PROVE  ParserInv'
<1>1. /\ Reading /\ pass = 1 /\ IsFile(arg) /\ num_filenames' = num_filenames + 1
      /\ UNCHANGED <<action, unlock_mode, move_suffix, interface_style, filename_chars, p_filenames>>
      /\ result = "parsing" /\ arg = argv[argi]
  BY DEF CountFile, switchVars, Reading, arg
<1>2. /\ argi \in 1 .. N /\ argi \in Nat /\ argi >= 1 /\ N \in Nat /\ MaxFiles \in Nat
      /\ argv[argi] \in ArgRecords /\ DOMAIN argv = 1 .. N
  BY <1>1, LineRead, ArgsAssumption DEF ParserInv, Shape, Reading, N
<1>3. /\ num_filenames = Cardinality(Files(argi)) /\ num_filenames <= MaxFiles
      /\ num_filenames \in Nat /\ num_filename_char \in Nat
  BY <1>1, <1>2, FilesFinite DEF ParserInv, Counted, Shape
<1>4. argi \in Stops <=> num_filenames >= MaxFiles \/ arg.toolong
  BY <1>1, <1>2, <1>3 DEF Stops, Files, N, IsFile
<1>5. num_filenames' \in 0 .. MaxFiles + 1 /\ p_filenames = <<>>
  BY <1>1, <1>2, <1>3 DEF ParserInv, Stored
<1>6. ASSUME NEW code \in {"kUserTooManyFiles", "kUserFilenameTooLong"}, Return(code),
             UNCHANGED num_filename_char, argi \in Stops,
             code = "kUserTooManyFiles" => num_filenames >= MaxFiles,
             code = "kUserFilenameTooLong" => num_filenames < MaxFiles /\ arg.toolong
      PROVE  ParserInv'
  <2>1. /\ argv' = argv /\ pass' = pass /\ argi' = argi /\ result' = code /\ N' = N /\ Stops' = Stops
    BY <1>6, LineKept DEF Return
  <2>2. Files(argi)' = Files(argi) /\ Files(N + 1)' = Files(N + 1)
    BY <2>1 DEF Files, FilesIn, Before, IsFile
  <2>3. Shape'
    BY <1>1, <1>5, <1>6, <2>1 DEF ParserInv, Shape
  <2>4. Passed' /\ Counted' /\ Stored' /\ Acted'
    BY <1>1, <1>5, <1>6, <2>1, <2>2 DEF ParserInv, Passed, Counted, Stored, Acted
  <2>5. Answered'
    BY <1>1, <1>3, <1>6, <2>1, <2>2 DEF Answered, IsFile
  <2>6. QED
    BY <2>3, <2>4, <2>5 DEF ParserInv
<1>7. CASE num_filenames' > MaxFiles
  <2>1. num_filenames >= MaxFiles /\ Return("kUserTooManyFiles") /\ UNCHANGED num_filename_char
    BY <1>1, <1>2, <1>3, <1>7 DEF CountFile
  <2>2. QED
    BY <1>4, <1>6, <2>1
<1>8. CASE ~(num_filenames' > MaxFiles) /\ arg.toolong
  <2>1. num_filenames < MaxFiles /\ Return("kUserFilenameTooLong") /\ UNCHANGED num_filename_char
    BY <1>1, <1>2, <1>3, <1>8 DEF CountFile
  <2>2. QED
    BY <1>4, <1>6, <1>8, <2>1
<1>9. CASE ~(num_filenames' > MaxFiles) /\ ~arg.toolong
  <2>1. /\ NextArg /\ num_filename_char' = num_filename_char + arg.full + 1 /\ num_filenames < MaxFiles
    BY <1>1, <1>2, <1>3, <1>9 DEF CountFile
  <2>2. argi \notin Stops
    BY <1>2, <1>3, <1>4, <1>9, <2>1
  <2>3. /\ argi' = argi + 1 /\ argi' \in 1 .. N' + 1 /\ argv' = argv /\ pass' = pass /\ result' = result
        /\ Passed' /\ Answered' /\ Files(argi)' = Files(argi + 1)
    BY <1>1, <2>1, <2>2, ReadOn
  <2>4. Cardinality(Files(argi + 1)) = num_filenames'
    BY <1>1, <1>2, <1>3, FilesNext
  <2>5. num_filename_char' \in Nat
    <3>1. arg.full \in Nat
      BY <1>1, <1>2 DEF ArgRecords
    <3>2. QED
      BY <1>3, <2>1, <3>1
  <2>6. Shape'
    BY <1>1, <1>5, <2>3, <2>5 DEF ParserInv, Shape
  <2>7. Counted' /\ Stored'
    BY <1>1, <1>5, <1>9, <1>2, <1>3, <2>1, <2>3, <2>4 DEF Counted, Stored
  <2>8. Acted'
    <3>1. \A k \in 1 .. argi' - 1 : k = argi \/ k \in 1 .. argi - 1
      BY <1>2, <2>3
    <3>2. arg.kind \notin Modes \cup {"query"}
      BY <1>1 DEF IsFile, Modes
    <3>3. QED
      BY <1>1, <2>3, <3>1, <3>2 DEF ParserInv, Acted
  <2>9. QED
    BY <2>3, <2>6, <2>7, <2>8 DEF ParserInv
<1>10. QED
  BY <1>7, <1>8, <1>9

LEMMA FileStored ==
  ASSUME ParserInv, StoreFile
  PROVE  ParserInv'
<1>1. /\ Reading /\ pass = 2 /\ IsFile(arg) /\ num_filenames' = num_filenames + 1 /\ NextArg
      /\ UNCHANGED <<action, unlock_mode, move_suffix, interface_style, num_filename_char>>
      /\ filename_chars' = filename_chars + arg.given + 1
      /\ p_filenames' = [k \in 1 .. num_filenames' |->
           IF k = num_filenames' THEN [start |-> filename_chars, of |-> argi] ELSE p_filenames[k]]
      /\ Stops = {} /\ arg = argv[argi]
  BY DEF StoreFile, switchVars, ParserInv, Passed, arg
<1>2. /\ argi \in 1 .. N /\ argi' = argi + 1 /\ argi' \in 1 .. N' + 1
      /\ argv' = argv /\ pass' = pass /\ result' = result /\ result = "parsing"
      /\ Passed' /\ Answered' /\ Files(argi)' = Files(argi + 1)
  BY <1>1, ReadOn
<1>3. /\ argi \in Nat /\ argi >= 1 /\ N \in Nat /\ MaxFiles \in Nat /\ argv[argi] \in ArgRecords
  BY <1>2, LineRead, ArgsAssumption DEF ParserInv
<1>4. num_filenames = Cardinality(Files(argi)) /\ num_filenames \in Nat /\ filename_chars \in Nat
  BY <1>1, <1>3, FilesFinite DEF ParserInv, Counted, Shape
<1>5. Files(argi + 1) = Files(argi) \cup {argi} /\ Cardinality(Files(argi + 1)) = num_filenames'
  BY <1>1, <1>3, <1>4, FilesNext
<1>6. num_filenames' <= MaxFiles
  <2>1. Cardinality(Files(argi + 1)) <= Cardinality(Files(N + 1))
    BY <1>2, <1>3, FilesGrow
  <2>2. Cardinality(Files(N + 1)) <= MaxFiles /\ Cardinality(Files(N + 1)) \in Nat
    BY <1>1, <1>3, FilesFinite DEF ParserInv, Passed
  <2>3. QED
    BY <1>1, <1>3, <1>4, <1>5, <2>1, <2>2
<1>7. filename_chars' \in Nat
  <2>1. arg.given \in Nat
    BY <1>1, <1>3 DEF ArgRecords
  <2>2. QED
    BY <1>1, <1>4, <2>1
<1>8. Shape'
  BY <1>1, <1>2, <1>3, <1>4, <1>6, <1>7 DEF ParserInv, Shape
<1>9. Counted'
  BY <1>2, <1>5, <1>6 DEF Counted
<1>10. Stored'
  <2>1. /\ num_filenames' = num_filenames + 1 /\ num_filenames' # 0
        /\ \A k \in 1 .. num_filenames' : k = num_filenames' \/ (k \in 1 .. num_filenames /\ num_filenames # 0)
        /\ num_filenames' \in 1 .. num_filenames' /\ \A k \in 1 .. num_filenames : k \in 1 .. num_filenames'
        /\ \A k \in 1 .. num_filenames : k # num_filenames'
    BY <1>1, <1>4
  <2>2. /\ num_filenames # 0 => p_filenames \in [1 .. num_filenames -> [start : Nat, of : Files(argi)]]
        /\ \A j \in Files(argi) : \E k \in 1 .. num_filenames : p_filenames[k].of = j
        /\ \A k \in 2 .. num_filenames : p_filenames[k - 1].of < p_filenames[k].of
    BY <1>1 DEF ParserInv, Stored
  <2>3. \A k \in 1 .. num_filenames : p_filenames[k] \in [start : Nat, of : Files(argi)]
    BY <2>1, <2>2
  <2>4. /\ p_filenames'[num_filenames'] = [start |-> filename_chars, of |-> argi]
        /\ \A k \in 1 .. num_filenames : p_filenames'[k] = p_filenames[k]
    BY <1>1, <2>1
  <2>5. p_filenames' \in [1 .. num_filenames' -> [start : Nat, of : Files(argi + 1)]]
    <3>1. [start |-> filename_chars, of |-> argi] \in [start : Nat, of : Files(argi + 1)]
      BY <1>4, <1>5
    <3>2. \A k \in 1 .. num_filenames : p_filenames[k] \in [start : Nat, of : Files(argi + 1)]
      BY <1>5, <2>3
    <3>3. QED
      BY <1>1, <2>1, <3>1, <3>2
  <2>6. \A j \in Files(argi + 1) : \E k \in 1 .. num_filenames' : p_filenames'[k].of = j
    <3>1. p_filenames'[num_filenames'].of = argi
      BY <2>4
    <3>2. QED
      BY <1>5, <2>1, <2>2, <2>4, <3>1
  <2>7. \A k \in 2 .. num_filenames' : p_filenames'[k - 1].of < p_filenames'[k].of
    <3>1. ASSUME NEW k \in 2 .. num_filenames' PROVE p_filenames'[k - 1].of < p_filenames'[k].of
      <4>1. k - 1 \in 1 .. num_filenames
        BY <1>4, <2>1
      <4>2. CASE k = num_filenames'
        <5>1. p_filenames[k - 1].of \in Files(argi) /\ Files(argi) \subseteq 1 .. argi - 1
          BY <1>3, <2>3, <4>1, FilesFinite
        <5>2. p_filenames[k - 1].of < argi
          BY <1>3, <5>1
        <5>3. QED
          BY <2>4, <4>1, <4>2, <5>2
      <4>3. CASE k # num_filenames'
        <5>1. k \in 2 .. num_filenames /\ k \in 1 .. num_filenames
          BY <1>4, <2>1, <4>3
        <5>2. QED
          BY <2>2, <2>4, <4>1, <5>1
      <4>4. QED
        BY <4>2, <4>3
    <3>2. QED
      BY <3>1
  <2>8. QED
    <3>1. p_filenames' \in [1 .. num_filenames' -> [start : Nat, of : Files(argi)']]
      BY <1>2, <2>5
    <3>2. \A j \in Files(argi)' : \E k \in 1 .. num_filenames' : p_filenames'[k].of = j
      BY <1>2, <2>6
    <3>3. pass' = 2 /\ num_filenames' # 0
      BY <1>1, <1>2, <2>1
    <3>4. IF num_filenames' = 0 THEN p_filenames' = <<>>
          ELSE p_filenames' \in [1 .. num_filenames' -> [start : Nat, of : Files(argi)']]
      BY <3>1, <3>3
    <3>5. pass' = 1 => p_filenames' = <<>>
      BY <3>3
    <3>6. QED
      BY <2>7, <3>2, <3>4, <3>5, Zenon DEF Stored
<1>11. Acted'
  <2>1. \A k \in 1 .. argi' - 1 : k = argi \/ k \in 1 .. argi - 1
    BY <1>2, <1>3
  <2>2. arg.kind \notin Modes \cup {"query"}
    BY <1>1 DEF IsFile, Modes
  <2>3. QED
    BY <1>1, <1>2, <2>1, <2>2 DEF ParserInv, Acted
<1>12. QED
  BY <1>2, <1>8, <1>9, <1>10, <1>11 DEF ParserInv

LEMMA PassBegun ==
  ASSUME ParserInv, SecondPass
  PROVE  ParserInv'
<1>1. /\ result = "parsing" /\ argi = N + 1 /\ pass = 1 /\ argv' = argv /\ N \in Nat
      /\ UNCHANGED <<action, unlock_mode, move_suffix, interface_style, num_filename_char, p_filenames>>
      /\ p_filenames = <<>> /\ 0 \in 0 .. MaxFiles + 1 /\ MaxFiles \in Nat
  BY LineRead, ArgsAssumption DEF SecondPass, switchVars, Return, ParserInv, Shape, Stored, N
<1>2. Stops' = Stops /\ N' = N
  BY <1>1, LineKept
<1>3. CASE Return("kFailMalloc") /\ UNCHANGED <<num_filenames, filename_chars>>
  <2>1. argi' = argi /\ pass' = pass /\ result' = "kFailMalloc"
    BY <1>3 DEF Return
  <2>2. Files(argi)' = Files(argi)
    BY <1>1, <2>1 DEF Files, FilesIn, Before, IsFile
  <2>3. Shape' /\ Passed'
    BY <1>1, <1>2, <1>3, <2>1 DEF ParserInv, Shape, Passed
  <2>4. Counted' /\ Stored' /\ Acted' /\ Answered'
    BY <1>1, <1>2, <1>3, <2>1, <2>2 DEF ParserInv, Counted, Stored, Acted, Answered
  <2>5. QED
    BY <2>3, <2>4 DEF ParserInv
<1>4. CASE ~Return("kFailMalloc")
  <2>1. /\ pass' = 2 /\ argi' = 1 /\ num_filenames' = 0 /\ filename_chars' = 0 /\ result' = "parsing"
    BY <1>1, <1>4 DEF SecondPass
  <2>2. Stops = {}
    <3>1. Stops \subseteq 1 .. N
      BY DEF Stops, N
    <3>2. \A k \in 1 .. N : k \notin Stops
      BY <1>1 DEF ParserInv, Passed
    <3>3. QED
      BY <3>1, <3>2
  <2>3. Files(N + 1)' = Files(N + 1) /\ Cardinality(Files(N + 1)) <= MaxFiles
    <3>1. Files(N + 1)' = Files(N + 1)
      BY <1>1, <1>2 DEF Files, FilesIn, Before, IsFile
    <3>2. QED
      BY <1>1, <3>1 DEF ParserInv, Counted
  <2>4. Files(argi)' = {} /\ Cardinality(Files(argi))' = 0
    <3>1. Files(argi)' = Files(1)
      BY <1>1, <2>1 DEF Files, FilesIn, Before, IsFile
    <3>2. QED
      BY <3>1, FilesNone
  <2>5. 1 .. argi' - 1 = {}
    BY <2>1
  <2>6. Shape'
    BY <1>1, <1>2, <2>1 DEF ParserInv, Shape
  <2>7. Passed' /\ Counted' /\ Acted' /\ Answered'
    <3>1. Passed'
      BY <1>2, <2>2, <2>3, <2>5 DEF Passed
    <3>2. Counted'
      BY <1>1, <2>1, <2>4 DEF Counted
    <3>3. Acted' /\ Answered'
      BY <2>1, <2>5 DEF Acted, Answered
    <3>4. QED
      BY <3>1, <3>2, <3>3
  <2>8. Stored'
    <3>1. 2 .. num_filenames' = {} /\ p_filenames' = <<>>
      BY <1>1, <2>1
    <3>2. QED
      BY <2>1, <2>4, <3>1 DEF Stored
  <2>9. QED
    BY <2>6, <2>7, <2>8 DEF ParserInv
<1>5. QED
  BY <1>1, <1>3, <1>4 DEF SecondPass, Return

\* Reading ends without the arguments having been gone through, or with all.
LEMMA ParserReturns ==
  ASSUME ParserInv, NEW code, Return(code), result = "parsing",
         \/ code = "kSuccess" /\ Reading /\ arg.kind = "help" /\ action' = "help"
         \/ code = "kFailMalloc"
         \/ code = "kUserNoFiles" /\ argi > Len(argv) /\ pass = 2 /\ num_filenames = 0
         \/ code = "kSuccess" /\ argi > Len(argv) /\ pass = 2 /\ num_filenames # 0,
         UNCHANGED fileVars, action' = action \/ (action' = "help" /\ pass = 1),
         action' \in Actions, unlock_mode' = unlock_mode, move_suffix' \in BOOLEAN,
         interface_style' = interface_style
  PROVE  ParserInv'
<1>1. /\ argv' = argv /\ pass' = pass /\ argi' = argi /\ result' = code /\ N' = N /\ Stops' = Stops
      /\ UNCHANGED <<num_filenames, num_filename_char, filename_chars, p_filenames>>
  BY LineKept DEF Return, fileVars
<1>2. Files(argi)' = Files(argi) /\ Files(N + 1)' = Files(N + 1)
  BY <1>1 DEF Files, FilesIn, Before, IsFile
<1>3. N \in Nat /\ argi \in 1 .. N + 1 /\ num_filenames \in 0 .. MaxFiles + 1 /\ MaxFiles \in Nat
  BY LineRead, ArgsAssumption DEF ParserInv, Shape
<1>4. Shape'
  BY <1>1 DEF ParserInv, Shape
<1>5. Passed' /\ Counted' /\ Stored' /\ Acted'
  BY <1>1, <1>2 DEF ParserInv, Passed, Counted, Stored, Acted
<1>6. Answered'
  <2>1. CASE code = "kSuccess" /\ Reading /\ arg.kind = "help" /\ action' = "help"
    <3>1. argi \in Stops /\ argv[argi].kind = "help"
      BY <1>3, <2>1 DEF Stops, Reading, arg, N
    <3>2. pass = 1
      BY <3>1 DEF ParserInv, Passed, Shape
    <3>3. QED
      BY <1>1, <2>1, <3>1, <3>2 DEF Answered
  <2>2. CASE code = "kFailMalloc"
    BY <1>1, <2>2 DEF Answered
  <2>3. CASE argi > Len(argv) /\ pass = 2
    <3>1. argi = N + 1 /\ (num_filenames # 0 => num_filenames >= 1)
      BY <1>3, <2>3 DEF N
    <3>2. CASE code = "kUserNoFiles" /\ num_filenames = 0
      BY <1>1, <2>3, <3>1, <3>2 DEF Answered
    <3>3. CASE code = "kSuccess" /\ num_filenames # 0
      BY <1>1, <2>3, <3>1, <3>3 DEF Answered
    <3>4. CASE code = "kFailMalloc"
      BY <1>1, <3>4 DEF Answered
    <3>5. CASE code = "kSuccess" /\ Reading
      BY <1>3, <2>3, <3>5 DEF Reading, N
    <3>6. QED
      BY <3>2, <3>3, <3>4, <3>5
  <2>4. QED
    BY <2>1, <2>2, <2>3
<1>7. QED
  BY <1>4, <1>5, <1>6 DEF ParserInv

LEMMA ParserStep ==
  ASSUME ParserInv, Parse
  PROVE  ParserInv'
<1>1. /\ action \in Actions /\ unlock_mode \in Modes \cup {"unknown"} /\ move_suffix \in BOOLEAN
      /\ interface_style \in SUBSET {"tui", "gui"} /\ {"help", "query", "unlocker"} \subseteq Actions
  BY ArgsAssumption DEF ParserInv, Shape
<1>2. CASE InterfaceSwitch
  BY <1>1, <1>2, SwitchRead DEF InterfaceSwitch, IsFile, Modes
<1>3. CASE ModeSwitch
  BY <1>1, <1>3, SwitchRead DEF ModeSwitch, IsFile, Modes
<1>4. CASE QuerySwitch
  BY <1>1, <1>4, SwitchRead DEF QuerySwitch, IsFile, Modes
<1>5. CASE HelpSwitch
  <2>1. pass = 1
    <3>1. argi \in Stops
      BY <1>5, LineRead DEF HelpSwitch, Stops, Reading, arg, ParserInv, N
    <3>2. QED
      BY <3>1 DEF ParserInv, Passed, Shape
  <2>2. QED
    BY <1>1, <1>5, <2>1, ParserReturns DEF HelpSwitch, Reading
<1>6. CASE MoveSuffixSwitch
  <2>1. CASE NextArg /\ move_suffix' = TRUE
    BY <1>1, <1>6, <2>1, SwitchRead DEF MoveSuffixSwitch, IsFile, Modes
  <2>2. CASE Return("kFailMalloc") /\ move_suffix' = FALSE
    BY <1>1, <1>6, <2>2, ParserReturns DEF MoveSuffixSwitch, Reading
  <2>3. QED
    BY <1>6, <2>1, <2>2 DEF MoveSuffixSwitch
<1>7. CASE Finish
  <2>1. CASE num_filenames = 0
    BY <1>1, <1>7, <2>1, ParserReturns DEF Finish, switchVars
  <2>2. CASE num_filenames # 0
    BY <1>1, <1>7, <2>2, ParserReturns DEF Finish, switchVars
  <2>3. QED
    BY <2>1, <2>2
<1>8. QED
  BY <1>2, <1>3, <1>4, <1>5, <1>6, <1>7, FileCounted, FileStored, PassBegun DEF Parse

LEMMA InitParser == Init => ParserInv
<1> SUFFICES ASSUME Init PROVE ParserInv
  OBVIOUS
<1>1. PICK n \in 0 .. MaxArgs : argv \in [1 .. n -> Args]
  BY DEF Init
<1>2. n \in Nat /\ MaxFiles \in Nat
  BY <1>1, ArgsAssumption
<1>3. Len(argv) = n
  BY <1>1, <1>2
<1>4. Shape
  <2>1. 1 \in 1 .. N + 1 /\ 0 \in 0 .. MaxFiles + 1
    BY <1>2, <1>3 DEF N
  <2>2. QED
    BY <1>1, <2>1 DEF Init, Shape
<1>5. 1 .. argi - 1 = {} /\ Files(argi) = {} /\ Cardinality(Files(argi)) = 0
  BY FilesNone DEF Init
<1>6. Passed /\ Counted /\ Stored /\ Acted /\ Answered
  BY <1>2, <1>5 DEF Init, Passed, Counted, Stored, Acted, Answered
<1>7. QED
  BY <1>4, <1>6 DEF ParserInv

-----------------------------------------------------------------------------
(* The room for the names.                                                 *)

Room(a) == IF IsFile(a) THEN a.full + 1 ELSE 0
End(k) == p_filenames[k].start + argv[p_filenames[k].of].full + 1

\* The room the first arguments take, summed up to each of the first n.
Sums(n) == {f \in [0 .. n -> Nat] :
              f[0] = 0 /\ \A k \in 1 .. n : f[k] = f[k - 1] + Room(argv[k])}

\* The first pass sums up the room.
Summed ==
  pass = 1 /\ result = "parsing" => \E f \in Sums(argi - 1) : num_filename_char = f[argi - 1]

\* The second fills as much of it as the first had seen by then.
Filled ==
  pass = 2 => \E f \in Sums(N) : /\ num_filename_char = f[N]
                                 /\ GivenInFull => filename_chars = f[argi - 1]

\* Each name ends where the next begins.
Packed ==
  pass = 2 /\ GivenInFull =>
    \A k \in 1 .. num_filenames :
      End(k) = IF k < num_filenames THEN p_filenames[k + 1].start ELSE filename_chars

RoomInv == Summed /\ Filled /\ Packed

LEMMA SumsKept ==
  ASSUME argv' = argv
  PROVE  (GivenInFull' <=> GivenInFull) /\ \A n : Sums(n)' = Sums(n)
<1>1. GivenInFull' <=> GivenInFull
  BY DEF GivenInFull, IsFile
<1>2. ASSUME NEW n PROVE Sums(n)' = Sums(n)
  BY DEF Sums, Room, IsFile
<1>3. QED
  BY <1>1, <1>2

LEMMA SumsNext ==
  ASSUME NEW n \in Nat, NEW f \in Sums(n), Room(argv[n + 1]) \in Nat
  PROVE  \E g \in Sums(n + 1) : g[n + 1] = f[n] + Room(argv[n + 1])
<1> DEFINE g == [k \in 0 .. n + 1 |-> IF k = n + 1 THEN f[n] + Room(argv[n + 1]) ELSE f[k]]
<1>1. /\ f \in [0 .. n -> Nat] /\ f[0] = 0
      /\ \A k \in 1 .. n : f[k] = f[k - 1] + Room(argv[k])
  BY DEF Sums
<1>2. n \in 0 .. n /\ 0 \in 0 .. n + 1 /\ n + 1 \in 0 .. n + 1 /\ 0 # n + 1
  OBVIOUS
<1>3. \A k \in 0 .. n + 1 : k = n + 1 \/ k \in 0 .. n
  OBVIOUS
<1>4. f[n] + Room(argv[n + 1]) \in Nat
  BY <1>1, <1>2
<1>5. g \in [0 .. n + 1 -> Nat] /\ g[0] = 0
  BY <1>1, <1>2, <1>3, <1>4
<1>6. \A k \in 1 .. n + 1 : g[k] = g[k - 1] + Room(argv[k])
  <2>1. ASSUME NEW k \in 1 .. n + 1 PROVE g[k] = g[k - 1] + Room(argv[k])
    <3>1. k \in 0 .. n + 1 /\ k - 1 \in 0 .. n + 1 /\ k - 1 # n + 1
      OBVIOUS
    <3>2. g[k - 1] = f[k - 1]
      BY <3>1
    <3>3. CASE k = n + 1
      <4>1. g[k] = f[n] + Room(argv[n + 1]) /\ k - 1 = n
        BY <3>1, <3>3
      <4>2. QED
        BY <3>2, <3>3, <4>1
    <3>4. CASE k # n + 1
      <4>1. k \in 1 .. n
        BY <3>4
      <4>2. g[k] = f[k]
        BY <3>1, <3>4
      <4>3. QED
        BY <1>1, <3>2, <4>1, <4>2
    <3>5. QED
      BY <3>3, <3>4
  <2>2. QED
    BY <2>1
<1>7. g[n + 1] = f[n] + Room(argv[n + 1])
  BY <1>2
<1> HIDE DEF g
<1>8. QED
  BY <1>5, <1>6, <1>7 DEF Sums

LEMMA RoomTyped ==
  ASSUME ParserInv, NEW k \in 1 .. N
  PROVE  Room(argv[k]) \in Nat
<1>1. argv[k].full \in Nat
  BY LineRead DEF ParserInv, ArgRecords
<1>2. QED
  BY <1>1 DEF Room

LEMMA InitRoom == Init => RoomInv
<1> SUFFICES ASSUME Init PROVE RoomInv
  OBVIOUS
<1>1. pass = 1 /\ argi = 1 /\ num_filename_char = 0
  BY DEF Init
<1>2. [k \in 0 .. 0 |-> 0] \in Sums(0)
  <2>1. 1 .. 0 = {}
    OBVIOUS
  <2>2. QED
    BY <2>1 DEF Sums
<1>3. Summed
  <2>1. argi - 1 = 0
    BY <1>1
  <2>2. QED
    BY <1>1, <1>2, <2>1 DEF Summed
<1>4. QED
  BY <1>1, <1>3 DEF RoomInv, Filled, Packed

\* An argument that is read and takes no room in this pass.
LEMMA RoomPassed ==
  ASSUME ParserInv, RoomInv, Reading, NextArg, UNCHANGED fileVars, ~IsFile(arg)
  PROVE  RoomInv'
<1>1. /\ argv' = argv /\ pass' = pass /\ result' = result /\ argi' = argi + 1 /\ N' = N
      /\ argi \in 1 .. N /\ N \in Nat /\ argi' - 1 = argi /\ arg = argv[argi]
      /\ UNCHANGED <<num_filenames, num_filename_char, filename_chars, p_filenames>>
  BY LineRead, LineKept DEF NextArg, Reading, ParserInv, Shape, N, arg, fileVars
<1>2. (GivenInFull' <=> GivenInFull) /\ \A n : Sums(n)' = Sums(n)
  BY <1>1, SumsKept
<1>3. Room(argv[argi]) = 0
  BY <1>1 DEF Room
<1>4. Summed'
  <2>1. SUFFICES ASSUME pass = 1, result = "parsing"
                 PROVE  \E g \in Sums(argi) : num_filename_char = g[argi]
    BY <1>1, <1>2 DEF Summed
  <2>2. PICK f \in Sums(argi - 1) : num_filename_char = f[argi - 1]
    BY <2>1 DEF RoomInv, Summed
  <2>3. argi - 1 \in Nat /\ argi - 1 + 1 = argi
    BY <1>1
  <2>4. Room(argv[argi - 1 + 1]) \in Nat
    BY <1>3, <2>3
  <2>5. \E g \in Sums(argi) : g[argi] = f[argi - 1] + 0
    BY <1>3, <2>3, <2>4, SumsNext
  <2>6. num_filename_char \in Nat
    BY DEF ParserInv, Shape
  <2>7. QED
    BY <2>2, <2>5, <2>6
<1>5. Filled'
  <2>1. SUFFICES ASSUME pass = 2
                 PROVE  \E g \in Sums(N) : /\ num_filename_char = g[N]
                                           /\ GivenInFull => filename_chars = g[argi]
    BY <1>1, <1>2 DEF Filled
  <2>2. PICK f \in Sums(N) : /\ num_filename_char = f[N]
                             /\ GivenInFull => filename_chars = f[argi - 1]
    BY <2>1 DEF RoomInv, Filled
  <2>3. f[argi] = f[argi - 1] + 0 /\ f[argi - 1] \in Nat
    <3>1. argi - 1 \in 0 .. N
      BY <1>1
    <3>2. QED
      BY <1>1, <1>3, <3>1 DEF Sums
  <2>4. QED
    BY <2>2, <2>3
<1>6. Packed'
  BY <1>1, <1>2 DEF RoomInv, Packed, End
<1>7. QED
  BY <1>4, <1>5, <1>6 DEF RoomInv

\* Reading that ends keeps what has been stored.
LEMMA RoomReturned ==
  ASSUME ParserInv, RoomInv, NEW code, Return(code), code # "parsing", UNCHANGED fileVars
  PROVE  RoomInv'
<1>1. /\ argv' = argv /\ pass' = pass /\ argi' = argi /\ result' # "parsing" /\ N' = N
      /\ UNCHANGED <<num_filenames, num_filename_char, filename_chars, p_filenames>>
  BY LineKept DEF Return, fileVars
<1>2. (GivenInFull' <=> GivenInFull) /\ \A n : Sums(n)' = Sums(n)
  BY <1>1, SumsKept
<1>3. QED
  BY <1>1, <1>2 DEF RoomInv, Summed, Filled, Packed, End

LEMMA RoomCounted ==
  ASSUME ParserInv, RoomInv, CountFile
  PROVE  RoomInv'
<1>1. pass = 1 /\ pass' = 1
  BY DEF CountFile, Return, NextArg
<1>2. Filled' /\ Packed'
  BY <1>1 DEF Filled, Packed
<1>3. CASE result' # "parsing"
  BY <1>2, <1>3 DEF RoomInv, Summed
<1>4. CASE result' = "parsing"
  <2>1. /\ Reading /\ NextArg /\ IsFile(arg) /\ result = "parsing"
        /\ num_filename_char' = num_filename_char + arg.full + 1
    BY <1>4 DEF CountFile, Return, Reading
  <2>2. /\ argv' = argv /\ argi' - 1 = argi /\ argi \in 1 .. N /\ N \in Nat /\ arg = argv[argi]
    BY <2>1, LineRead DEF NextArg, Reading, ParserInv, Shape, N, arg
  <2>3. PICK f \in Sums(argi - 1) : num_filename_char = f[argi - 1]
    BY <1>1, <2>1 DEF RoomInv, Summed
  <2>4. argi - 1 \in Nat /\ argi - 1 + 1 = argi /\ Room(argv[argi]) \in Nat
    BY <2>2, RoomTyped
  <2>5. PICK g \in Sums(argi) : g[argi] = f[argi - 1] + Room(argv[argi])
    BY <2>4, SumsNext
  <2>6. num_filename_char' = g[argi]
    <3>1. Room(argv[argi]) = arg.full + 1 /\ arg.full \in Nat
      BY <2>1, <2>2, LineRead DEF Room, ParserInv, ArgRecords
    <3>2. num_filename_char \in Nat
      BY DEF ParserInv, Shape
    <3>3. QED
      BY <2>1, <2>3, <2>5, <3>1, <3>2
  <2>7. \A n : Sums(n)' = Sums(n)
    BY <2>2, SumsKept
  <2>8. Summed'
    BY <2>2, <2>5, <2>6, <2>7 DEF Summed
  <2>9. QED
    BY <1>2, <2>8 DEF RoomInv
<1>5. QED
  BY <1>3, <1>4

LEMMA RoomStored ==
  ASSUME ParserInv, RoomInv, StoreFile
  PROVE  RoomInv'
<1>1. /\ Reading /\ pass = 2 /\ IsFile(arg) /\ num_filenames' = num_filenames + 1 /\ NextArg
      /\ num_filename_char' = num_filename_char
      /\ filename_chars' = filename_chars + arg.given + 1
      /\ p_filenames' = [k \in 1 .. num_filenames' |->
           IF k = num_filenames' THEN [start |-> filename_chars, of |-> argi] ELSE p_filenames[k]]
  BY DEF StoreFile
<1>2. /\ argv' = argv /\ pass' = 2 /\ argi' - 1 = argi /\ argi \in 1 .. N /\ N \in Nat /\ N' = N
      /\ arg = argv[argi] /\ argv[argi].given \in Nat /\ argv[argi].full \in Nat
  BY <1>1, LineRead, LineKept DEF NextArg, Reading, ParserInv, Shape, N, arg, ArgRecords
<1>3. (GivenInFull' <=> GivenInFull) /\ \A n : Sums(n)' = Sums(n)
  BY <1>2, SumsKept
<1>4. num_filenames \in Nat /\ filename_chars \in Nat
  <2>1. num_filenames = Cardinality(Files(argi)) /\ argi \in Nat
    BY <1>1, <1>2 DEF ParserInv, Counted
  <2>2. QED
    BY <2>1, FilesFinite DEF ParserInv, Shape
<1>5. GivenInFull => argv[argi].given = argv[argi].full
  BY <1>1, <1>2 DEF GivenInFull, N
<1>6. Filled'
  <2>1. PICK f \in Sums(N) : /\ num_filename_char = f[N]
                             /\ GivenInFull => filename_chars = f[argi - 1]
    BY <1>1 DEF RoomInv, Filled
  <2>2. f[argi] = f[argi - 1] + argv[argi].full + 1 /\ f[argi - 1] \in Nat
    <3>1. Room(argv[argi]) = argv[argi].full + 1 /\ argi - 1 \in 0 .. N
      BY <1>1, <1>2 DEF Room
    <3>2. f[argi] = f[argi - 1] + Room(argv[argi]) /\ f[argi - 1] \in Nat
      BY <1>2, <3>1 DEF Sums
    <3>3. QED
      BY <1>2, <3>1, <3>2
  <2>3. GivenInFull => filename_chars' = f[argi]
    BY <1>1, <1>2, <1>5, <2>1, <2>2
  <2>4. QED
    BY <1>1, <1>2, <1>3, <2>1, <2>3 DEF Filled
<1>7. Packed'
  <2>1. SUFFICES ASSUME GivenInFull, NEW k \in 1 .. num_filenames'
                 PROVE  End(k)' = IF k < num_filenames' THEN p_filenames'[k + 1].start
                                                        ELSE filename_chars'
    BY <1>2, <1>3 DEF Packed, End
  <2>2. CASE k = num_filenames'
    <3>1. p_filenames'[k].start = filename_chars /\ p_filenames'[k].of = argi
      BY <1>1, <2>2
    <3>2. End(k)' = filename_chars + argv[argi].full + 1
      BY <1>2, <3>1 DEF End
    <3>3. ~(k < num_filenames')
      BY <1>1, <1>4, <2>2
    <3>4. QED
      BY <1>1, <1>2, <1>5, <2>1, <3>2, <3>3
  <2>3. CASE k # num_filenames'
    <3>1. k \in 1 .. num_filenames /\ k < num_filenames' /\ k + 1 \in 1 .. num_filenames'
      BY <1>1, <1>4, <2>3
    <3>2. p_filenames'[k] = p_filenames[k]
      BY <1>1, <2>3
    <3>3. End(k)' = End(k)
      BY <1>2, <3>2 DEF End
    <3>4. End(k) = IF k < num_filenames THEN p_filenames[k + 1].start ELSE filename_chars
      BY <1>1, <2>1, <3>1 DEF RoomInv, Packed
    <3>5. CASE k = num_filenames
      <4>1. p_filenames'[k + 1].start = filename_chars
        BY <1>1, <3>1, <3>5
      <4>2. QED
        BY <1>4, <3>1, <3>3, <3>4, <3>5, <4>1
    <3>6. CASE k # num_filenames
      <4>1. k < num_filenames /\ k + 1 # num_filenames'
        BY <1>1, <1>4, <3>1, <3>6
      <4>2. p_filenames'[k + 1] = p_filenames[k + 1]
        BY <1>1, <3>1, <4>1
      <4>3. QED
        BY <3>1, <3>3, <3>4, <4>1, <4>2
    <3>7. QED
      BY <3>5, <3>6
  <2>4. QED
    BY <2>2, <2>3
<1>8. QED
  BY <1>2, <1>6, <1>7 DEF RoomInv, Summed

LEMMA RoomKept ==
  ASSUME ParserInv, RoomInv, SecondPass
  PROVE  RoomInv'
<1>1. /\ result = "parsing" /\ pass = 1 /\ argv' = argv /\ N \in Nat /\ argi = N + 1 /\ N' = N
      /\ num_filename_char' = num_filename_char /\ argi - 1 = N
  BY LineRead, LineKept DEF SecondPass, Return, ParserInv, Shape, N
<1>2. \A n : Sums(n)' = Sums(n)
  BY <1>1, SumsKept
<1>3. CASE Return("kFailMalloc")
  BY <1>1, <1>3 DEF Return, RoomInv, Summed, Filled, Packed
<1>4. CASE ~Return("kFailMalloc")
  <2>1. pass' = 2 /\ argi' = 1 /\ num_filenames' = 0 /\ filename_chars' = 0
    BY <1>4 DEF SecondPass
  <2>2. PICK f \in Sums(N) : num_filename_char = f[N]
    BY <1>1 DEF RoomInv, Summed
  <2>3. f[0] = 0 /\ argi' - 1 = 0
    BY <2>1 DEF Sums
  <2>4. Filled'
    BY <1>1, <1>2, <2>1, <2>2, <2>3 DEF Filled
  <2>5. Packed'
    <3>1. 1 .. num_filenames' = {}
      BY <2>1
    <3>2. QED
      BY <3>1 DEF Packed
  <2>6. QED
    BY <2>1, <2>4, <2>5 DEF RoomInv, Summed
<1>5. QED
  BY <1>3, <1>4

LEMMA RoomStep ==
  ASSUME ParserInv, RoomInv, Parse
  PROVE  RoomInv'
<1>1. CASE InterfaceSwitch \/ ModeSwitch \/ QuerySwitch
  BY <1>1, RoomPassed DEF InterfaceSwitch, ModeSwitch, QuerySwitch, IsFile, Modes
<1>2. CASE HelpSwitch \/ Finish
  BY <1>2, RoomReturned DEF HelpSwitch, Finish
<1>3. CASE MoveSuffixSwitch
  BY <1>3, RoomPassed, RoomReturned DEF MoveSuffixSwitch, IsFile
<1>4. QED
  BY <1>1, <1>2, <1>3, RoomCounted, RoomStored, RoomKept DEF Parse

-----------------------------------------------------------------------------
(* The program.                                                            *)

MainInv ==
  /\ end \in {"none", "arguments", "interface", "help", "replaced"}
  /\ main = "ended" <=> end # "none"
  /\ main # "init" => result # "parsing"
  /\ main \in {"start", "wait", "running"} => result = "kSuccess"
  /\ end = "arguments" => result # "kSuccess"
  /\ end = "help" => HelpOnly
  /\ end = "replaced" => ~HelpOnly

UnlockerInv == ParserInv /\ SplashInv /\ MainInv

LEMMA InitUnlocker == UnlockerInit => UnlockerInv
<1> SUFFICES ASSUME UnlockerInit PROVE UnlockerInv
  OBVIOUS
<1>1. ParserInv /\ SplashInv
  BY InitParser, InitSplash DEF UnlockerInit
<1>2. MainInv
  BY DEF UnlockerInit, Interface!Init, MainInv
<1>3. QED
  BY <1>1, <1>2 DEF UnlockerInv

LEMMA UnlockerStep ==
  ASSUME UnlockerInv, [UnlockerNext]_unlockerVars
  PROVE  UnlockerInv'
<1>a. interface_style \in SUBSET {"tui", "gui"}
  BY DEF UnlockerInv, ParserInv, Shape
<1>b. ASSUME UNCHANGED vars
      PROVE  /\ ParserInv' /\ (HelpOnly' <=> HelpOnly) /\ result' = result
             /\ interface_style' \in SUBSET {"tui", "gui"}
  <2>1. UNCHANGED <<argv, pass, argi, result, action, unlock_mode, move_suffix, interface_style,
                    num_filenames, num_filename_char, filename_chars, p_filenames>>
    BY <1>b DEF vars
  <2>2. N' = N /\ Stops' = Stops /\ Files(argi)' = Files(argi) /\ Files(N + 1)' = Files(N + 1)
    BY <2>1, LineKept DEF Files, FilesIn, Before, IsFile, N
  <2>3. ParserInv'
    BY <2>1, <2>2 DEF UnlockerInv, ParserInv, Shape, Passed, Counted, Stored, Acted, Answered, IsFile
  <2>4. QED
    BY <1>a, <2>1, <2>3 DEF HelpOnly
<1>1. CASE ReadArguments
  <2>1. ParserInv' /\ result = "parsing" /\ UNCHANGED interfaceVars /\ end' = end
    BY <1>1, ParserStep
    DEF ReadArguments, UnlockerInv, Parse, InterfaceSwitch, ModeSwitch, HelpSwitch, QuerySwitch,
        MoveSuffixSwitch, CountFile, StoreFile, SecondPass, Finish, Reading
  <2>2. interface_style' \in SUBSET {"tui", "gui"}
    BY <2>1 DEF ParserInv, Shape
  <2>3. SplashInv'
    BY <2>1, <2>2, SplashStep DEF UnlockerInv
  <2>4. MainInv'
    BY <2>1 DEF UnlockerInv, MainInv, interfaceVars
  <2>5. QED
    BY <2>1, <2>3, <2>4 DEF UnlockerInv
<1>2. CASE RefuseArguments
  <2>1. /\ UNCHANGED vars /\ main' = "ended" /\ end' = "arguments" /\ result \notin {"parsing", "kSuccess"}
        /\ UNCHANGED <<status, waited, bitmaps, use_gui, use_tui, ui_thread_event,
              ui, h_splash_wnd, timer, queue, frame, done_donate, shown, donations>>
    BY <1>2 DEF RefuseArguments
  <2>2. SplashInv'
    BY <1>b, <2>1, SplashStep DEF UnlockerInv
  <2>3. QED
    BY <1>b, <2>1, <2>2 DEF UnlockerInv, MainInv
<1>3. CASE StartInterface
  <2>1. UNCHANGED vars /\ result = "kSuccess" /\ Interface!Main /\ end' = IF main' = "ended" THEN "interface" ELSE end
    BY <1>3 DEF StartInterface
  <2>2. main \in {"init", "start", "wait"} /\ main' \in {"start", "wait", "running", "ended"}
    BY <2>1 DEF Interface!Main, Interface!InterfaceInit, Interface!BeginThread, Interface!WaitSignalled,
       Interface!WaitTimeout, Interface!GoOn
  <2>3. SplashInv'
    BY <1>b, <2>1, SplashStep DEF UnlockerInv
  <2>4. MainInv'
    BY <1>b, <2>1, <2>2 DEF UnlockerInv, MainInv
  <2>5. QED
    BY <1>b, <2>1, <2>3, <2>4 DEF UnlockerInv
<1>4. CASE PrintHelp \/ NothingToReplace
  <2>1. /\ UNCHANGED vars /\ Interface!Return /\ main = "running" /\ main' = "ended"
        /\ \/ end' = "help" /\ HelpOnly
           \/ end' = "replaced" /\ ~HelpOnly
    BY <1>4 DEF PrintHelp, NothingToReplace, Watching, Interface!Return
  <2>2. SplashInv'
    BY <1>b, <2>1, SplashStep DEF UnlockerInv
  <2>3. MainInv'
    BY <1>b, <2>1 DEF UnlockerInv, MainInv
  <2>4. QED
    BY <1>b, <2>1, <2>2, <2>3 DEF UnlockerInv
<1>5. CASE Splash \/ Tick
  <2>1. UNCHANGED vars /\ (Interface!Splash \/ Interface!Tick) /\ end' = end
    BY <1>5 DEF Splash, Tick
  <2>2. main' = main
    BY <2>1 DEF Interface!Splash, Interface!Tick, Interface!SplashInit, Interface!SignalEvent,
       Interface!SetTimer, Interface!PaintMessage, Interface!TimerMessage, Interface!Served, Interface!mainVars
  <2>3. SplashInv'
    BY <1>b, <2>1, SplashStep DEF UnlockerInv
  <2>4. MainInv'
    BY <1>b, <2>1, <2>2 DEF UnlockerInv, MainInv
  <2>5. QED
    BY <1>b, <2>1, <2>3, <2>4 DEF UnlockerInv
<1>6. CASE Watch \/ Exited \/ UNCHANGED unlockerVars
  <2>1. UNCHANGED vars /\ UNCHANGED interfaceVars /\ end' = end
    BY <1>6 DEF Watch, Exited, Interface!Scanning, Interface!Ended, Interface!vars, unlockerVars, interfaceVars
  <2>2. SplashInv'
    BY <1>b, <2>1, SplashStep DEF UnlockerInv
  <2>3. MainInv'
    BY <1>b, <2>1 DEF UnlockerInv, MainInv, interfaceVars
  <2>4. QED
    BY <1>b, <2>1, <2>2, <2>3 DEF UnlockerInv
<1>7. QED
  BY <1>1, <1>2, <1>3, <1>4, <1>5, <1>6 DEF UnlockerNext, MainThread

LEMMA UnlockerInvariant == UnlockerSpec => []UnlockerInv
  BY InitUnlocker, UnlockerStep, PTL DEF UnlockerSpec

LEMMA ParserOrNot ==
  ASSUME [UnlockerNext]_unlockerVars
  PROVE  Parse \/ UNCHANGED vars
<1>1. CASE Splash \/ Tick \/ Watch \/ Exited \/ UNCHANGED unlockerVars
  BY <1>1 DEF Splash, Tick, Watch, Exited, Interface!Ended, unlockerVars
<1>2. CASE MainThread \/ NothingToReplace
  BY <1>2 DEF MainThread, ReadArguments, RefuseArguments, StartInterface, PrintHelp,
     NothingToReplace
<1>3. QED
  BY <1>1, <1>2 DEF UnlockerNext

\* main.c, main: what happens to the fields of the command line is what
\* ParseArguments does to them, whatever the threads do meanwhile.
THEOREM ParserIsRun == UnlockerSpec => Spec
<1>1. UnlockerInit => Init
  BY DEF UnlockerInit
<1>2. [UnlockerNext]_unlockerVars => [Next]_vars
  BY ParserOrNot DEF Next
<1>3. QED
  BY <1>1, <1>2, PTL DEF UnlockerSpec, Spec

LEMMA RoomInvariant == UnlockerSpec => []RoomInv
<1>1. UnlockerInit => RoomInv
  BY InitRoom DEF UnlockerInit
<1>2. ASSUME UNCHANGED vars, RoomInv PROVE RoomInv'
  <2>1. /\ UNCHANGED <<pass, argi, result, num_filenames, num_filename_char, filename_chars, p_filenames>>
        /\ argv' = argv /\ N' = N
    BY <1>2, LineKept DEF vars
  <2>2. (GivenInFull' <=> GivenInFull) /\ \A n : Sums(n)' = Sums(n)
    BY <2>1, SumsKept
  <2>3. QED
    BY <1>2, <2>1, <2>2 DEF RoomInv, Summed, Filled, Packed, End
<1>3. UnlockerInv /\ RoomInv /\ [UnlockerNext]_unlockerVars => RoomInv'
  BY <1>2, ParserOrNot, RoomStep DEF UnlockerInv
<1>4. QED
  BY <1>1, <1>3, UnlockerInvariant, PTL DEF UnlockerSpec

\* ParseArguments (main.c:313-326): the names stored leave their places only when
\* some file was given by a name of another length than its full path; files
\* given in full fill the room reckoned in the first pass exactly, for any
\* number of them and any lengths.
THEOREM FullNamesFit == UnlockerSpec => []FullNamesIntact
<1>1. ASSUME UnlockerInv, RoomInv, GivenInFull PROVE NamesIntact
  <2>1. SUFFICES ASSUME result = "kSuccess", Stops = {}, NEW k \in 1 .. num_filenames
                 PROVE  End(k) <= IF k < num_filenames THEN p_filenames[k + 1].start
                                                       ELSE num_filename_char
    BY DEF NamesIntact, End
  <2>2. pass = 2 /\ argi = N + 1 /\ N \in Nat
    BY <1>1, <2>1, LineRead DEF UnlockerInv, ParserInv, Answered
  <2>3. PICK f \in Sums(N) : num_filename_char = f[N] /\ filename_chars = f[argi - 1]
    BY <1>1, <2>2 DEF RoomInv, Filled
  <2>4. filename_chars = num_filename_char /\ num_filename_char \in Nat
    <3>1. argi - 1 = N
      BY <2>2
    <3>2. QED
      BY <1>1, <2>3, <3>1 DEF UnlockerInv, ParserInv, Shape
  <2>5. End(k) = IF k < num_filenames THEN p_filenames[k + 1].start ELSE filename_chars
    BY <1>1, <2>2 DEF RoomInv, Packed
  <2>6. CASE k < num_filenames
    <3>1. k + 1 \in 1 .. num_filenames /\ num_filenames # 0
      BY <1>1, <2>6 DEF UnlockerInv, ParserInv, Shape
    <3>2. p_filenames[k + 1].start \in Nat
      BY <1>1, <2>2, <3>1 DEF UnlockerInv, ParserInv, Stored
    <3>3. QED
      BY <2>5, <2>6, <3>2
  <2>7. CASE ~(k < num_filenames)
    BY <2>4, <2>5, <2>7
  <2>8. QED
    BY <2>6, <2>7
<1>2. UnlockerInv /\ RoomInv => FullNamesIntact
  BY <1>1 DEF FullNamesIntact
<1>3. QED
  BY <1>2, UnlockerInvariant, RoomInvariant, PTL

\* Both threads and the parser keep their types, however they interleave, and
\* the splash thread is past all it shares with main when main goes on signalled
\* (InterfaceStateInit, main.c:1007).
THEOREM UnlockerTypeCorrect == UnlockerSpec => []UnlockerTypeOK
<1>1. ASSUME UnlockerInv PROVE UnlockerTypeOK
  <2>1. Len(p_filenames) <= MaxFiles
    <3>1. /\ ParserInv /\ MaxFiles \in Nat /\ num_filenames \in 0 .. MaxFiles + 1
      BY <1>1, ArgsAssumption DEF UnlockerInv, ParserInv, Shape
    <3>2. CASE p_filenames = <<>>
      BY <3>1, <3>2
    <3>3. CASE p_filenames # <<>>
      <4>1. pass = 2 /\ num_filenames <= MaxFiles /\ num_filenames \in Nat
        BY <3>1, <3>3 DEF ParserInv, Shape, Stored, Counted
      <4>2. p_filenames \in [1 .. num_filenames -> [start : Nat, of : Files(argi)]]
        BY <3>1, <3>3, <4>1 DEF ParserInv, Stored
      <4>3. Len(p_filenames) = num_filenames
        BY <4>1, <4>2
      <4>4. QED
        BY <4>1, <4>3
    <3>4. QED
      BY <3>2, <3>3
  <2>2. TypeOK
    BY <1>1, <2>1 DEF UnlockerInv, ParserInv, Shape, TypeOK, N
  <2>3. QED
    BY <1>1, <2>2 DEF UnlockerInv, SplashInv, MainInv, UnlockerTypeOK
<1>2. QED
  BY <1>1, UnlockerInvariant, PTL

LEMMA FirstStop ==
  ASSUME ParserInv, argi \in Stops
  PROVE  Min(Stops) = argi
<1>1. N \in Nat /\ argi \in Nat /\ Stops \subseteq 1 .. N
  BY LineRead DEF ParserInv, Stops, N
<1>2. \A k \in Stops : argi <= k
  <2>1. \A k \in Stops : k \notin 1 .. argi - 1
    BY DEF ParserInv, Passed
  <2>2. QED
    BY <1>1, <2>1
<1>3. \A m \in Stops : (\A k \in Stops : m <= k) => m = argi
  BY <1>1, <1>2
<1>4. QED
  BY <1>2, <1>3 DEF Min

\* ParseArguments answers what the command line as a whole calls for, whatever
\* its length and the limit of files.
THEOREM AnswerIsAsMeant == UnlockerSpec => []AnswerAsMeant
<1>1. ASSUME UnlockerInv, Parsed PROVE result = Verdict
  <2>1. ParserInv /\ N \in Nat /\ MaxFiles \in Nat
    BY <1>1, LineRead, ArgsAssumption DEF UnlockerInv, ParserInv
  <2>2. CASE argi \in Stops
    <3>1. Min(Stops) = argi /\ pass = 1 /\ Stops # {}
      BY <2>1, <2>2, FirstStop DEF ParserInv, Passed, Shape
    <3>2. Verdict = IF argv[argi].kind = "help" THEN "kSuccess"
                    ELSE IF Cardinality(Files(argi)) >= MaxFiles
                    THEN "kUserTooManyFiles" ELSE "kUserFilenameTooLong"
      BY <3>1 DEF Verdict, Files
    <3>3. Cardinality(Files(argi)) \in Nat
      BY <2>1, LineRead, FilesFinite DEF ParserInv
    <3>4. QED
      BY <1>1, <2>1, <3>1, <3>2, <3>3 DEF ParserInv, Shape, Answered, Parsed, IsFile
  <2>3. CASE argi \notin Stops
    <3>1. pass = 2 /\ Stops = {} /\ argi = N + 1 /\ result \in {"kSuccess", "kUserNoFiles"}
      BY <1>1, <2>1, <2>3 DEF ParserInv, Shape, Passed, Answered, Parsed
    <3>2. FilesIn(Read) = Files(N + 1)
      <4>1. Read = 1 .. (N + 1) - 1
        BY <2>1, <3>1 DEF Read, N
      <4>2. QED
        BY <4>1 DEF Files, Before
    <3>3. num_filenames = 0 <=> Files(N + 1) = {}
      <4>1. num_filenames = Cardinality(Files(N + 1)) /\ IsFiniteSet(Files(N + 1))
        BY <2>1, <3>1, FilesFinite DEF ParserInv, Counted
      <4>2. QED
        BY <4>1, FS_EmptySet
    <3>4. Verdict = IF num_filenames = 0 THEN "kUserNoFiles" ELSE "kSuccess"
      BY <3>1, <3>2, <3>3 DEF Verdict
    <3>5. QED
      BY <2>1, <3>1, <3>4 DEF ParserInv, Answered
  <2>4. QED
    BY <2>2, <2>3
<1>2. QED
  BY <1>1, UnlockerInvariant, PTL DEF AnswerAsMeant

LEMMA WholeLine ==
  ASSUME UnlockerInv
  PROVE  FilesIn(DOMAIN argv) = Files(N + 1)
<1>1. N \in Nat /\ DOMAIN argv = 1 .. N
  BY LineRead DEF UnlockerInv, ParserInv
<1>2. 1 .. (N + 1) - 1 = 1 .. N
  BY <1>1
<1>3. QED
  BY <1>1, <1>2 DEF Files, Before

\* What main looks at is what was given, all of it and by whole names, if these
\* were given in full: a parser that has been left early or half-way never gets
\* main that far.
THEOREM WatchesAsGiven == UnlockerSpec => []WatchedAsGiven
<1>1. ASSUME UnlockerInv, Watching
      PROVE  /\ Stops = {} /\ num_filenames >= 1
             /\ num_filenames = Cardinality(FilesIn(DOMAIN argv))
             /\ {p_filenames[k].of : k \in 1 .. num_filenames} = FilesIn(DOMAIN argv)
             /\ \A k \in 2 .. num_filenames : p_filenames[k - 1].of < p_filenames[k].of
  <2>1. ParserInv /\ result = "kSuccess" /\ action # "help"
    BY <1>1 DEF UnlockerInv, MainInv, Watching, HelpOnly
  <2>2. pass = 2 /\ argi = N + 1 /\ num_filenames >= 1 /\ num_filenames # 0
    <3>1. pass = 2 /\ argi = N + 1 /\ num_filenames >= 1
      BY <2>1 DEF ParserInv, Answered
    <3>2. num_filenames \in 0 .. MaxFiles + 1 /\ MaxFiles \in Nat
      BY <2>1, ArgsAssumption DEF ParserInv, Shape
    <3>3. QED
      BY <3>1, <3>2
  <2>3. Stops = {} /\ num_filenames = Cardinality(Files(N + 1))
    BY <2>1, <2>2 DEF ParserInv, Passed, Counted
  <2>4. /\ p_filenames \in [1 .. num_filenames -> [start : Nat, of : Files(N + 1)]]
        /\ \A j \in Files(N + 1) : \E k \in 1 .. num_filenames : p_filenames[k].of = j
        /\ \A k \in 2 .. num_filenames : p_filenames[k - 1].of < p_filenames[k].of
    BY <2>1, <2>2 DEF ParserInv, Stored
  <2>5. {p_filenames[k].of : k \in 1 .. num_filenames} = Files(N + 1)
    BY <2>4
  <2>6. FilesIn(DOMAIN argv) = Files(N + 1)
    BY <1>1, WholeLine
  <2>7. QED
    BY <2>2, <2>3, <2>4, <2>5, <2>6
<1>2. UnlockerInv /\ FullNamesIntact => WatchedAsGiven
  BY <1>1 DEF WatchedAsGiven
<1>3. QED
  BY <1>2, UnlockerInvariant, FullNamesFit, PTL

\* main.c:1078: main prints the help when --help is given, whatever is given
\* besides, and then never goes on to look at files; without it only if no switch
\* has set args.action, which has no value of its own (main.c:253).
THEOREM HelpIsAsAsked == UnlockerSpec => []HelpAsAsked
<1> DEFINE Given(kinds) == \E k \in DOMAIN argv : argv[k].kind \in kinds
<1>1. ASSUME UnlockerInv, result = "kSuccess", main \in {"running", "ended"}
      PROVE  /\ Given({"help"}) => end \in {"none", "interface", "help"} /\ ~Watching
             /\ end = "help" => Given({"help"}) \/ ~Given(ActionSwitches)
  <2>1. ParserInv /\ MainInv /\ N \in Nat /\ DOMAIN argv = 1 .. N
    BY <1>1, LineRead DEF UnlockerInv, ParserInv
  <2>2. CASE Given({"help"})
    <3>1. Stops # {}
      BY <2>1, <2>2 DEF Stops, N
    <3>2. action = "help"
      BY <1>1, <2>1, <3>1 DEF ParserInv, Answered, Passed
    <3>3. QED
      BY <1>1, <2>1, <2>2, <3>2 DEF MainInv, HelpOnly, Watching
  <2>3. CASE ~Given({"help"})
    <3>1. SUFFICES ASSUME NEW j \in DOMAIN argv, argv[j].kind \in ActionSwitches
                   PROVE  end # "help"
      BY <2>3
    <3>2. argi \notin Stops \/ argv[argi].kind # "help"
      BY <2>1, <2>3 DEF Stops, N
    <3>3. pass = 2 /\ argi = N + 1
      BY <1>1, <2>1, <3>2 DEF ParserInv, Answered
    <3>4. j \in 1 .. argi - 1
      BY <2>1, <3>1, <3>3
    <3>5. argv[j].kind \in Modes \cup {"query"}
      BY <2>3, <3>1 DEF ActionSwitches
    <3>6. action \in {"unlocker", "query"}
      BY <2>1, <3>3, <3>4, <3>5 DEF ParserInv, Acted
    <3>7. QED
      BY <2>1, <3>6 DEF MainInv, HelpOnly
  <2>4. QED
    BY <2>2, <2>3
<1>2. UnlockerInv => HelpAsAsked
  BY <1>1 DEF HelpAsAsked
<1>3. QED
  BY <1>2, UnlockerInvariant, PTL

\* SplashWndProc (main.c:849): whatever messages the window gets beside main, the
\* pictures that could be decoded, and they alone, are drawn, none left out and
\* none ahead of its turn, and the page is opened once.
THEOREM SplashIsInOrder == UnlockerSpec => []SplashInOrder
<1>1. ASSUME UnlockerInv PROVE SplashInOrder
  <2>1. /\ Frames \in Nat /\ Frames >= 2 /\ frame \in 0 .. Frames - 1 /\ shown \subseteq 0 .. Frames - 1
        /\ donations \in Nat /\ bitmaps \in [0 .. Frames - 1 -> {"unset", "NULL", "image"}]
        /\ shown \subseteq Drawable(Frames)
        /\ frame < Frames - 1 => shown = Drawable(frame) /\ donations = 0
        /\ frame = Frames - 1 => Drawable(frame) \subseteq shown /\ donations = 1
        /\ ~Visible => frame = 0
        /\ Visible => \A f \in 0 .. Frames - 1 : bitmaps[f] # "unset"
    BY <1>1, FramesAssumption DEF UnlockerInv, SplashInv, Interface!TypeOK, PlayInv
  <2>2. frame < Frames - 1 \/ frame = Frames - 1
    BY <2>1
  <2>3. Interface!DrawnIsLoaded
    <3>1. CASE Visible
      BY <2>1, <3>1 DEF Drawable, Interface!DrawnIsLoaded, Interface!Images
    <3>2. CASE ~Visible
      <4>1. frame = 0 /\ 0 < Frames - 1 /\ 0 .. 0 - 1 = {}
        BY <2>1, <3>2
      <4>2. shown = {}
        BY <2>1, <4>1 DEF Drawable
      <4>3. QED
        BY <4>2 DEF Interface!DrawnIsLoaded
    <3>3. QED
      BY <3>1, <3>2
  <2>4. \A f \in Interface!Images : f < frame => f \in shown
    <3>1. \A f \in Interface!Images : f < frame => f \in Drawable(frame)
      BY <2>1 DEF Drawable, Interface!Images
    <3>2. QED
      BY <2>1, <2>2, <3>1
  <2>5. \A f \in shown : f <= frame
    <3>1. CASE frame < Frames - 1
      BY <2>1, <3>1 DEF Drawable
    <3>2. CASE frame = Frames - 1
      BY <2>1, <3>2
    <3>3. QED
      BY <2>2, <3>1, <3>2
  <2>6. donations <= 1 /\ (donations = 1 => frame = Frames - 1)
    BY <2>1, <2>2
  <2>7. QED
    BY <2>3, <2>4, <2>5, <2>6 DEF SplashInOrder, Interface!SplashInOrder
<1>2. QED
  BY <1>1, UnlockerInvariant, PTL

-----------------------------------------------------------------------------
(* That the start comes to an end, and that the splash plays: how far they *)
(* have still to go.                                                       *)

StartRank ==
  CASE main = "init" /\ result = "parsing" -> <<3, 3 - pass, N + 1 - argi, 0>>
    [] main = "init" /\ result # "parsing" -> <<2, 3, 0, 0>>
    [] main = "start" -> <<2, 2, 0, 0>>
    [] main = "wait" -> <<2, 1, 0, 0>>
    [] main = "running" -> <<1, 0, 0, 0>>
    [] OTHER -> <<0, 0, 0, 0>>

LEMMA StartParts ==
  ASSUME Shape
  PROVE  3 - pass \in Nat /\ N + 1 - argi \in Nat /\ N \in Nat /\ argi \in 1 .. N + 1 /\ pass \in {1, 2}
<1>1. N \in Nat /\ argi \in 1 .. N + 1 /\ pass \in {1, 2}
  BY LineRead DEF Shape
<1>2. QED
  BY <1>1

LEMMA StartRankIsRank == UnlockerInv => StartRank \in Ranks
<1> SUFFICES ASSUME UnlockerInv PROVE StartRank \in Ranks
  OBVIOUS
<1>1. Shape
  BY DEF UnlockerInv, ParserInv
<1>2. main \in {"init", "start", "wait", "running", "ended"}
  BY DEF UnlockerInv, SplashInv, Interface!TypeOK
<1>3. QED
  BY <1>1, <1>2, StartParts, RankTyped DEF StartRank

LEMMA ParsingFalls ==
  ASSUME UnlockerInv, ReadArguments
  PROVE  Below(StartRank', StartRank)
<1>1. /\ main = "init" /\ main' = "init" /\ result = "parsing" /\ Parse
  BY DEF ReadArguments, interfaceVars, UnlockerInv, MainInv, Parse, InterfaceSwitch, ModeSwitch,
     HelpSwitch, QuerySwitch, MoveSuffixSwitch, CountFile, StoreFile, SecondPass, Finish, Reading
<1>2. /\ 3 - pass \in Nat /\ N + 1 - argi \in Nat /\ N \in Nat /\ argi \in 1 .. N + 1
      /\ pass \in {1, 2}
  BY StartParts DEF UnlockerInv, ParserInv
<1>3. StartRank = <<3, 3 - pass, N + 1 - argi, 0>>
  BY <1>1 DEF StartRank
<1>4. CASE Reading /\ NextArg
  <2>1. StartRank' = <<3, 3 - pass, N + 1 - (argi + 1), 0>>
    BY <1>1, <1>4 DEF NextArg, StartRank, N
  <2>2. N + 1 - (argi + 1) \in Nat /\ N + 1 - (argi + 1) < N + 1 - argi
    BY <1>2, <1>4 DEF Reading, N
  <2>3. QED
    BY <1>2, <1>3, <2>1, <2>2 DEF Below
<1>5. CASE result' # "parsing"
  <2>1. StartRank' = <<2, 3, 0, 0>>
    BY <1>1, <1>5 DEF StartRank
  <2>2. QED
    BY <1>3, <2>1 DEF Below
<1>6. CASE SecondPass /\ result' = "parsing"
  <2>1. pass = 1 /\ pass' = 2 /\ argi' = 1 /\ N' = N
    BY <1>6 DEF SecondPass, Return, N
  <2>2. StartRank' = <<3, 1, N, 0>>
    <3>1. StartRank' = <<3, 3 - 2, N + 1 - 1, 0>>
      BY <1>1, <1>6, <2>1 DEF StartRank
    <3>2. QED
      BY <1>2, <3>1
  <2>3. StartRank = <<3, 2, N + 1 - argi, 0>>
    BY <1>3, <2>1
  <2>4. QED
    BY <1>2, <2>2, <2>3 DEF Below
<1>7. (Reading /\ NextArg) \/ result' # "parsing" \/ SecondPass
  BY <1>1 DEF Parse, InterfaceSwitch, ModeSwitch, HelpSwitch, QuerySwitch, MoveSuffixSwitch,
     CountFile, StoreFile, Finish, Return
<1>8. QED
  BY <1>4, <1>5, <1>6, <1>7

LEMMA StartFalls ==
  ASSUME UnlockerInv, MainThread \/ NothingToReplace
  PROVE  Below(StartRank', StartRank)
<1>1. CASE RefuseArguments
  <2>1. StartRank = <<2, 3, 0, 0>> /\ StartRank' = <<0, 0, 0, 0>>
    BY <1>1 DEF RefuseArguments, StartRank
  <2>2. QED
    BY <2>1 DEF Below
<1>2. CASE StartInterface
  <2>1. result = "kSuccess" /\ result' = result
    BY <1>2 DEF StartInterface, vars
  <2>2. \/ main = "init" /\ main' = "start"
        \/ main = "start" /\ main' = "wait"
        \/ main = "wait" /\ main' \in {"running", "ended"}
    BY <1>2 DEF StartInterface, Interface!Main, Interface!InterfaceInit, Interface!BeginThread,
       Interface!WaitSignalled, Interface!WaitTimeout, Interface!GoOn
  <2>3. \/ StartRank = <<2, 3, 0, 0>> /\ StartRank' = <<2, 2, 0, 0>>
        \/ StartRank = <<2, 2, 0, 0>> /\ StartRank' = <<2, 1, 0, 0>>
        \/ StartRank = <<2, 1, 0, 0>> /\ StartRank' \in {<<1, 0, 0, 0>>, <<0, 0, 0, 0>>}
    BY <2>1, <2>2 DEF StartRank
  <2>4. QED
    BY <2>3 DEF Below
<1>3. CASE PrintHelp \/ NothingToReplace
  <2>1. StartRank = <<1, 0, 0, 0>> /\ StartRank' = <<0, 0, 0, 0>>
    BY <1>3 DEF PrintHelp, NothingToReplace, Interface!Return, StartRank
  <2>2. QED
    BY <2>1 DEF Below
<1>4. QED
  BY <1>1, <1>2, <1>3, ParsingFalls DEF MainThread

\* The splash thread until its loop, then the frames still to draw, with the
\* message of the timer at hand or still to come.
SplashRank ==
  <<CASE ui = "none" -> 4 [] ui = "init" -> 3 [] ui = "signal" -> 2 [] ui = "timer" -> 1
      [] OTHER -> 0,
    Frames - 1 - frame, IF "WM_TIMER" \in queue THEN 0 ELSE 1, 0>>

\* There is a window to come or to draw in, and frames are left.
Playing == (ui = "loop" => Visible) /\ frame < Frames - 1

TimerInv ==
  /\ timer # "off" => ui = "loop"
  /\ ui = "loop" /\ Visible => timer = "window"

LEMMA SplashParts ==
  ASSUME SplashInv
  PROVE  /\ Frames - 1 - frame \in Nat /\ frame \in Nat /\ frame <= Frames - 1 /\ Frames \in Nat
         /\ SplashRank \in Ranks
<1>1. Frames \in Nat /\ Frames >= 2 /\ frame \in 0 .. Frames - 1
  BY FramesAssumption DEF SplashInv, Interface!TypeOK
<1>2. Frames - 1 - frame \in Nat /\ frame \in Nat /\ frame <= Frames - 1
  BY <1>1
<1>3. SplashRank \in Ranks
  <2>1. (CASE ui = "none" -> 4 [] ui = "init" -> 3 [] ui = "signal" -> 2 [] ui = "timer" -> 1
           [] OTHER -> 0) \in Nat
    OBVIOUS
  <2>2. QED
    BY <1>2, <2>1, RankTyped DEF SplashRank
<1>4. QED
  BY <1>1, <1>2, <1>3

LEMMA TimerStep ==
  ASSUME UnlockerInv, TimerInv, [UnlockerNext]_unlockerVars
  PROVE  TimerInv'
<1>1. CASE ReadArguments \/ Watch \/ Exited \/ UNCHANGED unlockerVars
  BY <1>1 DEF ReadArguments, Watch, Exited, Interface!Scanning, Interface!Ended, Interface!vars,
     unlockerVars, interfaceVars, TimerInv, Visible
<1>2. CASE RefuseArguments \/ PrintHelp \/ NothingToReplace
  BY <1>2 DEF RefuseArguments, PrintHelp, NothingToReplace, Interface!Return,
     TimerInv, Visible
<1>3. CASE StartInterface
  <2>1. main \in {"init", "start"} => ui = "none"
    BY DEF UnlockerInv, SplashInv, PlayInv
  <2>2. QED
    BY <1>3, <2>1 DEF StartInterface, Interface!Main, Interface!InterfaceInit,
       Interface!BeginThread, Interface!WaitSignalled, Interface!WaitTimeout,
       TimerInv, Visible
<1>4. CASE Splash \/ Tick
  <2>1. CASE Interface!SetTimer
    BY <2>1 DEF Interface!SetTimer, TimerInv, Visible
  <2>2. CASE Interface!SplashInit \/ Interface!SignalEvent
    BY <2>2 DEF Interface!SplashInit, Interface!SignalEvent, TimerInv, Visible
  <2>3. CASE Interface!PaintMessage \/ Interface!TimerMessage \/ Interface!Tick
    BY <2>3 DEF Interface!PaintMessage, Interface!TimerMessage, Interface!Tick,
       Interface!Served, TimerInv, Visible
  <2>4. QED
    BY <1>4, <2>1, <2>2, <2>3 DEF Splash, Tick, Interface!Splash
<1>5. QED
  BY <1>1, <1>2, <1>3, <1>4 DEF UnlockerNext, MainThread

LEMMA SplashFalls ==
  ASSUME UnlockerInv, TimerInv, Splash \/ Tick, Playing
  PROVE  Below(SplashRank', SplashRank)
<1> DEFINE left == Frames - 1 - frame
           due == IF "WM_TIMER" \in queue THEN 0 ELSE 1
<1>1. /\ left \in Nat /\ frame \in Nat /\ frame < Frames - 1 /\ Frames \in Nat
      /\ due \in Nat
  BY SplashParts DEF UnlockerInv, Playing
<1>2. CASE Interface!SplashInit \/ Interface!SignalEvent \/ Interface!SetTimer
  <2>1. \/ SplashRank[1] = 3 /\ SplashRank'[1] = 2
        \/ SplashRank[1] = 2 /\ SplashRank'[1] = 1
        \/ SplashRank[1] = 1 /\ SplashRank'[1] = 0
    BY <1>2 DEF Interface!SplashInit, Interface!SignalEvent, Interface!SetTimer, SplashRank
  <2>2. QED
    BY <2>1 DEF Below
<1>3. ASSUME Interface!Paint, Interface!Served, ui = "loop" PROVE Below(SplashRank', SplashRank)
  <2>1. frame' = frame + 1 /\ ui' = ui
    BY <1>1, <1>3 DEF Interface!Paint, Interface!Served
  <2>2. SplashRank = <<0, left, due, 0>>
    BY <1>3 DEF SplashRank
  <2>3. SplashRank'[1] = 0 /\ SplashRank'[2] = Frames - 1 - (frame + 1)
    BY <1>3, <2>1 DEF SplashRank
  <2>4. Frames - 1 - (frame + 1) \in Nat /\ Frames - 1 - (frame + 1) < left
    BY <1>1
  <2> HIDE DEF left, due
  <2>5. QED
    BY <1>1, <2>2, <2>3, <2>4 DEF Below
<1>4. CASE Interface!PaintMessage
  BY <1>3, <1>4 DEF Interface!PaintMessage, Interface!Serving
<1>5. CASE Interface!TimerMessage
  <2>1. h_splash_wnd = "window" /\ timer = "window"
    BY <1>5 DEF Interface!TimerMessage, Interface!Serving, TimerInv, Playing, Visible
  <2>2. QED
    BY <1>3, <1>5, <2>1 DEF Interface!TimerMessage, Interface!Serving
<1>6. CASE Interface!Tick
  <2>1. ui = "loop" /\ ui' = ui /\ frame' = frame
    BY <1>6 DEF Interface!Tick, Interface!Served, Interface!windowVars, TimerInv
  <2>2. "WM_TIMER" \notin queue /\ "WM_TIMER" \in queue'
    BY <1>6 DEF Interface!Tick
  <2>3. SplashRank = <<0, left, 1, 0>> /\ SplashRank' = <<0, left, 0, 0>>
    BY <2>1, <2>2 DEF SplashRank
  <2> HIDE DEF left
  <2>4. QED
    BY <1>1, <2>3 DEF Below
<1>7. QED
  BY <1>2, <1>4, <1>5, <1>6 DEF Splash, Tick, Interface!Splash

\* Neither thread puts the other back.
LEMMA ThreadsApart ==
  ASSUME UnlockerInv
  PROVE  /\ Splash \/ Tick \/ Watch => UNCHANGED StartRank
         /\ MainThread \/ NothingToReplace \/ Watch =>
              SplashRank' = SplashRank \/ Below(SplashRank', SplashRank)
<1>1. ASSUME Splash \/ Tick \/ Watch PROVE UNCHANGED StartRank
  <2>1. UNCHANGED vars /\ main' = main
    BY <1>1 DEF Splash, Tick, Watch, Interface!Splash, Interface!Tick, Interface!Scanning,
       Interface!vars, Interface!SplashInit, Interface!SignalEvent, Interface!SetTimer,
       Interface!PaintMessage, Interface!TimerMessage, Interface!Served, Interface!mainVars
  <2>2. QED
    BY <2>1 DEF StartRank, vars, N
<1>2. ASSUME MainThread \/ NothingToReplace \/ Watch
      PROVE  SplashRank' = SplashRank \/ Below(SplashRank', SplashRank)
  <2>1. CASE StartInterface /\ Interface!BeginThread /\ ui' # ui
    <3>1. ui = "none" /\ ui' = "init"
      BY <2>1 DEF Interface!BeginThread, UnlockerInv, SplashInv, PlayInv
    <3>2. SplashRank[1] = 4 /\ SplashRank'[1] = 3
      BY <3>1 DEF SplashRank
    <3>3. QED
      BY <3>2 DEF Below
  <2>2. CASE ~(StartInterface /\ Interface!BeginThread /\ ui' # ui)
    <3>1. ui' = ui /\ frame' = frame /\ queue' = queue
      BY <1>2, <2>2 DEF MainThread, ReadArguments, RefuseArguments, StartInterface, PrintHelp,
         NothingToReplace, Watch, Interface!Scanning, Interface!Return, Interface!Main,
         Interface!InterfaceInit, Interface!BeginThread, Interface!WaitSignalled,
         Interface!WaitTimeout, Interface!vars, Interface!windowVars, interfaceVars
    <3>2. QED
      BY <3>1 DEF SplashRank
  <2>3. QED
    BY <2>1, <2>2
<1>3. QED
  BY <1>1, <1>2

\* The main thread lowers the rank of the start, and nobody else touches it.
StartNears ==
  [][/\ MainThread \/ NothingToReplace => Below(StartRank', StartRank)
     /\ Splash \/ Tick \/ Watch => UNCHANGED StartRank]_unlockerVars

\* main.c, ParseArguments and main: each argument read, in either pass, and
\* each step of the start, brings main nearer to watching or to its return,
\* whatever the splash thread does.
THEOREM StartComesNearer == UnlockerSpec => [](StartRank \in Ranks) /\ StartNears
<1>1. UnlockerInv /\ [UnlockerNext]_unlockerVars =>
        [/\ MainThread \/ NothingToReplace => Below(StartRank', StartRank)
         /\ Splash \/ Tick \/ Watch => UNCHANGED StartRank]_unlockerVars
  BY StartFalls, ThreadsApart
<1>2. QED
  BY <1>1, UnlockerInvariant, StartRankIsRank, PTL DEF UnlockerSpec, StartNears

\* The splash thread and its timer lower the rank of the splash, as long as
\* there is something to play, and the main thread never raises it.
SplashNears ==
  [][/\ (Splash \/ Tick) /\ Playing => Below(SplashRank', SplashRank)
     /\ MainThread \/ NothingToReplace \/ Watch =>
          SplashRank' = SplashRank \/ Below(SplashRank', SplashRank)]_unlockerVars

\* main.c, SplashThread and SplashWndProc: a splash that has its window comes
\* nearer to its last frame with every message, for any number of frames.
THEOREM SplashComesNearer == UnlockerSpec => [](SplashRank \in Ranks) /\ SplashNears
<1>1. UnlockerInit => TimerInv
  BY DEF UnlockerInit, Interface!Init, TimerInv
<1>2. UnlockerInv /\ TimerInv /\ [UnlockerNext]_unlockerVars => TimerInv'
  BY TimerStep
<1>3. UnlockerInv /\ TimerInv /\ [UnlockerNext]_unlockerVars =>
        [/\ (Splash \/ Tick) /\ Playing => Below(SplashRank', SplashRank)
         /\ MainThread \/ NothingToReplace \/ Watch =>
              SplashRank' = SplashRank \/ Below(SplashRank', SplashRank)]_unlockerVars
  BY SplashFalls, ThreadsApart
<1>4. UnlockerInv => SplashRank \in Ranks
  BY SplashParts DEF UnlockerInv
<1>5. QED
  BY <1>1, <1>2, <1>3, <1>4, UnlockerInvariant, PTL DEF UnlockerSpec, SplashNears
=============================================================================
