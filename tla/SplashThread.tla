----------------------------- MODULE SplashThread -----------------------------
(***************************************************************************)
(* msys2-unlocker/main.c: InterfaceStateInit starts the thread that shows  *)
(* the splash and waits for it; SplashThread makes the window, sets a      *)
(* timer and serves the window's messages as long as the process lives.    *)
(* The two threads share InterfaceState and ui_thread_event.  Unlocker     *)
(* puts this and the other parts of the program together.                  *)
(***************************************************************************)
EXTENDS Naturals

CONSTANT Frames     \* IDC_SPLASH_COUNT, at least 2

VARIABLES
  interface_style,              \* Arguments
  main, status, waited,         \* the main thread
  bitmaps, use_gui, use_tui,    \* InterfaceState: pictures, what is in use
  ui_thread_event,
  ui, h_splash_wnd,             \* the splash thread and its window
  timer, queue,                 \* the window's timer and pending messages
  frame, done_donate,           \* the statics of SplashWndProc
  shown, donations              \* history: frames drawn, pages opened

stateVars == <<bitmaps, use_gui, use_tui>>
mainVars == <<main, status, waited>>
windowVars == <<frame, done_donate, shown, donations>>
vars == <<interface_style, main, status, waited, bitmaps, use_gui, use_tui,
          ui_thread_event, ui, h_splash_wnd, timer, queue, frame, done_donate,
          shown, donations>>

\* Neither the pictures nor h_splash_wnd are set before they are made.
Init ==
  /\ interface_style \in {{"tui"}, {"gui"}, {"tui", "gui"}}
  /\ main = "init" /\ status = "kSuccess" /\ waited = "no"
  /\ bitmaps = [f \in 0 .. Frames - 1 |-> "unset"] /\ use_gui = FALSE /\ use_tui = FALSE
  /\ ui_thread_event = FALSE
  /\ ui = "none" /\ h_splash_wnd = "unset"
  /\ timer = "off" /\ queue = {}
  /\ frame = 0 /\ done_donate = FALSE /\ shown = {} /\ donations = 0

-----------------------------------------------------------------------------
(* The main thread.                                                        *)

\* LoadBitmapFromResource for the first n pictures.  Each is an image then, or
\* NULL where GDI+ could not decode it, whose status the code ignores.
Loaded(n) ==
  {b \in [0 .. Frames - 1 -> {"unset", "NULL", "image"}] :
     \A f \in 0 .. Frames - 1 : b[f] = "unset" <=> n <= f}
Load == \E n \in IF "gui" \in interface_style THEN 0 .. Frames ELSE {0} :
          bitmaps' \in Loaded(n)

\* The text interface always fails.  The graphical one fails when GDI+ does
\* not start or a resource cannot be had; the pictures before it stay loaded.
\* Only when both were asked for and failed is that an error.
InterfaceInit ==
  /\ main = "init"
  /\ Load
  /\ use_tui' = FALSE
  /\ use_gui' = ("gui" \in interface_style /\ bitmaps' \in Loaded(Frames))
  /\ status' = IF interface_style = {"tui", "gui"} /\ ~use_gui'
                 THEN "kFailTuiNYI" ELSE "kSuccess"
  /\ main' = "start"
  /\ UNCHANGED <<interface_style, waited, ui_thread_event, ui, h_splash_wnd,
                 timer, queue, windowVars>>

\* CreateEvent and _beginthreadex; that the thread was started is not checked.
BeginThread ==
  /\ main = "start" /\ main' = "wait"
  /\ ui' \in {"init", "none"}
  /\ UNCHANGED <<interface_style, status, waited, stateVars, ui_thread_event,
                 h_splash_wnd, timer, queue, windowVars>>

GoOn == main' = IF status = "kSuccess" THEN "running" ELSE "ended"

WaitSignalled ==
  /\ main = "wait" /\ ui_thread_event
  /\ ui_thread_event' = FALSE /\ waited' = "signalled"
  /\ GoOn
  /\ UNCHANGED <<interface_style, status, stateVars, ui, h_splash_wnd, timer,
                 queue, windowVars>>

\* Mistake: the wait has no timeout.
WaitForEver == main = "wait" /\ ~ui_thread_event /\ UNCHANGED vars

\* Five seconds have passed.
WaitTimeout ==
  /\ main = "wait" /\ ~ui_thread_event
  /\ waited' = "timeout"
  /\ GoOn
  /\ UNCHANGED <<interface_style, status, stateVars, ui_thread_event, ui,
                 h_splash_wnd, timer, queue, windowVars>>

\* main returns: for --help, or when there is nothing left to move.
Return ==
  /\ main = "running" /\ main' = "ended"
  /\ UNCHANGED <<interface_style, status, waited, stateVars, ui_thread_event,
                 ui, h_splash_wnd, timer, queue, windowVars>>

-----------------------------------------------------------------------------
(* The splash thread; it ends with the process.                            *)

Alive == main # "ended"

\* GraphicalSplashInitThread: the class cannot be registered, the window
\* cannot be made, or it is made and shown, which has it painted.  It takes its
\* size from the first picture; without that, from two numbers never set, and it
\* may be a window without an inside, which is never painted.
SplashInit ==
  /\ Alive /\ ui = "init" /\ ui' = "signal"
  /\ \/ use_gui /\ UNCHANGED <<h_splash_wnd, queue>>
     \/ use_gui /\ h_splash_wnd' = "NULL" /\ UNCHANGED queue
     \/ use_gui /\ h_splash_wnd' = "window" /\ queue' = queue \cup {"WM_PAINT"}
     \/ /\ use_gui /\ bitmaps[0] = "NULL" /\ h_splash_wnd' = "empty"
        /\ UNCHANGED queue
     \/ ~use_gui /\ UNCHANGED <<h_splash_wnd, queue>>
  /\ UNCHANGED <<interface_style, mainVars, stateVars, ui_thread_event, timer,
                 windowVars>>

\* Mistake: the event is set before the window is made.
SignalEventEarly ==
  /\ Alive /\ ui = "init" /\ ~ui_thread_event /\ waited = "no"
  /\ ui_thread_event' = TRUE
  /\ UNCHANGED <<interface_style, mainVars, stateVars, ui, h_splash_wnd, timer,
                 queue, windowVars>>

SignalEvent ==
  /\ Alive /\ ui = "signal" /\ ui' = "timer"
  /\ ui_thread_event' = TRUE
  /\ UNCHANGED <<interface_style, mainVars, stateVars, h_splash_wnd, timer,
                 queue, windowVars>>

\* Mistake: the timer is the thread's, whatever the window.
SetThreadTimer ==
  /\ Alive /\ ui = "timer" /\ ui' = "loop"
  /\ timer' = "thread"
  /\ UNCHANGED <<interface_style, mainVars, stateVars, ui_thread_event,
                 h_splash_wnd, queue, windowVars>>

\* SetTimer: without a window the timer is the thread's own and its messages
\* reach no window procedure.  A handle that was never set may be NULL, or is
\* no window of this thread, and SetTimer fails.
SetTimer ==
  /\ Alive /\ ui = "timer" /\ ui' = "loop"
  /\ timer' \in CASE h_splash_wnd \in {"window", "empty"} -> {"window"}
                  [] h_splash_wnd = "NULL" -> {"thread"}
                  [] h_splash_wnd = "unset" -> {"off", "thread"}
  /\ UNCHANGED <<interface_style, mainVars, stateVars, ui_thread_event,
                 h_splash_wnd, queue, windowVars>>

\* Mistake: a picture that cannot be drawn is drawn all the same.
PaintBlindly ==
  /\ shown' = shown \cup {frame}
  /\ frame' = IF frame < Frames - 1 THEN frame + 1 ELSE frame
  /\ done_donate' = (done_donate \/ frame' = Frames - 1)
  /\ donations' = donations + (IF done_donate' = done_donate THEN 0 ELSE 1)

\* SplashWndProc, WM_PAINT: a picture is drawn, if there is one, and the next
\* one is due in any case; when that is the last one the page is opened, once.
Paint ==
  /\ shown' = shown \cup {f \in {frame} : bitmaps[f] # "NULL"}
  /\ frame' = IF frame < Frames - 1 THEN frame + 1 ELSE frame
  /\ done_donate' = (done_donate \/ frame' = Frames - 1)
  /\ donations' = donations + (IF done_donate' = done_donate THEN 0 ELSE 1)

Serving == Alive /\ ui = "loop"
Served == UNCHANGED <<interface_style, mainVars, stateVars, ui_thread_event, ui,
                      h_splash_wnd, timer>>

PaintMessage ==
  /\ Serving /\ "WM_PAINT" \in queue
  /\ queue' = queue \ {"WM_PAINT"}
  /\ Paint /\ Served

\* WM_TIMER has the window painted before it returns; that leaves nothing to
\* paint.  A window without an inside has nothing to paint either.  A timer
\* without a window is dispatched to nobody.
TimerMessage ==
  /\ Serving /\ "WM_TIMER" \in queue
  /\ IF h_splash_wnd = "window" /\ timer = "window"
       THEN queue' = {} /\ Paint
       ELSE queue' = queue \ {"WM_TIMER"} /\ UNCHANGED windowVars
  /\ Served

\* The timer comes due; timer messages do not pile up.
Tick ==
  /\ Alive /\ timer # "off" /\ "WM_TIMER" \notin queue
  /\ queue' = queue \cup {"WM_TIMER"}
  /\ UNCHANGED windowVars /\ Served

Main == \/ InterfaceInit \/ BeginThread \/ WaitSignalled \/ WaitTimeout
Splash == SplashInit \/ SignalEvent \/ SetTimer \/ PaintMessage \/ TimerMessage

Ended == main = "ended" /\ UNCHANGED vars

\* The main thread is scanning (LockingProcesses), which the splash is
\* independent of.
Scanning == main = "running" /\ UNCHANGED vars

-----------------------------------------------------------------------------
\* Every variable holds a value of its type, and the frame is one of the
\* pictures of the array; signalled, main goes on only when the splash thread
\* is past all that it shares with it.
TypeOK ==
  /\ interface_style \in SUBSET {"tui", "gui"}
  /\ main \in {"init", "start", "wait", "running", "ended"}
  /\ status \in {"kSuccess", "kFailTuiNYI"}
  /\ waited \in {"no", "signalled", "timeout"}
  /\ bitmaps \in [0 .. Frames - 1 -> {"unset", "NULL", "image"}]
  /\ use_gui \in BOOLEAN /\ use_tui \in BOOLEAN
  /\ ui_thread_event \in BOOLEAN
  /\ ui \in {"none", "init", "signal", "timer", "loop"}
  /\ h_splash_wnd \in {"unset", "NULL", "empty", "window"}
  /\ timer \in {"off", "thread", "window"}
  /\ queue \subseteq {"WM_PAINT", "WM_TIMER"}
  /\ frame \in 0 .. Frames - 1 /\ done_donate \in BOOLEAN
  /\ shown \subseteq 0 .. Frames - 1 /\ donations \in Nat
  /\ waited = "signalled" => ui \in {"timer", "loop"}

Images == {f \in 0 .. Frames - 1 : bitmaps[f] = "image"}

\* What is drawn is a picture that has been decoded: a window stands only with
\* all of its pictures loaded, although a failed start leaves some of them so,
\* and one that could not be decoded is passed over.
DrawnIsLoaded == shown \subseteq Images

\* The pictures are drawn one after the other: of those that have been due all
\* that could be decoded, and none ahead of its turn; the page is opened at most
\* once, when the last one is due.
SplashInOrder ==
  /\ \A f \in Images : f < frame => f \in shown
  /\ \A f \in shown : f <= frame
  /\ donations <= 1
  /\ donations = 1 => frame = Frames - 1

\* A splash that has its window draws every picture there is while main runs.
SplashPlays ==
  h_splash_wnd = "window" ~>
    \/ frame = Frames - 1 /\ Images \subseteq shown
    \/ main = "ended"
=============================================================================
