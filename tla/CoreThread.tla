----------------------------- MODULE CoreThread -----------------------------
(***************************************************************************)
(* The two threads of minarch.c.  With the option "Prioritize Audio" the   *)
(* core runs on a thread of its own (coreThread) and hands each frame to   *)
(* main through a condition variable without a predicate; without it main  *)
(* runs the core.  Main switches between the two between frames, when      *)
(* toggle_thread asks for it: the option was changed, fast forward began   *)
(* or ended, or POWER was pressed.                                         *)
(*                                                                         *)
(* core.run() is three steps: it polls the input, hands over its video,    *)
(* and hands over its audio, where it may sleep.  A critical section of    *)
(* core_mx on the core's thread is one step; main holds core_mx in "flip". *)
(* A cancelled thread ends at read() in PAD_poll or at SDL_Delay.          *)
(* Init, Next, ... have Core before them: SndRing is extended beside this. *)
(***************************************************************************)
EXTENDS Naturals

CONSTANT DupeFrames  \* whether the core may pass no data for a frame

ASSUME CoreAssumption == DupeFrames \in BOOLEAN

VARIABLES
  option,           \* the value of FE_OPT_THREAD
  thread_video, was_threaded, toggle_thread,
  fast_forward, show_menu, should_run_core, quit,
  power_down,       \* POWER is held
  main, core,       \* where the two threads are; "none" is no thread
  cancel            \* pthread_cancel was called on the core's thread

threadVars == <<option, thread_video, was_threaded, toggle_thread>>
flagVars == <<fast_forward, show_menu, should_run_core, quit, power_down>>
coreVars == <<threadVars, flagVars, main, core, cancel>>

\* Before the main loop: Config_readOptions asks for the thread by toggling.
CoreInit ==
  /\ option \in BOOLEAN
  /\ thread_video = FALSE /\ was_threaded = FALSE /\ toggle_thread = option
  /\ fast_forward = FALSE /\ show_menu = FALSE /\ should_run_core = TRUE
  /\ quit = FALSE /\ power_down = FALSE
  /\ main = "top" /\ core = "none" /\ cancel = FALSE
----------------------------------------------------------------------------
(* input_poll_callback, on whichever thread runs the core *)

Powers == {"none", "press", "release"}

\* Faulty variant: fast forward lets the core run on behind the menu.
PollFastMenu(power, ff, menu, save_quit) ==
  LET power_pressed == power = "press" /\ thread_video
      entered == ff /\ ~fast_forward /\ thread_video
      exited == ff /\ fast_forward /\ ~thread_video /\ was_threaded
  IN /\ power = "press" => ~power_down
     /\ power = "release" => power_down /\ ~ff /\ ~menu /\ ~save_quit
     /\ power_down' = (power = "press" \/ (power_down /\ power # "release"))
     /\ was_threaded' = ((was_threaded /\ ~exited) \/ power_pressed \/ entered)
     /\ toggle_thread' = (toggle_thread \/ power_pressed \/ entered \/ exited)
     /\ fast_forward' = (fast_forward # ff)
     /\ quit' = (quit \/ save_quit)
     /\ show_menu' = (show_menu \/ menu)
     /\ should_run_core' = (should_run_core /\ ~(menu /\ thread_video /\ ~fast_forward))
     /\ UNCHANGED <<option, thread_video>>
\* PWR_update first: on the release of POWER the device sleeps and PAD_reset
\* forgets the release, so that the branch for it is never reached.  Then POWER
\* and setFastForward ask for a switch, SAVE_QUIT quits, and MENU asks for the
\* menu and, with a thread, stops the core after this frame.
Poll(power, ff, menu, save_quit) ==
  LET power_pressed == power = "press" /\ thread_video
      entered == ff /\ ~fast_forward /\ thread_video
      exited == ff /\ fast_forward /\ ~thread_video /\ was_threaded
  IN /\ power = "press" => ~power_down
     /\ power = "release" => power_down /\ ~ff /\ ~menu /\ ~save_quit
     /\ power_down' = (power = "press" \/ (power_down /\ power # "release"))
     /\ was_threaded' = ((was_threaded /\ ~exited) \/ power_pressed \/ entered)
     /\ toggle_thread' = (toggle_thread \/ power_pressed \/ entered \/ exited)
     /\ fast_forward' = (fast_forward # ff)
     /\ quit' = (quit \/ save_quit)
     /\ show_menu' = (show_menu \/ menu)
     /\ should_run_core' = (should_run_core /\ ~(menu /\ thread_video))
     /\ UNCHANGED <<option, thread_video>>

PollInput ==
  \E power \in Powers, ff, menu, save_quit \in BOOLEAN : Poll(power, ff, menu, save_quit)

CoreMxFree == main # "flip"
----------------------------------------------------------------------------
(* coreThread *)

\* while (!quit) { run = should_run_core; if (run) core.run() }
CoreCheck ==
  /\ core = "check"
  /\ \/ quit /\ core' = "dead"
     \/ ~quit /\ CoreMxFree /\ should_run_core /\ core' = "poll"
  /\ UNCHANGED <<threadVars, flagVars, main, cancel>>

\* MENU clears should_run_core under core_mx.
CorePoll ==
  /\ core = "poll" /\ ~cancel /\ CoreMxFree
  /\ PollInput
  /\ core' = "video"
  /\ UNCHANGED <<main, cancel>>

\* video_refresh_callback copies the frame and signals core_rq, or draws it
\* itself once main has turned thread_video off.
CoreVideo ==
  /\ core = "video"
  /\ thread_video => CoreMxFree
  /\ main' = IF thread_video /\ main = "waiting" THEN "woken" ELSE main
  /\ core' = "audio"
  /\ UNCHANGED <<threadVars, flagVars, cancel>>

\* The core repeats its last frame: no data, and no signal.
CoreDupe ==
  /\ DupeFrames
  /\ core = "video"
  /\ core' = "audio"
  /\ UNCHANGED <<threadVars, flagVars, main, cancel>>

\* SND_batchSamples and limitFF, which sleep at times; core.run returns.
CoreAudio ==
  /\ core = "audio"
  /\ core' = "check"
  /\ UNCHANGED <<threadVars, flagVars, main, cancel>>

\* The thread ends in the middle of core.run.
CoreCancelled ==
  /\ cancel /\ core \in {"poll", "audio"}
  /\ core' = "dead"
  /\ UNCHANGED <<threadVars, flagVars, main, cancel>>
----------------------------------------------------------------------------
(* main *)

\* while (!quit): wait for the core's thread, or run the core.
MainTop ==
  /\ main = "top"
  /\ main' = IF quit THEN "finish" ELSE IF thread_video THEN "enter" ELSE "run"
  /\ UNCHANGED <<threadVars, flagVars, core, cancel>>

MainRun ==
  /\ main = "run"
  /\ PollInput
  /\ main' = "after"
  /\ UNCHANGED <<core, cancel>>

\* pthread_mutex_lock, pthread_cond_wait: there is nothing to check first.
MainWait ==
  /\ main = "enter"
  /\ main' = "waiting"
  /\ UNCHANGED <<threadVars, flagVars, core, cancel>>

\* POSIX lets pthread_cond_wait return without a signal.
SpuriousWakeup ==
  /\ main = "waiting"
  /\ main' = "woken"
  /\ UNCHANGED <<threadVars, flagVars, core, cancel>>

\* pthread_cond_wait takes core_mx again; draw the backbuffer, flip.
MainFlip ==
  /\ main = "woken"
  /\ main' = "flip"
  /\ UNCHANGED <<threadVars, flagVars, core, cancel>>

MainUnlock ==
  /\ main = "flip"
  /\ main' = "after"
  /\ UNCHANGED <<threadVars, flagVars, core, cancel>>

\* if (show_menu) Menu_loop();
MainMenu ==
  /\ main = "after"
  /\ main' = IF show_menu THEN "menu" ELSE "toggle"
  /\ UNCHANGED <<threadVars, flagVars, core, cancel>>

\* The option is changed in the menu: Config_syncFrontend.
MenuOption ==
  /\ main = "menu"
  /\ option' = ~option
  /\ toggle_thread' = ((thread_video \/ was_threaded) # option')
  /\ UNCHANGED <<thread_video, was_threaded, flagVars, main, core, cancel>>

\* Faulty variant: leaves it to the switch that follows to run the core again.
MenuContinueToggled ==
  /\ main = "menu"
  /\ show_menu' = FALSE
  /\ should_run_core' = (should_run_core \/ (thread_video /\ ~toggle_thread))
  /\ main' = "toggle"
  /\ UNCHANGED <<threadVars, fast_forward, quit, power_down, core, cancel>>
\* Faulty variant: leaves the core stopped when the game fast forwards.
MenuContinueSlow ==
  /\ main = "menu"
  /\ show_menu' = FALSE
  /\ should_run_core' = (should_run_core \/ (thread_video /\ ~fast_forward))
  /\ main' = "toggle"
  /\ UNCHANGED <<threadVars, fast_forward, quit, power_down, core, cancel>>
\* Menu_loop ends, and the game goes on.
MenuContinue ==
  /\ main = "menu"
  /\ show_menu' = FALSE
  /\ should_run_core' = (should_run_core \/ thread_video)
  /\ main' = "toggle"
  /\ UNCHANGED <<threadVars, fast_forward, quit, power_down, core, cancel>>

\* Menu_loop ends with QUIT, or because HDMI changed (hdmimon).
MenuQuit ==
  /\ main = "menu"
  /\ show_menu' = FALSE /\ quit' = TRUE
  /\ main' = "toggle"
  /\ UNCHANGED <<threadVars, fast_forward, should_run_core, power_down, core, cancel>>

\* was_threaded and not threaded: revert to the state before fast forward.
Reverts == was_threaded /\ ~thread_video
ThreadOn == Reverts \/ thread_video

\* Faulty variant: cancels the thread and does not wait for it.
MainToggleNoJoin ==
  /\ main = "toggle" /\ toggle_thread
  /\ toggle_thread' = FALSE
  /\ was_threaded' = (was_threaded /\ ~Reverts)
  /\ thread_video' = ~ThreadOn
  /\ IF ThreadOn
     THEN cancel' = TRUE /\ main' = "hdmi" /\ UNCHANGED core
     ELSE core' = "check" /\ cancel' = FALSE /\ main' = "hdmi"
  /\ UNCHANGED <<option, flagVars>>
\* if (toggle_thread): create the core's thread, or cancel it and wait for it.
MainToggle ==
  /\ main = "toggle" /\ toggle_thread
  /\ toggle_thread' = FALSE
  /\ was_threaded' = (was_threaded /\ ~Reverts)
  /\ thread_video' = ~ThreadOn
  /\ IF ThreadOn
     THEN cancel' = TRUE /\ main' = "join" /\ UNCHANGED core
     ELSE core' = "check" /\ cancel' = FALSE /\ main' = "hdmi"
  /\ UNCHANGED <<option, flagVars>>

MainNoToggle ==
  /\ main = "toggle" /\ ~toggle_thread
  /\ main' = "hdmi"
  /\ UNCHANGED <<threadVars, flagVars, core, cancel>>

\* pthread_join returns; joining a thread that was joined before is undefined.
MainJoin ==
  /\ main = "join"
  /\ \/ core = "dead" /\ main' = "hdmi"
     \/ core = "none" /\ main' \in {"hdmi", "crashed"}
  /\ core' = "none" /\ cancel' = FALSE
  /\ UNCHANGED <<threadVars, flagVars>>

\* hdmimon: HDMI may have changed.
MainHdmi ==
  /\ main = "hdmi"
  /\ \/ UNCHANGED <<show_menu, quit>>
     \/ show_menu' = FALSE /\ quit' = TRUE
  /\ main' = "top"
  /\ UNCHANGED <<threadVars, fast_forward, should_run_core, power_down, core, cancel>>

\* Core_unload, Core_quit, Core_close: the core is gone, its thread is not joined.
MainFinish ==
  /\ main = "finish"
  /\ main' = "unloaded"
  /\ UNCHANGED <<threadVars, flagVars, core, cancel>>

MainStep ==
  \/ MainTop \/ MainRun \/ MainWait \/ MainFlip \/ MainUnlock \/ MainMenu
  \/ MainToggle \/ MainNoToggle \/ MainJoin \/ MainHdmi \/ MainFinish

CoreStep == CoreCheck \/ CorePoll \/ CoreVideo \/ CoreDupe \/ CoreAudio \/ CoreCancelled

CoreNext ==
  \/ MainStep \/ CoreStep
  \/ MenuOption \/ MenuContinue \/ MenuQuit
  \/ SpuriousWakeup

\* Both threads are scheduled, core_mx is granted to whoever keeps asking, and a
\* core that repeats frames still draws one now and then.  The player need not
\* do anything, and no wakeup is promised without a signal.
CoreFairness ==
  /\ WF_coreVars(MainStep)
  /\ WF_coreVars(CoreStep) /\ SF_coreVars(CoreCheck) /\ SF_coreVars(CorePoll) /\ SF_coreVars(CoreVideo)

CoreSpec == CoreInit /\ [][CoreNext]_coreVars /\ CoreFairness
----------------------------------------------------------------------------
CoreTypeOK ==
  /\ option \in BOOLEAN /\ thread_video \in BOOLEAN /\ was_threaded \in BOOLEAN
  /\ toggle_thread \in BOOLEAN /\ fast_forward \in BOOLEAN /\ show_menu \in BOOLEAN
  /\ should_run_core \in BOOLEAN /\ quit \in BOOLEAN /\ power_down \in BOOLEAN
  /\ cancel \in BOOLEAN /\ (cancel => main = "join")
  /\ main \in {"top", "run", "enter", "waiting", "woken", "flip", "after", "menu",
               "toggle", "join", "hdmi", "finish", "unloaded", "crashed"}
  /\ core \in {"none", "check", "poll", "video", "audio", "dead"}

\* Main runs the core only when no other thread can be in it, whatever mix of
\* fast forward, POWER, the option and the menu led here (the switch in main).
CoreRunsOnce == main = "run" => core = "none"

\* No frame begins behind the menu, though main opens it on its own thread
\* while the core's still runs (should_run_core in input_poll_callback).
NoFrameBehindMenu == [][core = "check" /\ core' = "poll" => main # "menu"]_coreVars

\* MENU was pressed after main looked at show_menu and before it is done with
\* toggle_thread: two lines of main, the one window the next two exclude.
MenuRace == main \in {"toggle", "join"} /\ show_menu

\* pthread_join returns: the core's thread reaches a cancellation point, also
\* when the switch comes straight out of the menu (Menu_loop, coreThread).
JoinReturns == main = "join" ~> main # "join" \/ MenuRace

\* Lost signals are made up for: while the game is played, main keeps drawing
\* (pthread_cond_wait in main, should_run_core at the end of Menu_loop).
KeepsDrawing ==
  []~MenuRace => []<>(main \in {"flip", "run", "crashed"} \/ show_menu \/ quit)

\* The option says it "may cause dropped frames", no more: MENU opens the menu.
MenuOpens == show_menu ~> main = "menu" \/ quit \/ main = "crashed"
=============================================================================
