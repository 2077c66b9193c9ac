------------------------------ MODULE Session ------------------------------
(***************************************************************************)
(* From power-on to power-off: launch.sh runs minui.elf (the launcher) and *)
(* minarch.elf (a game) in turn; they talk through files.  On the SD card: *)
(* auto_resume.txt, which names the game to resume, and the quicksave of   *)
(* each game (save-state slot 9).  In /tmp, empty after a boot:            *)
(* resume_slot.txt, next and minui_exec.                                   *)
(*                                                                         *)
(* A write to the card reaches it at the next sync() or earlier, in any    *)
(* order: for each file on the card the model keeps what programs read and *)
(* the set of contents a power cut may leave.  fopen(.., "w") empties the  *)
(* file before it is written.  Save memory, the settings and the slots the *)
(* player saves by hand are not part of this module.                       *)
(***************************************************************************)
EXTENDS Integers

CONSTANTS
  Game,      \* roms on the card
  NoGame,    \* not a rom
  PowerCuts, \* whether the battery may be pulled
  MaxSaves   \* bound: quicksaves made

ASSUME SessionAssumption ==
  /\ NoGame \notin Game
  /\ PowerCuts \in BOOLEAN
  /\ MaxSaves \in Nat

VARIABLES
  auto, autoDisk,    \* AUTO_RESUME_PATH: as read, and as a power cut may leave it
  quick, quickDisk,  \* the same for the quicksave of each game
  resume_slot, next, exec,  \* RESUME_SLOT_PATH, /tmp/next, /tmp/minui_exec
  pc,        \* which program runs, and where it is
  game,      \* the game minarch runs
  reason,    \* why Menu_beforeSleep was called
  quit,      \* minarch's quit
  noui,      \* NOUI_PATH exists
  halting,   \* shutdown has been asked for
  saves, failed, consumed, chosen, resuming, loaded, wanted  \* history, see TypeOK

cardVars == <<auto, autoDisk, quick, quickDisk>>
tmpVars == <<resume_slot, next, exec>>
gameVars == <<game, reason, quit>>
historyVars == <<saves, failed, consumed, chosen, resuming, loaded, wanted>>
vars == <<cardVars, tmpVars, pc, gameVars, noui, halting, historyVars>>

\* A mark names a game; n tells apart the quicksaves it was written for.  A
\* truncated mark exists but names no game.
NoMark == [game |-> NoGame, n |-> 0]
Mark(g) == [game |-> g, n |-> saves]
Torn == -1  \* a quicksave that is truncated; 0 is no file

\* The slots minarch is told to load: none, the hidden default 8, the slot the
\* launcher's RESUME names, and AUTO_RESUME_SLOT.
Slot == {"none", "hidden", "resume", "auto"}

NothingLoaded == [slot |-> "none", mark |-> 0, save |-> 0, newest |-> 0]

Init ==
  /\ auto = NoMark /\ autoDisk = {NoMark}
  /\ quick = [g \in Game |-> 0] /\ quickDisk = [g \in Game |-> {0}]
  /\ resume_slot = "none" /\ next = NoGame /\ exec = FALSE
  /\ pc = "off"
  /\ game = NoGame /\ reason = "none" /\ quit = FALSE
  /\ noui = FALSE /\ halting = FALSE
  /\ saves = 0 /\ failed = {} /\ consumed = {} /\ chosen = "none" /\ resuming = NoMark
  /\ loaded = NothingLoaded /\ wanted = NoGame
----------------------------------------------------------------------------
(* The card *)

\* sync() when auto_resume.txt reads a and the quicksaves read q.
Sync(a, q) ==
  /\ auto' = a /\ autoDisk' = {a}
  /\ quick' = q /\ quickDisk' = [g \in Game |-> {q[g]}]

SyncOnly == Sync(auto, quick)
----------------------------------------------------------------------------
(* launch.sh *)

\* touch "$EXEC_PATH" && sync, with an empty /tmp; a pak may leave /tmp/noui.
Boot ==
  /\ pc = "off"
  /\ resume_slot' = "none" /\ next' = NoGame /\ exec' = TRUE
  /\ noui' \in BOOLEAN
  /\ pc' = "launch"
  /\ quit' = FALSE /\ halting' = FALSE
  /\ loaded' = NothingLoaded /\ wanted' = NoGame
  /\ SyncOnly
  /\ UNCHANGED <<game, reason, saves, failed, consumed, chosen, resuming>>

\* The loop ends: shutdown.
ScriptEnds ==
  /\ pc = "launch" /\ ~exec
  /\ pc' = "ended" /\ halting' = TRUE
  /\ SyncOnly
  /\ UNCHANGED <<tmpVars, gameVars, noui, historyVars>>

\* What launch.sh does once minarch has ended: rm -f $NEXT_PATH, sync, loop.
BackToLaunch ==
  /\ next' = NoGame
  /\ pc' = "launch"
  /\ SyncOnly
----------------------------------------------------------------------------
(* minui.elf *)

\* Faulty variant: takes the mark away without sync().
AutoResumeNoSync ==
  /\ pc = "launch" /\ exec /\ auto # NoMark
  /\ auto' = NoMark /\ autoDisk' = autoDisk \cup {NoMark}
  /\ UNCHANGED <<quick, quickDisk>>
  /\ \/ /\ auto.game \in Game
        /\ resume_slot' = "auto" /\ next' = auto.game
        /\ pc' = "next"
        /\ chosen' = "auto" /\ resuming' = auto /\ consumed' = consumed \cup {auto.n}
     \/ /\ pc' = "list"
        /\ UNCHANGED <<resume_slot, next, chosen, resuming, consumed>>
  /\ UNCHANGED <<exec, gameVars, noui, halting, saves, failed, loaded, wanted>>
\* Faulty variant: launches what the mark says without looking whether it exists.
AutoResumeUnchecked ==
  /\ pc = "launch" /\ exec /\ auto # NoMark
  /\ Sync(NoMark, quick)
  /\ resume_slot' = "auto" /\ next' = auto.game
  /\ pc' = "next"
  /\ chosen' = "auto" /\ resuming' = auto /\ consumed' = consumed \cup {auto.n}
  /\ UNCHANGED <<exec, gameVars, noui, halting, saves, failed, loaded, wanted>>
\* There is a mark: take it away for good, then launch its game on slot 9, or
\* show the launcher when the rom or its emulator is gone (or no game is named).
AutoResume ==
  /\ pc = "launch" /\ exec /\ auto # NoMark
  /\ Sync(NoMark, quick)
  /\ \/ /\ auto.game \in Game
        /\ resume_slot' = "auto" /\ next' = auto.game
        /\ pc' = "next"
        /\ chosen' = "auto" /\ resuming' = auto /\ consumed' = consumed \cup {auto.n}
     \/ /\ pc' = "list"
        /\ UNCHANGED <<resume_slot, next, chosen, resuming, consumed>>
  /\ UNCHANGED <<exec, gameVars, noui, halting, saves, failed, loaded, wanted>>

\* There is no mark: the launcher's main loop.
ShowLauncher ==
  /\ pc = "launch" /\ exec /\ auto = NoMark
  /\ pc' = "list"
  /\ UNCHANGED <<cardVars, tmpVars, gameVars, noui, halting, historyVars>>

\* Faulty variant: writes RESUME_SLOT_PATH only when RESUME was pressed.
OpenRomKeepsSlot(g, slot) ==
  /\ pc = "list"
  /\ resume_slot' = IF slot = "resume" THEN slot ELSE resume_slot
  /\ next' = g
  /\ pc' = "next"
  /\ chosen' = slot
  /\ SyncOnly
  /\ UNCHANGED <<exec, gameVars, noui, halting, saves, failed, consumed, resuming,
                 loaded, wanted>>
\* openRom: the player starts g, on the slot RESUME names or the hidden one.
\* queueNext, then the script's sync after minui.elf.
OpenRom(g, slot) ==
  /\ pc = "list"
  /\ resume_slot' = slot
  /\ next' = g
  /\ pc' = "next"
  /\ chosen' = slot
  /\ SyncOnly
  /\ UNCHANGED <<exec, gameVars, noui, halting, saves, failed, consumed, resuming,
                 loaded, wanted>>

\* The launcher ends and starts again: a tool (openPak) ran, or HDMI changed.
RestartLauncher ==
  /\ pc = "list"
  /\ pc' = "launch"
  /\ SyncOnly
  /\ UNCHANGED <<tmpVars, gameVars, noui, halting, historyVars>>

\* PLAT_powerOff: rm -f /tmp/minui_exec && sync; shutdown.  It returns, and the
\* caller goes on until the system kills it.  g is the game it interrupts.
PowerOff(g) ==
  /\ exec' = FALSE
  /\ halting' = TRUE
  /\ wanted' = g
  /\ SyncOnly

\* PWR_update in the launcher, which gives it no callbacks: power off.
LauncherPowerOff ==
  /\ pc = "list" /\ ~halting
  /\ PowerOff(NoGame)
  /\ UNCHANGED <<resume_slot, next, pc, gameVars, noui, saves, failed, consumed, chosen,
                 resuming, loaded>>
----------------------------------------------------------------------------
(* minarch.elf *)

\* Game_open fails: main goes to finish, RESUME_SLOT_PATH stays.
GameOpenFails ==
  /\ pc = "next"
  /\ BackToLaunch
  /\ UNCHANGED <<resume_slot, exec, gameVars, noui, halting, historyVars>>

\* State_resume, in main, once the game and the core are loaded.
State_resume ==
  /\ pc = "next"
  /\ loaded' = [slot |-> resume_slot,
                mark |-> IF resume_slot = "auto" THEN resuming.n ELSE 0,
                save |-> IF resume_slot = "auto" THEN quick[next] ELSE 0,
                newest |-> saves]
  /\ resume_slot' = "none"
  /\ game' = next /\ quit' = FALSE
  /\ pc' = "play"
  /\ UNCHANGED <<cardVars, next, exec, reason, noui, halting, saves, failed, consumed,
                 chosen, resuming, wanted>>

\* Menu_beforeSleep up to State_write's fopen, which empties the quicksave.
\* PWR_update (power held, power tapped) and hdmimon call it; nothing stops
\* them from doing so again after a power-off or an HDMI change.
Menu_beforeSleep(why) ==
  /\ pc = "play" /\ saves < MaxSaves
  /\ saves' = saves + 1
  /\ quick' = [quick EXCEPT ![game] = Torn]
  /\ quickDisk' = [quickDisk EXCEPT ![game] = @ \cup {Torn}]
  /\ reason' = why
  /\ pc' = "saving"
  /\ UNCHANGED <<auto, autoDisk, tmpVars, game, quit, noui, halting, failed, consumed,
                 chosen, resuming, loaded, wanted>>

\* State_write returns or gives up before it opens the file: the core has no
\* states, no memory is left, or the file cannot be opened.
State_writeNotBegun(why) ==
  /\ pc = "play" /\ saves < MaxSaves
  /\ saves' = saves + 1 /\ failed' = failed \cup {saves + 1}
  /\ reason' = why
  /\ pc' = "saved"
  /\ UNCHANGED <<cardVars, tmpVars, game, quit, noui, halting, consumed, chosen, resuming,
                 loaded, wanted>>

\* State_write gives up with the file open: the core cannot serialize, or the
\* card is full.  Its caller is not told, and goes on as if it had been written.
State_writeFails ==
  /\ pc = "saving"
  /\ failed' = failed \cup {saves}
  /\ pc' = "saved"
  /\ UNCHANGED <<cardVars, tmpVars, gameVars, noui, halting, saves, consumed, chosen,
                 resuming, loaded, wanted>>

\* State_write: serialize, fwrite, fclose.
State_write ==
  /\ pc = "saving"
  /\ quick' = [quick EXCEPT ![game] = saves]
  /\ quickDisk' = [quickDisk EXCEPT ![game] = @ \cup {saves}]
  /\ pc' = "saved"
  /\ UNCHANGED <<auto, autoDisk, tmpVars, gameVars, noui, halting, historyVars>>

\* Faulty variant: marks the game before the quicksave is known to be on the card.
MarkGameNoSync ==
  /\ pc = "saved"
  /\ auto' = Mark(game)
  /\ autoDisk' = autoDisk \cup {Mark(NoGame), Mark(game)}
  /\ pc' = "marked"
  /\ UNCHANGED <<quick, quickDisk, tmpVars, gameVars, noui, halting, historyVars>>
\* State_write's sync(), then putFile(AUTO_RESUME_PATH), which may stay cached.
\* A core with neither states nor save memory has nothing to sync.
MarkGame ==
  /\ pc = "saved"
  /\ auto' = Mark(game)
  /\ \/ /\ autoDisk' = {auto, Mark(NoGame), Mark(game)}
        /\ quickDisk' = [g \in Game |-> {quick[g]}]
     \/ /\ saves \in failed /\ quick[game] = 0
        /\ autoDisk' = autoDisk \cup {Mark(NoGame), Mark(game)}
        /\ UNCHANGED quickDisk
  /\ pc' = "marked"
  /\ UNCHANGED <<quick, tmpVars, gameVars, noui, halting, historyVars>>

\* PWR_update goes on to PWR_powerOff.
GamePowerOff ==
  /\ pc = "marked" /\ reason = "off"
  /\ PowerOff(game)
  /\ pc' = "play"
  /\ UNCHANGED <<resume_slot, next, gameVars, noui, saves, failed, consumed, chosen,
                 resuming, loaded>>

\* PWR_update goes on to PWR_fauxSleep: PWR_enterSleep ends with sync().
PWR_enterSleep ==
  /\ pc = "marked" /\ reason = "sleep"
  /\ SyncOnly
  /\ pc' = "asleep"
  /\ UNCHANGED <<tmpVars, gameVars, noui, halting, historyVars>>

\* hdmimon: quit = 1, so that the game starts again with the new display.  A
\* menu inside the menu does not look at quit, and may sleep and wake after it.
HdmiRestart ==
  /\ pc = "marked" /\ reason = "hdmi"
  /\ quit' = TRUE
  /\ pc' = "play"
  /\ UNCHANGED <<cardVars, tmpVars, game, reason, noui, halting, historyVars>>

\* PWR_waitForWake, two minutes later and not charging: it powers off and goes
\* on waiting.
SleepTimeout ==
  /\ pc = "asleep" /\ ~halting
  /\ PowerOff(game)
  /\ UNCHANGED <<resume_slot, next, pc, gameVars, noui, saves, failed, consumed, chosen,
                 resuming, loaded>>

\* PWR_exitSleep ends with sync(); then Menu_afterSleep unlinks the mark, and
\* no sync() follows.
Wake ==
  /\ pc = "asleep"
  /\ auto' = NoMark /\ autoDisk' = {auto, NoMark}
  /\ quickDisk' = [g \in Game |-> {quick[g]}]
  /\ pc' = "play"
  /\ UNCHANGED <<quick, tmpVars, gameVars, noui, halting, historyVars>>

\* The player quits from the menu.  With NOUI_PATH, Menu_loop powers off first.
QuitGame ==
  /\ pc = "play" /\ ~quit
  /\ quit' = TRUE
  /\ IF noui THEN PowerOff(NoGame) ELSE UNCHANGED <<exec, halting, wanted, cardVars>>
  /\ UNCHANGED <<resume_slot, next, pc, game, reason, noui, saves, failed, consumed, chosen,
                 resuming, loaded>>

\* The main loop ends, or the core crashes (at any frame, or as it serializes).
LeaveGame ==
  /\ pc \in {"play", "saving"}
  /\ BackToLaunch
  /\ UNCHANGED <<resume_slot, exec, gameVars, noui, halting, historyVars>>
----------------------------------------------------------------------------
(* The machine *)

\* shutdown: every program is killed where it is (putFile may have emptied the
\* mark and not written it), and the card is unmounted.
Halt ==
  /\ halting /\ pc # "off"
  /\ pc' = "off"
  /\ \/ SyncOnly
     \/ pc = "saved" /\ Sync(Mark(NoGame), quick)
  /\ UNCHANGED <<tmpVars, gameVars, noui, halting, historyVars>>

\* The battery is pulled or runs out: the card keeps what it happens to hold.
PowerLoss ==
  /\ PowerCuts /\ pc # "off"
  /\ pc' = "off"
  /\ \E a \in autoDisk : \E q \in [Game -> UNION {quickDisk[g] : g \in Game}] :
       /\ \A g \in Game : q[g] \in quickDisk[g]
       /\ Sync(a, q)
  /\ wanted' = NoGame
  /\ UNCHANGED <<tmpVars, gameVars, noui, halting, saves, failed, consumed, chosen, resuming,
                 loaded>>

Next ==
  \/ Boot \/ ScriptEnds
  \/ AutoResume \/ ShowLauncher
  \/ \E g \in Game, slot \in {"hidden", "resume"} : OpenRom(g, slot)
  \/ RestartLauncher \/ LauncherPowerOff
  \/ GameOpenFails \/ State_resume
  \/ \E why \in {"sleep", "off", "hdmi"} : Menu_beforeSleep(why) \/ State_writeNotBegun(why)
  \/ State_write \/ State_writeFails \/ MarkGame
  \/ GamePowerOff \/ PWR_enterSleep \/ HdmiRestart
  \/ SleepTimeout \/ Wake \/ QuitGame \/ LeaveGame
  \/ Halt \/ PowerLoss

Spec == Init /\ [][Next]_vars
----------------------------------------------------------------------------
\* minarch runs, or sleeps.
InGame == {"play", "saving", "saved", "marked", "asleep"}

MarkSet == [game : Game \cup {NoGame}, n : 0 .. MaxSaves]
SaveSet == {Torn} \cup 0 .. MaxSaves

TypeOK ==
  /\ auto \in MarkSet /\ autoDisk \in SUBSET MarkSet
  /\ quick \in [Game -> SaveSet] /\ quickDisk \in [Game -> SUBSET SaveSet]
  /\ resume_slot \in Slot /\ next \in Game \cup {NoGame} /\ exec \in BOOLEAN
  /\ pc \in {"off", "launch", "ended", "list", "next", "play", "saving", "saved",
             "marked", "asleep"}
  /\ pc = "next" => next \in Game
  /\ game \in Game \cup {NoGame} /\ (pc \in InGame => game \in Game)
  /\ reason \in {"none", "sleep", "off", "hdmi"}
  /\ quit \in BOOLEAN /\ noui \in BOOLEAN /\ halting \in BOOLEAN
  /\ saves \in 0 .. MaxSaves              \* quicksaves begun
  /\ failed \in SUBSET (0 .. MaxSaves)    \* those that failed
  /\ consumed \in SUBSET (0 .. MaxSaves)  \* marks a game was resumed for
  /\ chosen \in Slot                      \* what the launcher meant to load
  /\ resuming \in MarkSet                 \* the mark taken away last
  /\ loaded \in [slot : Slot, mark : 0 .. MaxSaves, save : SaveSet, newest : 0 .. MaxSaves]
  /\ wanted \in Game \cup {NoGame}        \* the game a power-off interrupted

\* A mark resumes a game once: however power is cut, a game that was resumed
\* (and perhaps crashes on its quicksave) is not resumed from the same mark
\* again (autoResume unlinks and syncs before it does anything else).
ResumeAtMostOnce ==
  [][pc = "launch" /\ pc' = "next" => auto.n \notin consumed]_vars

\* A game resumed from a mark gets the very quicksave the mark was written for,
\* whole, unless another quicksave was begun since or State_write failed (the
\* mark is written all the same): State_write syncs before Menu_beforeSleep
\* writes the mark, so no power cut leaves a mark without it.
ResumeLoadsItsQuicksave ==
  loaded.slot = "auto" /\ loaded.newest = loaded.mark /\ loaded.mark \notin failed =>
    loaded.save = loaded.mark

\* minarch loads the slot the launcher chose for this launch, also when earlier
\* launches failed and left RESUME_SLOT_PATH behind (openRom, autoResume).
LoadsChosenSlot == pc = "play" => loaded.slot = chosen

\* Nothing is left to resume while the launcher is shown: a power-off there
\* says "Powering off" and the next boot shows the launcher (PWR_powerOff).
LauncherHasNoMark == pc = "list" => auto = NoMark

\* README.txt: "MinUI will create a quicksave when powering off in-game.  The
\* next time you power on the device it will automatically resume".
PowerOffKeepsQuicksave ==
  pc = "off" /\ wanted # NoGame => auto.game = wanted /\ quick[wanted] # Torn
=============================================================================
