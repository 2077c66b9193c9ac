----------------------------- MODULE SaveSlots -----------------------------
(***************************************************************************)
(* A game on several discs, listed by an .m3u file: the launcher starts it *)
(* on a disc, minarch opens the disc's file, keeps the memory card and the *)
(* save states under the .m3u's name, and changes discs from its menu or   *)
(* for a state that was saved with another disc.  Files tell the launcher: *)
(* on the card each slot's disc and the last slot, in /tmp the disc last   *)
(* changed to.                                                             *)
(*                                                                         *)
(* Discs are 0..Discs-1, in the order of the .m3u.  A path is a disc or:   *)
(***************************************************************************)
EXTENDS Integers, Sequences, SequencesExt

CONSTANTS
  Discs,            \* discs in the .m3u
  MENU_SLOT_COUNT,  \* slots of the menu
  MaxSaves,         \* bound: states saved
  MaxWrites,        \* bound: times the game writes its memory card
  MaxFaults         \* bound: power cuts, writes and disc changes that fail

ASSUME SaveSlotsAssumption ==
  /\ Discs \in Nat \ {0} /\ MENU_SLOT_COUNT \in 1 .. 8
  /\ MaxSaves \in Nat /\ MaxWrites \in Nat /\ MaxFaults \in Nat

VARIABLES
  need_fullpath,  \* the core opens the disc's file itself
  states,    \* the state files: of a name, and of a slot
  txt,       \* menu.txt_path, of a name and of a slot: the state's disc
  slot_path, \* menu.slot_path: the last slot
  sram,      \* the memory card's file, of a name
  recents,   \* RECENT_PATH: this game's entries
  auto,      \* AUTO_RESUME_PATH
  change_disc, resume_slot,  \* CHANGE_DISC_PATH, RESUME_SLOT_PATH
  pc,        \* the program that runs: script, launcher, next, play, menu
  rom,       \* the path minarch is started with
  game,      \* minarch's game: its path and name
  core,      \* disc: in its drive; mem: its memory card
  menu,      \* disc and slot of the menu, rom_disc as it opened
  saves, writes, faults,  \* bounds
  owed, lastDisc, strayed  \* history, see the properties

diskVars == <<states, txt, slot_path, sram, recents, auto>>
tmpVars == <<change_disc, resume_slot>>
gameVars == <<game, core, menu>>
boundVars == <<saves, writes, faults>>
historyVars == <<owed, lastDisc, strayed>>
vars == <<need_fullpath, diskVars, tmpVars, pc, rom, gameVars, boundVars, historyVars>>

Fault(happens) ==
  /\ faults' = IF happens THEN faults + 1 ELSE faults
  /\ faults' <= MaxFaults

Disc == 0 .. Discs - 1
Folder == -2  \* the game's folder: what an empty line gives
Other == -3   \* a path that names no file
Gone == -4    \* no file, no disc
Torn == -5    \* an empty file
M3u == Discs  \* the .m3u: the name the discs share, and an entry of the launcher
Path == Disc \cup {Folder, Other}
Name == Path \cup {M3u}

Hidden == 8    \* the slot that is loaded without RESUME; nothing writes it
AutoSlot == 9 \* AUTO_RESUME_SLOT
Slot == 0 .. MENU_SLOT_COUNT - 1

\* A state: the disc in the drive, the memory card it brings back, and whether
\* the disc that was noted for it was the disc in the drive.
State(disc, mem, noted) == [is |-> "whole", disc |-> disc, mem |-> mem, noted |-> noted]
NoState == [is |-> "none", disc |-> Gone, mem |-> 0, noted |-> FALSE]
TornState == [is |-> "torn", disc |-> Gone, mem |-> 0, noted |-> FALSE]
Unnoted(state) == [is |-> state.is, disc |-> state.disc, mem |-> state.mem, noted |-> FALSE]

NoGame == [path |-> Gone, name |-> Gone]
NoCore == [disc |-> Gone, mem |-> 0]
NoMenu == [disc |-> -1, slot |-> 0, rom_disc |-> -1]

Init ==
  /\ need_fullpath \in BOOLEAN
  /\ states = [n \in Name |-> [s \in Slot \cup {AutoSlot} |-> NoState]]
  /\ txt = [n \in Name |-> [s \in Slot |-> Gone]] /\ slot_path = Gone
  /\ sram = [n \in Name |-> 0]
  /\ recents = <<>> /\ auto = Gone /\ change_disc = Gone /\ resume_slot = Gone
  /\ pc = "script" /\ rom = Gone
  /\ game = NoGame /\ core = NoCore /\ menu = NoMenu
  /\ saves = 0 /\ writes = 0 /\ faults = 0
  /\ owed = 0 /\ lastDisc = Gone /\ strayed = FALSE
----------------------------------------------------------------------------
(* minui.elf *)

\* A disc the game changed to comes first; of the entries in the folder of an
\* .m3u only the first is kept.
FirstOfGame ==
  IF change_disc # Gone THEN <<change_disc>>
  ELSE IF recents = <<>> THEN <<>> ELSE <<Head(recents)>>

\* Faulty variant: leaves CHANGE_DISC_PATH behind.
HasRecentsKeeps ==
  /\ recents' = FirstOfGame
  /\ change_disc' = change_disc
\* hasRecents: reads RECENT_PATH, and writes it back.
HasRecents ==
  /\ recents' = FirstOfGame
  /\ change_disc' = Gone

\* main: the game a mark names is started, without a look at the recents, if it
\* exists; else the launcher shows.
MinuiStarts ==
  /\ pc = "script"
  /\ auto' = Gone
  /\ IF auto \notin {Gone, Other}
       THEN /\ pc' = "next" /\ rom' = auto /\ resume_slot' = AutoSlot
            /\ UNCHANGED <<recents, change_disc>>
       ELSE /\ pc' = "launcher"
            /\ HasRecents
            /\ UNCHANGED <<rom, resume_slot>>
  /\ UNCHANGED <<need_fullpath, states, txt, slot_path, sram, gameVars, boundVars, historyVars>>

getFirstDisc == 0

\* The disc RESUME starts: the one its slot was saved with, if that is noted; for
\* an empty slot_path there is no such file.
DiscForState(disc) ==
  LET noted == IF slot_path = Torn THEN Gone ELSE txt[M3u][slot_path] IN
  CASE noted = Gone -> disc
    [] noted = Torn -> Folder
    [] OTHER -> noted

\* addRecent: the .m3u comes to the top; the launcher lists the game once.
addRecent == IF recents # <<>> /\ Head(recents) = M3u THEN recents ELSE <<M3u>> \o recents

\* openRom for an entry, with A or, when can_resume, with RESUME; then the
\* script's sync.  Whatever was opened, the .m3u goes to the recents.
OpenRom(entry, should_resume) ==
  LET disc == IF entry = M3u THEN getFirstDisc ELSE entry IN
  /\ pc = "launcher"
  /\ should_resume => slot_path # Gone
  /\ resume_slot' = IF should_resume THEN slot_path ELSE Hidden
  /\ rom' = IF should_resume THEN DiscForState(disc) ELSE disc
  /\ recents' = addRecent
  /\ pc' = "next" /\ lastDisc' = M3u
  /\ UNCHANGED <<need_fullpath, states, txt, slot_path, sram, auto, change_disc, gameVars,
                 boundVars, owed, strayed>>
----------------------------------------------------------------------------
(* minarch.elf: the game, its disc and its memory *)

Opened(path) == [path |-> path, name |-> M3u]
\* Game_open returned early: is_open is 0, m3u_path is empty.
NotOpened(path) == [path |-> path, name |-> path]
IsOpen(g) == g.name = M3u

\* Game_open: unless the core opens the file itself, it is read into memory (a
\* zip is extracted to /tmp first), which may fail, and does for a folder; then
\* the .m3u gives the game its name.  The possible results:
Game_open(path) ==
  {Opened(p) : p \in {path} \cap (IF need_fullpath THEN Path ELSE Disc)}
  \cup {NotOpened(p) : p \in IF need_fullpath THEN {} ELSE {path}}

\* The disc the core gets.
Inserted(g) == IF IsOpen(g) /\ g.path \in Disc THEN g.path ELSE Gone

\* Game_changeDisc: the possible results.
Game_changeDisc(path) ==
  IF path \in {game.path, Other}
    THEN {[game |-> game, disc |-> core.disc, change_disc |-> change_disc]}
    ELSE {[game |-> g, disc |-> Inserted(g), change_disc |-> path] : g \in Game_open(path)}

\* What a change r does outside of the core.
Change(r) ==
  /\ game' = r.game /\ change_disc' = r.change_disc
  /\ lastDisc' = IF r.game = game THEN lastDisc ELSE r.game.path
  /\ strayed' = (strayed \/ ~IsOpen(r.game))
  /\ Fault(r.game # game /\ ~IsOpen(r.game))

\* The memory card's file is read back, unless it is empty.
SRAM_read == IF sram[M3u] = Torn THEN 0 ELSE sram[M3u]

\* Faulty variant: each disc has its own memory card.
SRAM_writeByDisc ==
  \E written \in {core.mem, Torn} :
    /\ sram' = [sram EXCEPT ![IF game.path = getFirstDisc THEN game.name ELSE game.path] = written]
    /\ owed' = written
    /\ Fault(written = Torn)
\* SRAM_write, and RTC_write for the clock in the same way: the file is
\* emptied and may stay so (a full card); sync().
SRAM_write ==
  \E written \in {core.mem, Torn} :
    /\ sram' = [sram EXCEPT ![game.name] = written]
    /\ owed' = written
    /\ Fault(written = Torn)

\* Menu_init: the disc of the .m3u that was started, -1 for none.  disc_paths[-1]
\* is no path.
Menu_init == IF rom \in Disc THEN rom ELSE -1

\* Menu_initState: the last slot, getInt of an empty file being 0.
Menu_initState(slot) ==
  CASE slot_path = Gone -> slot
    [] slot_path = Torn -> 0
    [] OTHER -> slot_path

\* State_resume: the state of RESUME_SLOT_PATH's slot.
Resumed ==
  CASE resume_slot = Hidden -> NoState
    [] resume_slot = Torn -> states[M3u][0]
    [] OTHER -> states[M3u][resume_slot]

\* State_read: what the core's memory card becomes; the core refuses the zeros an
\* empty file leaves in the buffer.
State_read(state, mem) == IF state.is = "whole" THEN state.mem ELSE mem

\* main up to its loop: Game_open, Core_load with SRAM_read, Menu_init,
\* State_resume, Menu_initState.
Start ==
  /\ pc = "next"
  /\ \E g \in Game_open(rom) :
       /\ IsOpen(g)
       /\ game' = g
       /\ core' = [disc |-> Inserted(g), mem |-> State_read(Resumed, SRAM_read)]
  /\ menu' = [disc |-> Menu_init, slot |-> Menu_initState(0), rom_disc |-> -1]
  /\ resume_slot' = Gone /\ rom' = Gone
  /\ pc' = "play"
  /\ UNCHANGED <<need_fullpath, diskVars, change_disc, boundVars, historyVars>>

\* Game_open fails: finish, where Core_quit finds the core not initialized.
StartFails ==
  /\ pc = "next"
  /\ \E g \in Game_open(rom) : ~IsOpen(g)
  /\ rom' = Gone
  /\ pc' = "script"
  /\ UNCHANGED <<need_fullpath, diskVars, tmpVars, gameVars, boundVars, historyVars>>

\* core.run: the game writes to its memory card.
Play ==
  /\ pc = "play" /\ writes < MaxWrites
  /\ writes' = writes + 1
  /\ core' = [core EXCEPT !.mem = writes + 1]
  /\ UNCHANGED <<need_fullpath, diskVars, tmpVars, pc, rom, game, menu, saves, faults, historyVars>>
----------------------------------------------------------------------------
(* minarch.elf: the menu *)

\* Menu_loop: SRAM_write, and the state of the menu's items.
OpenMenu ==
  /\ pc = "play"
  /\ SRAM_write
  /\ menu' = [menu EXCEPT !.rom_disc = menu.disc, !.slot = Menu_initState(menu.slot)]
  /\ pc' = "menu"
  /\ UNCHANGED <<need_fullpath, states, txt, slot_path, recents, auto, tmpVars, rom, game, core,
                 saves, writes, lastDisc, strayed>>

\* Menu_loop ends; its rom_disc is gone.
MenuCloses ==
  /\ pc' = "play"
  /\ menu' = [menu EXCEPT !.rom_disc = -1]

\* B, or MENU.
CloseMenu ==
  /\ pc = "menu"
  /\ MenuCloses
  /\ UNCHANGED <<need_fullpath, diskVars, tmpVars, rom, game, core, boundVars, historyVars>>

\* LEFT and RIGHT: the disc on Continue, the slot on Save and Load (UP and DOWN
\* go from one to the other and change nothing else).
Turned(n, step, count) == LET m == n + step IN
  IF m < 0 THEN m + count ELSE IF m >= count THEN m - count ELSE m

LeftRight ==
  /\ pc = "menu"
  /\ \E step \in {-1, 1} :
       \/ Discs > 1 /\ menu' = [menu EXCEPT !.disc = Turned(@, step, Discs)]
       \/ menu' = [menu EXCEPT !.slot = Turned(@, step, MENU_SLOT_COUNT)]
  /\ UNCHANGED <<need_fullpath, diskVars, tmpVars, pc, rom, game, core, boundVars, historyVars>>

\* A on Continue, with another disc.
ContinueOnDisc ==
  /\ pc = "menu" /\ menu.rom_disc # menu.disc
  /\ \E r \in Game_changeDisc(menu.disc) :
       /\ Change(r)
       /\ core' = [core EXCEPT !.disc = r.disc]
  /\ MenuCloses
  /\ UNCHANGED <<need_fullpath, diskVars, resume_slot, rom, saves, writes, owed>>

\* What Menu_saveState notes as the state's disc: the menu's.
Noted == IF menu.disc \in Disc THEN {menu.disc} ELSE {Other, Torn}

NewState == State(core.disc, core.mem, menu.disc = core.disc)
\* The file as it was, beside what is now noted for it.
OldState == Unnoted(states[game.name][menu.slot])

\* Faulty variant: does not note the disc.
Menu_saveStateOnly(state) ==
  /\ saves < MaxSaves /\ saves' = saves + 1
  /\ Fault(state # NewState)
  /\ slot_path' = menu.slot
  /\ states' = [states EXCEPT ![game.name][menu.slot] = state]
  /\ UNCHANGED txt
\* Menu_saveState: the disc the menu shows, the slot, and State_write with its
\* sync(), which may fail before it opens the file or once it has emptied it.
Menu_saveState(state) ==
  /\ saves < MaxSaves /\ saves' = saves + 1
  /\ Fault(state # NewState)
  /\ \E disc \in Noted : txt' = [txt EXCEPT ![game.name][menu.slot] = disc]
  /\ slot_path' = menu.slot
  /\ states' = [states EXCEPT ![game.name][menu.slot] = state]

\* Save in the menu, or its shortcut in the game; with SAVE_QUIT the game is
\* left too, which it may be at any time.
SaveState ==
  /\ pc \in {"menu", "play"}
  /\ \E state \in {NewState, TornState, OldState} : Menu_saveState(state)
  /\ MenuCloses
  /\ UNCHANGED <<need_fullpath, sram, recents, auto, tmpVars, rom, game, core, writes, historyVars>>

\* The disc noted for the slot: an empty name gives the folder, and without the
\* file the buffer is read uninitialised.
NotedDisc ==
  LET noted == txt[game.name][menu.slot] IN
  CASE noted = Torn -> {Folder}
    [] noted = Gone -> Path
    [] OTHER -> {noted}

\* Menu_loadState, from the menu or by its shortcut: the noted disc goes in,
\* unless it is the one the menu shows.  Without a state nothing is done.
LoadState ==
  /\ pc \in {"menu", "play"}
  /\ states[game.name][menu.slot].is # "none"
  /\ \E disc \in NotedDisc :
     \E r \in IF disc = menu.disc THEN Game_changeDisc(game.path) ELSE Game_changeDisc(disc) :
       /\ Change(r)
       /\ core' = [disc |-> r.disc,
                    mem |-> State_read(states[r.game.name][menu.slot], core.mem)]
  /\ slot_path' = menu.slot
  /\ MenuCloses
  /\ UNCHANGED <<need_fullpath, states, txt, sram, recents, auto, resume_slot, rom, saves, writes,
                 owed>>
----------------------------------------------------------------------------
(* Leaving the game *)

\* Menu_beforeSleep: the memory card, the quicksave (Session has it step by step,
\* here it succeeds) and the mark.
Menu_beforeSleep ==
  /\ pc \in {"menu", "play"} /\ saves < MaxSaves
  /\ SRAM_write
  /\ states' = [states EXCEPT ![game.name][AutoSlot] =
                  State(core.disc, core.mem, game.path = core.disc)]
  /\ saves' = saves + 1
  /\ auto' = game.path

\* minarch ends.
Ends ==
  /\ game' = NoGame /\ core' = NoCore /\ menu' = NoMenu
  /\ pc' = "script"

\* hdmimon: the game starts again (Core_quit writes the same memory card again).
HdmiRestart ==
  /\ Menu_beforeSleep
  /\ Ends
  /\ UNCHANGED <<need_fullpath, txt, slot_path, recents, tmpVars, rom, writes, lastDisc, strayed>>

\* /tmp is empty after a boot, and with it what the game changed to.
PowerOff ==
  /\ change_disc' = Gone /\ resume_slot' = Gone
  /\ lastDisc' = IF lastDisc = Gone THEN Gone ELSE M3u
  /\ Ends

\* Powered off in the game, and on again.
SleepPowerOff ==
  /\ Menu_beforeSleep
  /\ PowerOff
  /\ UNCHANGED <<need_fullpath, txt, slot_path, recents, rom, writes, strayed>>

\* quit: Core_quit writes the memory card.
QuitGame ==
  /\ pc \in {"menu", "play"}
  /\ SRAM_write
  /\ Ends
  /\ UNCHANGED <<need_fullpath, states, txt, slot_path, recents, auto, tmpVars, rom, saves, writes,
                 lastDisc, strayed>>

\* The core crashes: the game ends where it is.
CoreCrashes ==
  /\ pc = "play"
  /\ Ends
  /\ UNCHANGED <<need_fullpath, diskVars, tmpVars, rom, boundVars, historyVars>>

\* A power cut in Menu_saveState: each of the three files is as before, empty or
\* written.
CutInSave ==
  /\ pc \in {"menu", "play"} /\ saves < MaxSaves /\ Fault(TRUE)
  /\ \E disc \in Noted, d \in {"old", "torn", "new"}, s \in {"old", "torn", "new"} :
       /\ txt' = [txt EXCEPT ![game.name][menu.slot] =
                    CASE d = "old" -> @ [] d = "torn" -> Torn [] OTHER -> disc]
       /\ states' = [states EXCEPT ![game.name][menu.slot] =
                       CASE s = "torn" -> TornState
                         [] s = "new" -> IF d = "new" THEN NewState ELSE Unnoted(NewState)
                         [] OTHER -> IF d = "old" THEN @ ELSE Unnoted(@)]
  /\ slot_path' \in {slot_path, Torn, menu.slot}
  /\ saves' = saves + 1
  /\ PowerOff
  /\ UNCHANGED <<need_fullpath, sram, recents, auto, rom, writes, owed, strayed>>

\* A power cut in the game, or in SRAM_write once it has emptied the file.
PowerLoss ==
  /\ pc \in {"menu", "play"} /\ Fault(TRUE)
  /\ \/ UNCHANGED <<sram, owed>>
     \/ sram' = [sram EXCEPT ![game.name] = Torn] /\ owed' = Torn
  /\ PowerOff
  /\ UNCHANGED <<need_fullpath, states, txt, slot_path, recents, auto, rom, saves, writes,
                 strayed>>

Next ==
  \/ MinuiStarts
  \/ \E entry \in {M3u} \cup ToSet(recents), should_resume \in BOOLEAN :
       OpenRom(entry, should_resume)
  \/ Start \/ StartFails \/ Play
  \/ OpenMenu \/ CloseMenu \/ LeftRight \/ ContinueOnDisc \/ SaveState \/ LoadState
  \/ HdmiRestart \/ SleepPowerOff \/ QuitGame \/ CoreCrashes \/ CutInSave \/ PowerLoss

Spec == Init /\ [][Next]_vars
----------------------------------------------------------------------------
(* Properties.  strayed: a disc change has failed; from then on Game_open's  *)
(* early return leaves the game with the disc's own name, and what follows   *)
(* is saved where no later start looks.                                      *)

FindsItsDisc(state) ==
  state.noted /\ core'.disc # Gone /\ ~strayed' => core'.disc = state.disc

\* A state finds in the drive the disc it was saved with: after RESUME in the
\* launcher, after an auto-resume, and when it is loaded in the game.  It takes
\* that the menu showed the disc in the drive as the state was saved (noted) and
\* as it is loaded, which Menu_loop does not see to, that the slot's file is
\* whole, and that the disc can be read (openRom, State_resume, Menu_init,
\* Menu_saveState, Menu_loadState, Game_changeDisc).
StateFindsItsDisc ==
  [][/\ Start /\ resume_slot # Torn => FindsItsDisc(Resumed)
     /\ LoadState /\ menu.disc = core.disc => FindsItsDisc(states[game'.name][menu.slot])]_vars

\* Every disc of a game shares the memory card that was last written: by the
\* menu, before sleep or as the game was left, whichever disc was in the drive
\* (Game_open, SRAM_getPath, Core_quit).
MemoryCardIsShared == ~strayed => sram[M3u] = owed

\* The launcher lists the game once: by the disc it last changed to since it was
\* started from the launcher and the console was switched on, else by its .m3u
\* (Game_changeDisc, hasRecents, openRom).
RecentIsLastDisc ==
  pc = "launcher" => recents = IF lastDisc = Gone THEN <<>> ELSE <<lastDisc>>
=============================================================================
