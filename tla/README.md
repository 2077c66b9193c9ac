# MinUI Plus in TLA+

MinUI Plus is a launcher and a libretro front end for handheld consoles. This
directory holds TLA+ specifications of the parts of it whose correctness is a
matter of state and order: the audio ring, the session from power-on to
power-off, the two threads of the front end, the navigation of the launcher,
save slots and discs, options, settings in shared memory, input and power, and
the picture scalers. They follow `workspace/all/*` and, for the platform layer,
`workspace/rg35xxplus/*`; `Settings` follows the libraries and daemons of all
thirteen devices, `Input` the input of six. TLC checks each on small instances;
TLAPS proves the safety properties that matter most for every value of the
constants.

`PROJECT.json` lists components, runs, hazards, theorems, and for each
definition the source lines it stands for.

## 1. The system

| component | state | operations | talks to |
|---|---|---|---|
| `launch.sh` | `/tmp/minui_exec`, `/tmp/next` | runs `minui.elf`, then what `/tmp/next` says, until `minui_exec` is gone, then `shutdown` | files |
| launcher (`minui.c`) | stack of directories with windows of rows, restore position, recents, favourites, RESUME, last path | one turn of `main` per frame: move, open, close, favourite, resume, version, HDMI, power | files; `minarch.elf` through `/tmp/next` and `/tmp/resume_slot.txt` |
| front end (`minarch.c`) | game, core, options, save slots, `thread_video` and the flags around it | main loop, `coreThread`, in-game menu, states, discs, sleep and power-off callbacks | the core (callbacks), `api.c`, files |
| audio (`SND_*` in `api.c`) | ring of frames with two indices, resampler debt | `SND_batchSamples` (core's thread), `SND_audioCallback` (SDL's thread) | SDL's audio lock |
| input, power (`PAD_*`, `PWR_*`, `VIB_*`) | button edges and repeats, autosleep and power timers, rumble strength | `PAD_poll`, `PWR_update`, sleep, wake, power-off | callbacks into launcher and front end, `PLAT_*` |
| settings (`msettings.c`, `keymon.c`) | one struct in shared memory, one file | volume, brightness, HDMI | every process |
| options (`Config_*`) | frontend, core and shortcut options, console and game files | load, save, restore, sync | files, the core |
| drawing (`GFX_*`, `scaler.c`, `MSG_*`, `minuiplus.c`) | surfaces | blits | screen |
| platform, tools, boot and install scripts, other platforms, cores | - | - | - |

How they interact. Programs run one after the other and never meet: launcher
and front end communicate through files on the card and in `/tmp`. Inside the
front end the core calls back (input, video, audio) on whichever thread runs it,
and SDL's audio thread shares the ring with it. `PWR_update` calls back into the
front end (`Menu_beforeSleep`, `Menu_afterSleep`) from inside the input callback.
`keymon` and its HDMI thread share the settings with all of them.

What is hard, and what makes each part correct:

- **audio ring**: a lock given up in the middle of a batch, wrap-around, a
  running debt between two rates, a callback that asks for more than there is.
  Correct: a bounded FIFO, no drift, nobody starves.
- **session**: writes reach the card late and in any order, power may be cut
  anywhere, and a shutdown that was asked for leaves the program running.
  Correct: what is resumed is the quicksave that was promised, once.
- **core thread**: a condition variable without a predicate, a thread that is
  cancelled, and three features (fast forward, POWER, the option) that share
  two flags. Correct: one thread in the core, none behind the menu, no freeze.
- **launcher**: several moves per turn on windows at both ends of a list, a
  position restored by depth and row alone, a way back through a path that
  was written before the lists changed. Correct: what is drawn is in the list,
  what is restored belongs to it, what was left is found again.
- **save slots and discs**: the disc the menu shows, the one a state records and
  the one in the drive; a slot that is three files; a game that is opened again
  under another path. Correct: a state goes back with its disc, the discs share
  one memory card, the launcher lists the disc last changed to.
- **settings**: several processes and threads read, change and save one struct
  without a lock; keys whose release is thrown away. Correct: the file ends up
  with the levels in force, no key goes on by itself, a port's change is lost only
  where somebody stores an older look at it.
- **pad, power, rumble**: edges and repeats that are lost within a frame, timers
  that restart, one button that both sleeps and wakes. Correct: what is taken for
  pressed is held, a sleep was asked for, the motor does what the core asked.
- **options**: layers of files that hide each other, read twice around the
  core's start, removed without a sync. Correct: what was saved comes back, what
  is set is what core, screen, CPU and port were told.
- **scalers**: hand-written assembler loops with blocks, bits and a rest, whose
  cursors must keep step over any width and pitch. Correct: each pixel where it
  belongs, nothing outside the line, the loop ends.

The hazards behind these sentences are in `PROJECT.json`, each at its line and
with the properties that cover it, or a note where none does.

## 2. Modules

| module | models | role |
|---|---|---|
| `SndFifo` | what the ring promises | abstract specification |
| `SndRing` | `SND_batchSamples`, `SND_resampleNone/Near`, `SND_audioCallback`, pausing | composes `SndFifo` as the refinement `ImplementsFifo` |
| `Session` | `launch.sh`, `autoResume`, `openRom`, `State_resume`, `Menu_beforeSleep/afterSleep`, `State_write`, sleep, power-off, power cut | the launcher, the front end and the card together |
| `CoreThread` | minarch's `main`, `coreThread`, `input_poll_callback`, `video_refresh_callback`, the menu as it touches the threads | |
| `MenuNav` | minui's `main`, `Menu_init`, directories, recents, favourites, RESUME, `saveLast`/`loadLast` | |
| `SaveSlots` | `Game_open`, `Game_changeDisc`, `State_*`, `SRAM_*`, `RTC_*`, the menu's disc and slots, `openRom`, `readyResume`, `hasRecents` | one game from the launcher into minarch and back, with the card |
| `Config` | `Config_*`, the in-game lists, shortcuts, `Core_load`'s part in them | |
| `Settings` | `msettings.c` and `keymon.c` of every device | keymon's two threads and the programs on one memory |
| `Input` | `PLAT_pollInput`, `PAD_*`, `PWR_*`, `VIB_*` and each loop that polls | the player, the device, the loops and the motor's thread |
| `Scaler` | the four tables of `scaler.c` and the effects | |
| `MC*` | cards, devices, options, calls | instantiate the module they are named after |
| `Threads_proofs` | | theorems of `SndRing` and `CoreThread`, the threads of a running game |
| other `*_proofs` | | theorems of the module they extend |

Each definition with `Faulty variant` in its comment is a plausible
bug in the definition it stands before; no specification uses it. Replacing the
definition by it makes TLC report the property it is listed with in
`PROJECT.json`. It shows that the property can fail.

### SndRing

Variables are the fields of `struct snd`, the locals of `SND_batchSamples`
(`frames`, `left`, `amount`, `tries`), the static `diff` of the resampler, the
callback's `len` and `stream`, and who holds SDL's lock. A frame is its position
in the core's output. One action is one iteration of a loop of the code;
`BatchDelay`/`BatchRelock` are the unlock, the sleep and the lock again. The
history variables `pushes`, `newest`, `played` record what was stored and played.

The ring refines `SndFifo`: `queue` is mapped to `Waiting`, the slots from
`frame_out` to `frame_in`, and `Capacity` to `FrameCount - 1`. A store is a
`Push`, a copied frame a `Pop`, and everything else a stutter.

Left out: `SND_init` (the initial state), `SND_quit`, and an audio device that
does not open.

### Session

`pc` says which program runs and where. Each file on the card is a pair: what a
program reads (`auto`, `quick`) and the set of contents a power cut may leave
(`autoDisk`, `quickDisk`); `fopen(.., "w")` adds the empty file to the set, a
write adds the new content, `sync()` reduces the set to what is read. `PowerLoss`
picks from the sets, `Halt` is an orderly shutdown at any moment after it was
asked for: `PLAT_powerOff` starts `shutdown` and returns, so its callers go on,
and the model lets them. Quicksaves are numbered, so a mark tells which one it
was written for.

`State_write` may fail, before it opens the quicksave (`State_writeNotBegun`: the
core has no states, no memory, the file cannot be opened) or with it emptied
(`State_writeFails`: the core cannot serialize, the card is full). Its caller is
not told and writes the mark all the same, so `ResumeLoadsItsQuicksave` speaks of
the quicksaves that did not fail; the others stay in the state space.

Left out: save memory, settings, the slots saved by hand.

### CoreThread

`main` and `core` are the two program counters, the other variables the flags of
`minarch.c`. `core.run()` is three steps, because these are the points at which
it meets the front end: poll, video, audio. Locks are modelled where a thread
holds one across steps: `main` in `flip` holds `core_mx`. `pthread_cond_wait` may wake
without a signal, as POSIX says, and a signal nobody waits for is lost. A
cancelled thread ends where it blocks: `read()` in `PAD_poll`, `SDL_Delay` in
`SND_batchSamples` and `limitFF`. `pthread_join` on a thread that was joined is
undefined: it returns or crashes. `DupeFrames` says whether the core may pass
NULL for a repeated frame (minarch tells it that it may). The module's names begin
with `Core` where `SndRing` has the same, so that `Threads_proofs` extends both.

### MenuNav

`top` and `stack` are the open directories, each with its list and the window
`selected`, `start`, `end`; `restore` is the five `restore_*` globals; `ready` is
`can_resume` with the game `slot_path` names. `Turn` is one turn of main's loop
with everything it does: `Moved` (UP/DOWN, LEFT/RIGHT, L1/R1 in that order),
`readyResume` if the frame is dirty, then one of RESUME, A, SELECT, B.
`LoadComponent` is one turn of `loadLast`'s loop. `Restart` is `launch.sh`
starting the launcher again after a game, a tool or an HDMI change.

Entries are model values; `CardAssumption` and `WayAssumption` state what a card
is: kinds are apart, only the root lists Recents and Favourites, each entry is
listed in the last folder of its path, a collection lists roms and paks of other
places, and a folder that launches its disc is none. With no system on the card
`getRoot` lists the collections themselves, so their paths have a first component
that is not listed. `loadLast` finds a collection's game by its file name; two games
of one collection with the same file name are outside the model. File formats,
`map.txt`, names, collation and the limit on letters of `Directory_index` are left
out.
The uninitialised `items[selected]` of an empty list is a choice: `Crash`, or
nothing (`PressNothing`).

`ReturnsToGame` says that the list is the one the game was started from, with two
exceptions that are in the code: a start from Favourites, which `saveLast` does not
keep as it keeps Recents, and a pak of a collection, which `openPak` does not keep as
`openRom` keeps a rom: both come back to the entry's own folder.

`ResumeIsForSelected` exempts the first row of Favourites. `removeFavourite`
changes the list after the turn has looked at the old entry, so RESUME may be
offered there for the game just removed. No text in the repository speaks of
it, so it is a note here and not a finding.

### SaveSlots

A game on several discs, named by its `.m3u`; `Path` is that or a disc. What is
on the card (`states`, `txt` the disc noted for a slot, `slot_path` the last
slot, `sram`, `recents`, `auto`) is apart from what is in `/tmp` (`change_disc`,
`resume_slot`), which a boot empties. `rom`, `game`, `core` and `menu` are what
`openRom` was called with, minarch's `game`, the disc and the memory in the core
and the menu's `disc`, `slot`, `rom_disc`. One action is one thing the player does
with all that follows from it. `Fault` lets a read or a write fail where the code
has an error path (a state that is saved may be left empty, or as it was beside the
new note of its disc), and `CutInSave` cuts the power between the three files of a
slot, each of which may stay as it was, be empty or be new.

Two things the code does not see to bound what the properties may say. The menu
lets the player turn to another disc and then save or load without going to it:
a state saved so is not `noted`. And a `Game_changeDisc` whose disc cannot be
opened leaves the core with the old disc under the new name: from there on the
history is `strayed`. Both are listed as hazards and below.

Left out: several games at once, zipped discs for cores that open the files
themselves, the preview pictures.

### Config

An option, a binding and the type of gamepad are keys, a file is a function from
the keys of its lines. `value` is what is set, `loaded` is `config.loaded`, `told`
what the screen, the CPU and the core's port were last told, `seen` what the
core has read. A start reads the layers twice (`Open`, `Load`) because a core
may report its options before or after. `ghosts` are files that were removed and
not synced: a power cut may bring them back. The history `promise` is what the
player was told is saved; `clean` says that nothing changed since a start, a save
or a restore.

Left out: parsing and formatting of lines, the device's tag in file names,
bindings of MENU+button, options handled like the ones that are there, the
option that threads the core (in `CoreThread`), a file that cannot be opened.

### Settings

`shm` is the struct, `file` what a host would make of `msettings.bin`. Each
process (keymon's main loop, its thread, a program) has the rest of its call in
`todo`: reads, stores and saves as single steps between those of the others. A level
is read in one step and stored in another, where `SetVolume` looks at the flags; a
mute that is cleared in between lets the 0 that was read be stored. The
devices differ in small ways (which ports a library knows, what silences it,
what it sets when it starts; which keys mean what, which ports are watched,
whether input from a sleep is ignored), so a record says how; the platforms looked
at are those that have one. `had` is the watch thread's copy of the ports; `slept`
that the clock will tell keymon it was stopped, which a turn of the loop that is
slow tells it as well. keymon stands still while a program has put the console to
sleep, as nothing runs then. On `my355` the thread's first look at the jack reads a variable
nobody has written: a choice. A program starts after the host is done, because
the boot scripts do much in between.

Left out: the driver's raw levels (nothing reads them back), `QuitSettings`, the
battery thread of the Miyoo Mini's keymon.

Programs, keymon's loop and its thread look at the ports and store what they saw
later, in no order. The history `doubted` has the ports of which somebody holds a
look that is outdated, until the thread stores the port again with nobody else
about to. `PortsReported` is about the others: an outdated look is the only thing that
leaves a watched port wrong in the memory for good. On the RG35XX Plus the
library and keymon read HDMI from different files (`/sys/class/switch/..`,
msettings.c:45, and `/sys/class/extcon/..`, keymon.c:38), of which platform.c:382 notes
that the first does not follow the plug, and its file for the jack is always 0
(msettings.c:44): `Looks` lets a program see any state of HDMI there and no jack, so
HDMI is `doubted` from the first program on that sees another one than the plug's.
The thread's first look on `my355` (uninitialised, keymon.c:79) leaves the jack
`doubted` in the same way.

### Input

`down` are the keys held, `queue` what the kernel holds, `pad` the frame's four
sets of buttons. `mode` is the loop that polls (launcher, version screen, game,
menu, options, binding) and `pc` whether it polls, looks, or waits for a wake.
Times are ages in frames up to the delay that matters (`idle`, `power`, `menu`,
`slept`); `Frames` says how much time a frame may take. Which keys there are, what
they mean and how stick, triggers, lid and gamepad report is a record per
device. `vib` is what the motor's thread shares.

`DevicesAssumption` is what the platforms have in common: BTN_SLEEP is POWER
where there is a POWER button and MENU elsewhere, a device with a lid has a POWER
button, the key that sleeps is no trigger and not on a gamepad, and only the stick
gives the stick's directions. `Without` (what a pulled gamepad leaves of the queue) is
a recursive function, as what a poll makes of the queue is.

`simple_mode` is the M17 in simple mode, where MENU always sleeps in the launcher and
the menu has no options. A frame that opens a list or takes an item does not
reach `PWR_update` (`NoUpdate`). `Launch` is another program that opens the input
anew: what the launcher has not read is lost.

Three exceptions are stated in the properties, because the code has no answer to
them: `orphans`, what was pressed on a gamepad that was pulled out; `missed`, a
release that was polled by a frame that does not call `PWR_update`; and the
direction of a stick that repeats once more in the frame that centres it,
since `PAD_setAnalog` masks with `neg` where it means `~neg`.
`asked.behind` says that the motor had not yet caught up when the menu opened.

Left out: POWEROFF (one device), HDMI, the battery's thread and its overlay, the
time that settings are shown, the right stick (as the left one).

### Scaler

One call of one routine is a behaviour, `src` and `dst` are the cursors, `lr` and
`r8` the ends of blocks and line as the registers hold them, `span` the bit of
the width under test, and `mem` what was stored, as the address in the source it came
from and its shade. A record per routine has the block, the lanes of the NEON
registers, the bytes of the rest, the number of lines and how they are repeated.
`Picture` is what the call's own `xmul` and `ymul` ask for, not what the routine that
ran says of itself: a table that lists, or a fallback that picks, a routine of other
factors shows. One does: `scale2x4_n16` hands what it cannot take to the C scaler of
three lines (`ShortFallback`, scaler.c:1290). `Scaled` names and excepts that call,
`AskedIsStored` does not and is violated.

`KeepsToLine` and `Finishes` are about every call, `Scaled` and `AskedIsStored` about
those whose destination has room for the widened line (`LineFits`): where lines run into each
other no routine could store the picture. One caller may ask for that: cropping
rounds the columns it cuts off down (minarch.c:2618), so 240 columns at 3x become
214 and 642 pixels on a screen of 640.

The calls assume what the callers do: narrow 16 bit NEON copies take even widths
(they copy words without a look at the end). Left out: `scale1x_c16to32` and 2x,
`scale1x_line`, the arithmetic of the mixed pixels (a shade names it).

## 3. Runs

| run | checks | shows |
|---|---|---|
| `SndRing` | `TypeOK`, `NoPitchDrift`, `FillKeepsChannel`, `ImplementsFifo`, `BatchReturns` | the ring is the FIFO, the books balance, an underrun is completed on the right channels, a producer that finds the ring full gets on |
| `Session` | `TypeOK`, `ResumeLoadsItsQuicksave`, `LoadsChosenSlot`, `ResumeAtMostOnce` | with power cuts at every moment |
| `SessionPowerOff` | `PowerOffKeepsQuicksave` (violated) | without a power cut |
| `CoreThread` | `CoreTypeOK`, `CoreRunsOnce`, `NoFrameBehindMenu`, `JoinReturns`, `KeepsDrawing` | every sequence of POWER, fast forward, MENU, SAVE_QUIT, option changes |
| `CoreThreadMenu` | `MenuOpens` (violated) | MENU may freeze the game |
| `MenuNav` | `TypeOK`, `ShowsSelection`, `RestoreFits`, `ReturnsToGame`, `ResumeIsForSelected`, `RecentsInOrder` | every button, on lists longer than the screen; three games reached through collection, system, disc folder, Recents, Favourites |
| `SaveSlots` | `StateFindsItsDisc`, `MemoryCardIsShared`, `RecentIsLastDisc` | two discs, two slots and the auto-resume's, every way out of minarch, one fault |
| `Config` | `TypeOK`, `CleanIsInForce`, `SavedComesBack`, `AppliedIsSet` | two games, every list and shortcut, saves, restores, power cuts |
| `Settings` | `TypeOK`, `SavedWhenQuiet`, `NoRunaway`, `PortsReported` | thirteen devices, keys, ports and sleeps between each other's steps |
| `Input` | `TypeOK`, `NoStuckButton`, `HoldIsHeld`, `ClosedLidSleeps`, `NoSleepAfterWake`, `RumbleGivenBack` | six devices, one of them also in simple mode, up to two events between polls, every loop that polls |
| `Scaler` | `Scaled`, `KeepsToLine`, `Finishes` | every routine of the tables, C, NEON and effects |
| `ScalerFallback` | `AskedIsStored` (violated) | the same calls |

Bounds and why they are enough:

- `SndRing`: a ring of 4 slots wraps and fills within one batch; rates {2, 3}
  give equal, slower and faster cores, with a debt that takes several values;
  7 frames, batches of up to 3 and rounds of 2 fill the ring, overflow it and wrap
  it; callbacks of 2 and 4 frames are shorter and longer than the 3 the device was
  asked for, so that streams run dry both at the start and in the middle. Two
  tries stand for the code's ten: what matters is that they run out.
- `Session`: two games, so that a mark for one meets a quicksave of the other;
  three quicksaves, so that an old, a current and a newer one coexist across
  two boots. Boots, launches and power cuts are not bounded.
- `CoreThread`: nothing is bounded, the state space is finite. `DupeFrames` is
  TRUE in both runs, which has the behaviours of a core that repeats no frame
  among its own.
- `MenuNav`: two rows and lists of up to five entries have a first, a middle and
  a last page, and shorter lists and empty ones (favourites) occur; one input
  at a time (the proofs cover any combination); two recents for three games, so
  that the limit evicts. One game is only behind a folder that launches it, one in
  a collection too, and a pak is in a system and the collection. `Savers` bounds
  which games the player saves: one does, one does not.
- `SaveSlots`: two discs tell the right one from the wrong one, two slots and
  the auto-resume's tell a slot's file from another's, two saves let one overwrite the
  other or follow a change of disc, one write of the memory card makes it differ
  from the first, one fault at every place that has one. The theorems
  cover every number of each. Starts, changes of disc and loads are not bounded.
- `Config`: two games (one of them hides the console's file from itself and not
  from the other), options with two or three values, two changes, three writes
  (save for the game, for the console, restore, in any order), files cut off at
  the start and in the middle.
- `Settings`: levels 0 and 1 have both ends and a step between; `MaxEvents`, one to
  three by device, is enough for a key that is pressed, slept over and not
  released, and for two changes of a port around the thread's look (rgb30 and
  my355, with the most calls, have one change; the proof covers any number); one
  program beside keymon's two threads makes three writers.
- `Input`: each delay is one or two frames, so that it is reached, missed and
  restarted; two queued events hold a press and its release, or two edges of
  different keys, between two polls.
- `Scaler`: for each routine widths below, at and just above its block and one
  with a rest after several bits; two lines, so that a cursor that is off shows;
  pitches left to the routine, wider, and odd; odd addresses.

Deadlock is checked except where the model stops as the program does: in the
`CoreThread` runs (`unloaded`), `Scaler` (the call returns), `Input` (powered off),
and in `Settings`, where the bound on events ends the run.

### Findings

The runs expected to fail state what a document or a comment of the
repository says; `PROJECT.json` quotes it.

- `SessionPowerOff`: README.txt promises that a power-off in a game resumes at
  the next boot. `PLAT_powerOff` returns, and its callers may truncate the
  quicksave again or remove the mark before the shutdown reaches them.
- `CoreThreadMenu`: MENU stops the core and main waits for a signal that may have
  been lost or, for a repeated frame, is not sent.
- `ScalerFallback`: scaler.h sends odd pitches and addresses to "the C scaler";
  `scale2x4_n16` picks the one of three lines, so a row is stored three times where
  four were asked for. The front ends ask for equal factors and do not meet it.

Other things seen in the code while it was modelled. The models contain them, and
the properties except them where they must:

- turning the threaded core off during fast forward cancels and joins a thread that
  is gone (minarch.c:4791);
- `loadLast` keeps only the last component of the path closed, so a disc remembered
  by its own path opens the folder that launches it (minui.c:1435);
- after LEFT or RIGHT on Continue, B, Save and Load keep the disc that was
  turned to and not inserted (minarch.c:4303), while BASE/README.txt:183 says that
  Continue shows the current disc; loading a state does not set it either;
- a change to a disc that cannot be opened leaves the old one in the core under
  the new name (minarch.c:371);
- Recents show the disc last changed to only until the game is opened from
  Recents again without a change;
- RESUME for the game just taken out of Favourites (under MenuNav);
- msettings.c calls the jack and HDMI "monitored and set by thread in keymon" (rgb30,
  line 173), but a program that starts looks at a port, keymon's thread stores a
  change, and the program stores its old look (msettings.c:91-97); the thread
  compares only with its own (keymon.c:60-69), so the memory stays wrong until the
  next change;
- pulled gamepads, missed releases and the centred stick (under Input).

## 4. Fairness

- `SndRing`: weak fairness for both threads' steps: they are scheduled.
  Strong fairness for `BatchRelock` and `StartCallback`: both ask for a lock that
  is free again and again; the producer leaves it free for a millisecond at a
  time, the device asks once in a buffer's length. None for pausing:
  `BatchReturns` assumes that the device is not put to sleep for ever.
- `CoreThread`: weak fairness for the steps of both threads, strong for those
  of the core's thread that need `core_mx`, and for `CoreVideo`: a core that
  repeats frames still draws one now and then. None for the player or for
  spurious wakeups. `KeepsDrawing` and `JoinReturns` exclude `MenuRace`, the press of
  MENU in the two lines between main's look at `show_menu` and its handling
  of `toggle_thread`; `MenuOpens` does not.
- `Scaler`: weak fairness for `Next`: a call runs to its end.
- `Session`, `MenuNav`, `SaveSlots`, `Config`, `Settings`, `Input`: safety only. Every
  step there is the player's, or may be cut short by him.

## 5. Proofs

| theorem | property | for every |
|---|---|---|
| `SndTypeCorrect`, `ResamplerNeverDrifts`, `DryStreamKeepsChannels`, `RingImplementsFifo` | `TypeOK`, `NoPitchDrift`, `FillKeepsChannel`, `ImplementsFifo` | ring of two slots or more, positive rates, batch size, tries and callback lengths |
| `SessionTypeCorrect`, `ResumesTheMarkedQuicksave`, `ChosenSlotIsLoaded`, `LauncherConsumesMark`, `MarksResumeOnce` | `TypeOK`, `ResumeLoadsItsQuicksave`, `LoadsChosenSlot`, `LauncherHasNoMark`, `ResumeAtMostOnce` | set of games, number of quicksaves, with and without power cuts |
| `CoreTypeCorrect`, `MainRunsTheCoreAlone`, `NoFrameBeginsBehindMenu` | `CoreTypeOK`, `CoreRunsOnce`, `NoFrameBehindMenu` | core that repeats frames or not |
| `MenuTypeCorrect`, `SelectionIsShown`, `RestoredPositionFits`, `RecentsAreInOrder`, `ResumeIsOfSelected`, `GameIsReturnedTo` | `TypeOK`, `ShowsSelection`, `RestoreFits`, `RecentsInOrder`, `ResumeIsForSelected`, `ReturnsToGame` | card, screen height, number of recents, sequence of inputs, several buttons in one turn included |
| `StatesFindTheirDisc`, `DiscsShareTheCard`, `RecentsShowTheDisc` | `StateFindsItsDisc`, `MemoryCardIsShared`, `RecentIsLastDisc` | number of discs, slots (up to eight), saves, writes and faults |
| `ConfigTypeCorrect`, `RestoringIsStarting`, `SavesComeBack`, `SettingsAreApplied` | `TypeOK`, `CleanIsInForce`, `SavedComesBack`, `AppliedIsSet` | set of games, `system.cfg` and `default.cfg`, set of locks, number of values of an option, changes and saves |
| `SettingsTyped`, `ChangesAreSaved`, `LevelsDoNotRunAway`, `PortsAreReported` | `TypeOK`, `SavedWhenQuiet`, `NoRunaway`, `PortsReported` | of the thirteen devices, set of programs beside keymon, highest volume and brightness, number of key presses, plugs and sleeps |
| `InputIsTyped`, `NoButtonSticks`, `PowerIsHeld`, `LidSleeps`, `WakeDoesNotSleep`, `RumbleReturns` | `TypeOK`, `NoStuckButton`, `HoldIsHeld`, `ClosedLidSleeps`, `NoSleepAfterWake`, `RumbleGivenBack` | device with any keys, keyed or sampled stick, gamepad and lid, delay, frame time and length of the kernel's queue |
| `CursorsKeepToLine`, `PictureIsScaled`, `EveryStepLeavesLess` | `KeepsToLine`, `Scaled` | routine of the tables, size, pitches and alignment |

They assume what the modules state as named assumptions on the constants and
nothing else. Each follows from an inductive invariant, `IInv` (`CoreInv` for `CoreThread`):

- **SndRing**: `FilledTrailsOut` (`frame_filled` is the slot before `frame_out`, so
  "full" leaves one slot free and cannot be taken for "empty"), `LockedLoops` (the
  loops run exactly under the lock, so the callback never moves an index under
  them), `LocalsInBatch` (the locals stay within the frames handed over). The
  refinement then needs only how `Waiting` changes when a frame is stored or copied.
  `Sided` (odd places of a stream are left samples, even ones right) holds because
  frames are copied whole and a sample's mirror is an even number of places before it.
- **Session**: `Numbered` (no mark that the card may still hold has been
  consumed), `MarkWhole` (a mark for the newest quicksave, unless that failed, means
  that the card holds that quicksave and nothing else), `ResumingWhole` (it stays so from
  `autoResume` to `State_resume`), `SlotChosen`, `CacheOnCard`, `GameKnown`. `MarkWhole` is where
  the order "write, sync, mark" is used; without it a power cut separates mark
  and quicksave.
- **CoreThread**: `ThreadMatchesFlag` (with `thread_video` off there is no thread,
  except while main joins a cancelled one) and `MenuStopsCore` (where the menu
  has been asked for, a thread has been told to stop).
- **MenuNav**: `Live` (each open directory holds its current list with a full
  window, and is the selected entry of the one below; a kept position fits
  the directory in its parent's row) and `Loading` (`loadLast` works on fresh
  lists at their first page, which is why its simple scrolling is enough). That
  a position is kept by depth and row alone is sound because of the chain: no
  directory above it can be exchanged without closing it first. `Offer` (RESUME
  is the selected entry's wherever a turn ends) and `Return` (from `saveLast` over the
  restart to the last turn of `loadLast`, the path that is left leads from the top
  directory to what was started) are invariants beside it. `Return` uses
  `WayAssumption`: that a path's components are listed where they lead.
- **SaveSlots**: a state's disc goes from the save through a file, the launcher,
  another file and a start. `NotesAreTrue` (a slot's file, where it is whole and
  was noted, names the state's disc), `MarkIsTrue` (the auto-resume's mark names the
  quicksave's disc) and `RomIsTrue` (what is about to start is what one of the two
  said) carry it over the steps. `GameIsM3u` (unless a change has failed, the game
  has the `.m3u`'s name whatever disc is in) is why all discs find one memory card,
  and `ListedNext` (what the next launcher will list is the disc last changed to)
  is what `change_disc` means while the launcher does not run.
- **Config**: `OpenedIs` (between the two readings the values are those of the
  first) makes the second come to the same: a line read twice is a line read once
  (`TwiceIsOnce`). `PromisesKept` (a completed save is on the card whole, a file
  that a save has replaced is gone, and a promise leaves no ghost that could
  come back over it) is where the sync and the removal of the game's file are used.
  `ToldIs` (screen and port know the values, in the menu as well; effect and speed
  only in the game, because the menu takes them away) and `SeenIs` (the core knows
  its options or `changed` is set).
- **Settings**: a call is a sequence of steps, cut anywhere by the others'. `WellFormed`
  (what is read is written next if at all, what is written is saved next) holds of
  every call that a device's record can make, is kept when a step is taken off the
  front, and is what `Pending` rests on: while file and memory differ, some process has
  a save before it, and a save writes all of the memory, whoever changed it.
  `TypeOK` needs `CallsTyped`: a level read before another's change is still a level when it
  is written. `Waiting` (an unread press is of a key that is down or whose release
  is queued behind it) gives `NoRunaway` when an event is read. For the ports, `Owes`
  says of each watched one that is not `doubted` (`LooksTrue`): what a program or keymon's
  loop is about to store of it (`Told`), or will find queued (`Sent`), is the port as it
  is; what the thread is about to store is what it last saw; and between its calls the
  memory has one of the two. When the thread has seen the last change they are the same.
  A doubt may end with the thread's store only because nobody else is about to store
  the port (`Others`). The loops over keys and
  ports are folds, gone through by induction on their length.
- **Input**: the invariant speaks of events that nobody has read. `KeysDown` (an
  unread press that no unread release follows is of a key that is down),
  `ButtonsHeld` (what the pad takes for pressed is down or its release is unread) and
  `StickPoints` (the stick is where its last event says) say what a poll will find;
  `PowerHeld` ties POWER's time to POWER, and `Wakes` says that presses and releases of
  the key that sleeps alternate, so that the release that wakes leaves only what begins
  with a press. `LidSeen`, `Motor` and `Strength` are small. What a poll makes of a
  queue of any length is shown by induction on the events.
- **Scaler**: `CInv` says for each place in the loops what is left of the line: whole
  blocks, the width's bits below the last one tested, a rest that is one word in a
  narrow copy. `Remembers` says that memory is the picture's cells, no more and no
  less, of the lines that are done and the pixels passed (`Filled`). `AsAsked` is that
  the routine at work has the factors and shades of the call, from the tables entry by
  entry, but for `ShortFallback`. `StoresOK`, shown
  for each routine of the tables from its shifts, is that lane t of a block is pixel
  t / mul; the rest is arithmetic of addresses (`Fold`, `TargetsBox`). `Left` is the number
  that every step makes smaller: lines, then pixels and bits of the line.

`LauncherHasNoMark` (while the launcher is shown there is no mark) is proved and has
no run of its own: `ResumeAtMostOnce` fails where it does.

The library's induction theorems take an operator as a parameter, which no
installed prover instantiates. For the loops over events, keys and ports,
`Input_proofs` and `Settings_proofs` have a lemma on sets instead (`UpTo`,
`Upwards`: a set that has 0 and with every number the next has them all), from
the well-founded order of the naturals.

### Only model-checked

- liveness: `BatchReturns`, `JoinReturns`, `KeepsDrawing`, `Finishes` (fairness and
  ENABLED are outside the prover's reach; of `Finishes`, that no loop goes round for
  ever is proved, as `EveryStepLeavesLess`);
- the three violations, which are counterexamples.

## 6. Not modelled

Hazards that no property covers, in the parts that are modelled, with the reason:

- nothing in the code handles them, so a property could only say that they occur:
  SAVE_QUIT and hdmimon end main's loop while the core's thread may be in a frame
  (minarch.c:4804), `menu.disc` (4303) and the failed disc change (371), which are
  in `PROJECT.json`; the cancelled thread inside `core.run` (4791), save memory
  written while the thread finishes its frame (4238);
- memory of the C library or of SDL is involved: `SDL_OpenAudio` failing and
  `SND_quit` under a running thread (api.c:1093, 1107);
- the other components would have to be composed: a quit from inside a nested menu
  (minarch.c:2174), the release of POWER that toggles the thread after a sleep
  (1675), a mark that is removed and not synced (3122);
- the model has it and the property excepts it, because the code does not look: the
  mark that is written for a quicksave that failed (556, in `Session`).

Parts that are not modelled:

- **in-game menu screens**: lists with the launcher's way of paging, drawn at once.
  What they change is in `Config` (options, bindings), `SaveSlots` (slots, discs),
  `CoreThread` (the thread) and `Input` (the loops that poll).
- **opening a rom**: what it leaves and where it fails is in `SaveSlots` and
  `Session`; zip and m3u formats are not.
- **drawing, themes**: pixels, fonts and caches of surfaces, one thread.
- **platform layers**: input, settings, power-off are modelled; video, battery and
  CPU code drives devices.
- **tools, boot, install and update scripts**: small and straight-line.
- **cores and paks**: external, or scripts that set paths and start minarch.
