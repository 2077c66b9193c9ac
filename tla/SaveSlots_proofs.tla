-------------------------- MODULE SaveSlots_proofs --------------------------
(***************************************************************************)
(* Proofs about module SaveSlots, for any number of discs, any number of   *)
(* slots the menu may have, any number of saves and faults: a state finds  *)
(* its disc, the discs share one memory card, and the launcher lists the   *)
(* disc last changed to.                                                   *)
(***************************************************************************)
EXTENDS SaveSlots, TLAPS

USE SaveSlotsAssumption

InGame == pc \in {"play", "menu"}
NoPath == {Gone, Torn}
Slots == Slot \cup {AutoSlot}
StateSet == [is : {"whole", "none", "torn"}, disc : Disc \cup {Gone}, mem : Int, noted : BOOLEAN]

\* The files, the launcher's variables.
FileTypes ==
  /\ need_fullpath \in BOOLEAN
  /\ states \in [Name -> [Slots -> StateSet]]
  /\ txt \in [Name -> [Slot -> Path \cup NoPath]]
  /\ slot_path \in Slot \cup NoPath
  /\ sram \in [Name -> Int] /\ owed \in Int
  /\ auto \in Path \cup {Gone}
  /\ change_disc \in Path \cup {Gone}
  /\ lastDisc \in Path \cup {M3u, Gone}
  /\ recents \in Seq(Path \cup {M3u})
  /\ resume_slot \in Slots \cup {Hidden} \cup NoPath
  /\ strayed \in BOOLEAN /\ writes \in Nat

\* The program that runs, and what it has open.
GameTypes ==
  /\ pc \in {"script", "launcher", "next", "play", "menu"}
  /\ rom \in Path \cup {Gone} /\ (pc = "next" => rom \in Path /\ resume_slot # Gone)
  /\ game \in [path : Path \cup {Gone}, name : Name \cup {Gone}]
  /\ InGame => game.path \in Path /\ game.name \in Name
  /\ core \in [disc : Disc \cup {Gone}, mem : Int]
  /\ menu \in [disc : {-1} \cup Disc, slot : Slot, rom_disc : {-1} \cup Disc]
  /\ pc = "menu" => menu.disc \in Disc \/ menu.rom_disc = menu.disc

\* Unless a disc change has failed, minarch works under the .m3u's name and the
\* disc in the drive is the file that is open.
GameIsM3u ==
  InGame /\ ~strayed => game.name = M3u /\ core.disc \in {game.path, Gone}

\* What the launcher would list; nothing but a disc change is ahead of the .m3u.
ListedNext ==
  /\ FirstOfGame = IF lastDisc = Gone THEN <<>> ELSE <<lastDisc>>
  /\ pc = "launcher" => change_disc = Gone
  /\ pc # "launcher" /\ recents # <<>> => Head(recents) = M3u
  /\ pc \in {"next", "play", "menu"} \/ auto # Gone => recents # <<>>

\* What was noted for a state is the disc it was saved with.
NotesAreTrue ==
  \A s \in Slot : states[M3u][s].noted =>
    states[M3u][s].disc \in Disc /\ txt[M3u][s] = states[M3u][s].disc

\* The mark names the disc of the quicksave it was written with.
MarkIsTrue ==
  auto # Gone /\ ~strayed /\ states[M3u][AutoSlot].noted => auto = states[M3u][AutoSlot].disc

\* The launcher starts the disc of the state it has minarch load.
RomIsTrue ==
  pc = "next" /\ ~strayed /\ resume_slot \in Slots /\ states[M3u][resume_slot].noted =>
    rom = states[M3u][resume_slot].disc

IInv ==
  /\ FileTypes /\ GameTypes /\ GameIsM3u
  /\ MemoryCardIsShared /\ RecentIsLastDisc /\ ListedNext
  /\ NotesAreTrue /\ MarkIsTrue /\ RomIsTrue

-----------------------------------------------------------------------------
\* What the actions are built from.

LEMMA Apart ==
  /\ Gone \notin Path /\ Gone \notin Name /\ Gone # M3u /\ M3u \in Name /\ M3u \notin Path
  /\ Torn \notin Path /\ Torn # Gone /\ Disc \subseteq Path /\ Path \subseteq Name
  /\ 0 \in Disc /\ -1 \notin Path /\ Gone \notin Disc
  BY DEF Gone, Torn, Path, Name, M3u, Disc, Folder, Other

LEMMA SlotsApart ==
  /\ AutoSlot \notin Slot /\ Hidden \notin Slots /\ Gone \notin Slots /\ Torn \notin Slots
  /\ 0 \in Slot /\ Slot \subseteq Slots /\ AutoSlot \in Slots /\ Gone # Hidden /\ Torn # Hidden
  /\ \A s \in Slots : s \in Nat
  BY DEF AutoSlot, Hidden, Gone, Torn, Slots, Slot

\* Game_open gives the path it was asked for, and the .m3u's name if it opened.
LEMMA GameOpenResults ==
  ASSUME NEW path \in Path, NEW g \in Game_open(path)
  PROVE  /\ g \in [path : Path, name : Name] /\ g.path = path
         /\ Inserted(g) \in Disc \cup {Gone} /\ Inserted(g) \in {path, Gone}
  BY Apart DEF Game_open, Opened, NotOpened, Inserted, IsOpen

\* Game_changeDisc leaves everything as it is, or has opened the path.
LEMMA ChangeResults ==
  ASSUME NEW path \in Path, NEW r \in Game_changeDisc(path), core.disc \in Disc \cup {Gone}
  PROVE  \/ r.game = game /\ r.disc = core.disc /\ r.change_disc = change_disc /\ path \in {game.path, Other}
         \/ /\ r.game \in [path : Path, name : Name] /\ r.game.path = path /\ r.game # game
            /\ r.disc \in Disc \cup {Gone} /\ r.disc \in {path, Gone} /\ r.change_disc = path
<1>1. CASE path \in {game.path, Other}
  BY <1>1 DEF Game_changeDisc
<1>2. CASE path \notin {game.path, Other}
  <2>1. PICK g \in Game_open(path) : r = [game |-> g, disc |-> Inserted(g), change_disc |-> path]
    BY <1>2 DEF Game_changeDisc
  <2> QED BY <2>1, <1>2, GameOpenResults
<1> QED BY <1>1, <1>2

\* The disc a state asks for.
LEMMA NotedDiscIsPath ==
  ASSUME FileTypes, GameTypes, InGame PROVE NotedDisc \subseteq Path
<1>1. txt[game.name][menu.slot] \in Path \cup {Gone, Torn}
  BY DEF FileTypes, GameTypes, NoPath
<1> QED BY <1>1 DEF NotedDisc, Path

LEMMA LeftRightTurns ==
  ASSUME NEW count \in Nat \ {0}, NEW n \in -1 .. count - 1, NEW step \in {-1, 1},
         n = -1 => count > 1
  PROVE  Turned(n, step, count) \in 0 .. count - 1
  BY DEF Turned

\* The card that State_resume and State_read leave the core.
LEMMA StateTypes ==
  ASSUME FileTypes, resume_slot # Gone
  PROVE  /\ NoState \in StateSet /\ TornState \in StateSet
         /\ Resumed \in StateSet /\ SRAM_read \in Int
         /\ \A state \in StateSet, mem \in Int : State_read(state, mem) \in Int
<1>1. NoState \in StateSet /\ TornState \in StateSet
  <2>1. NoState \in StateSet
    BY DEF NoState, StateSet
  <2>2. TornState \in StateSet
    BY DEF StateSet, TornState
  <2> QED BY <2>1, <2>2
<1>2. Resumed \in StateSet
  <2>1. resume_slot \in Slots => states[M3u][resume_slot] \in StateSet
    BY Apart DEF FileTypes
  <2>2. states[M3u][0] \in StateSet
    BY Apart, SlotsApart DEF FileTypes
  <2> QED BY <1>1, <2>1, <2>2 DEF Resumed, FileTypes, NoPath
<1>3. SRAM_read \in Int
  BY Apart DEF SRAM_read, FileTypes
<1> QED BY <1>1, <1>2, <1>3 DEF State_read, StateSet

Types == FileTypes /\ GameTypes

\* SRAM_write writes the card of the game's name.
LEMMA CardWritten ==
  ASSUME Types, InGame, SRAM_write
  PROVE  /\ sram' \in [Name -> Int] /\ owed' \in Int
         /\ game.name = M3u => sram'[M3u] = owed'
<1>1. PICK written \in {core.mem, Torn} :
        sram' = [sram EXCEPT ![game.name] = written] /\ owed' = written
  BY DEF SRAM_write
<1>2. written \in Int
  BY DEF Types, GameTypes, Torn
<1> QED BY <1>1, <1>2, Apart DEF Types, FileTypes, GameTypes

LEMMA NewStateType ==
  ASSUME Types
  PROVE  NewState \in StateSet /\ \A state \in StateSet : Unnoted(state) \in StateSet
<1>1. core.disc \in Disc \cup {Gone} /\ core.mem \in Int
  BY DEF Types, GameTypes
<1>2. NewState \in StateSet
  BY <1>1 DEF NewState, State, StateSet
<1> QED BY <1>2 DEF Unnoted, StateSet

LEMMA NotedIsPath ==
  ASSUME Types PROVE Noted \subseteq Path \cup NoPath
  BY Apart DEF Noted, NoPath, Path

\* Menu_saveState writes the state of one slot, with its disc.
LEMMA StateSaved ==
  ASSUME Types, InGame, NEW state \in StateSet, Menu_saveState(state)
  PROVE  /\ states' \in [Name -> [Slots -> StateSet]]
         /\ txt' \in [Name -> [Slot -> Path \cup NoPath]]
         /\ slot_path' \in Slot
         /\ states'[M3u][AutoSlot] = states[M3u][AutoSlot]
         /\ \A s \in Slot :
              \/ states'[M3u][s] = states[M3u][s] /\ txt'[M3u][s] = txt[M3u][s]
              \/ states'[M3u][s] = state /\ txt'[M3u][s] \in Noted
<1>1. /\ game.name \in Name /\ menu.slot \in Slot
  BY DEF Types, GameTypes
<1>2. PICK disc \in Noted : txt' = [txt EXCEPT ![game.name][menu.slot] = disc]
  BY DEF Menu_saveState
<1>3. states' = [states EXCEPT ![game.name][menu.slot] = state] /\ slot_path' = menu.slot
  BY DEF Menu_saveState
<1>4. disc \in Path \cup NoPath
  BY <1>2, NotedIsPath
<1>5. states' \in [Name -> [Slots -> StateSet]]
  BY <1>1, <1>3, SlotsApart DEF Types, FileTypes
<1>6. txt' \in [Name -> [Slot -> Path \cup NoPath]]
  BY <1>1, <1>2, <1>4 DEF Types, FileTypes
<1>7. states'[M3u][AutoSlot] = states[M3u][AutoSlot]
  BY <1>1, <1>3, Apart, SlotsApart DEF Types, FileTypes
<1>8. ASSUME NEW s \in Slot
      PROVE  \/ states'[M3u][s] = states[M3u][s] /\ txt'[M3u][s] = txt[M3u][s]
             \/ states'[M3u][s] = state /\ txt'[M3u][s] \in Noted
  BY <1>1, <1>2, <1>3, Apart, SlotsApart DEF Types, FileTypes
<1> QED BY <1>1, <1>3, <1>5, <1>6, <1>7, <1>8

\* A power cut in it leaves each file as it was, empty or written.
LEMMA SaveCut ==
  ASSUME Types, CutInSave
  PROVE  /\ states' \in [Name -> [Slots -> StateSet]]
         /\ txt' \in [Name -> [Slot -> Path \cup NoPath]]
         /\ slot_path' \in Slot \cup NoPath
         /\ states'[M3u][AutoSlot] = states[M3u][AutoSlot]
         /\ \A s \in Slot :
              \/ states'[M3u][s] = states[M3u][s] /\ txt'[M3u][s] = txt[M3u][s]
              \/ states'[M3u][s] = NewState /\ txt'[M3u][s] \in Noted
              \/ ~states'[M3u][s].noted
<1>1. game.name \in Name /\ menu.slot \in Slot
  BY DEF Types, GameTypes, CutInSave, InGame
<1> DEFINE n == game.name
           m == menu.slot
<1>2. PICK disc \in Noted, d \in {"old", "torn", "new"}, s \in {"old", "torn", "new"} :
        /\ txt' = [txt EXCEPT ![n][m] = CASE d = "old" -> @ [] d = "torn" -> Torn [] OTHER -> disc]
        /\ states' = [states EXCEPT ![n][m] =
                       CASE s = "torn" -> TornState
                         [] s = "new" -> IF d = "new" THEN NewState ELSE Unnoted(NewState)
                         [] OTHER -> IF d = "old" THEN @ ELSE Unnoted(@)]
  BY DEF CutInSave
<1> DEFINE newTxt == CASE d = "old" -> txt[n][m] [] d = "torn" -> Torn [] OTHER -> disc
           newState == CASE s = "torn" -> TornState
                         [] s = "new" -> IF d = "new" THEN NewState ELSE Unnoted(NewState)
                         [] OTHER -> IF d = "old" THEN states[n][m] ELSE Unnoted(states[n][m])
<1>3. txt' = [txt EXCEPT ![n][m] = newTxt] /\ states' = [states EXCEPT ![n][m] = newState]
  BY <1>2, <1>1, SlotsApart DEF Types, FileTypes
<1>4. newTxt \in Path \cup NoPath
  BY <1>1, <1>2, NotedIsPath DEF Types, FileTypes, NoPath
<1>5. states[n][m] \in StateSet /\ TornState \in StateSet
  <2>1. states[n][m] \in StateSet
    BY <1>1, SlotsApart DEF Types, FileTypes
  <2>2. TornState \in StateSet
    BY DEF TornState, StateSet
  <2> QED BY <2>1, <2>2
<1>6. newState \in StateSet
  BY <1>2, <1>5, NewStateType
<1>7. \/ newState = states[n][m] /\ newTxt = txt[n][m]
      \/ newState = NewState /\ newTxt \in Noted
      \/ ~newState.noted
  BY <1>2 DEF TornState, Unnoted
<1> HIDE DEF newTxt, newState
<1>8. states' \in [Name -> [Slots -> StateSet]] /\ txt' \in [Name -> [Slot -> Path \cup NoPath]]
  BY <1>1, <1>3, <1>4, <1>6, SlotsApart DEF Types, FileTypes
<1>9. states'[M3u][AutoSlot] = states[M3u][AutoSlot]
  BY <1>1, <1>3, Apart, SlotsApart DEF Types, FileTypes
<1>10. ASSUME NEW i \in Slot
       PROVE  \/ states'[M3u][i] = states[M3u][i] /\ txt'[M3u][i] = txt[M3u][i]
              \/ states'[M3u][i] = newState /\ txt'[M3u][i] = newTxt /\ n = M3u /\ m = i
  BY <1>1, <1>3, Apart, SlotsApart DEF Types, FileTypes
<1>11. slot_path' \in Slot \cup NoPath
  BY <1>1 DEF CutInSave, Types, FileTypes, NoPath
<1>12. ASSUME NEW i \in Slot
       PROVE  \/ states'[M3u][i] = states[M3u][i] /\ txt'[M3u][i] = txt[M3u][i]
              \/ states'[M3u][i] = NewState /\ txt'[M3u][i] \in Noted
              \/ ~states'[M3u][i].noted
  BY <1>7, <1>10
<1> QED BY <1>8, <1>9, <1>11, <1>12

\* Menu_beforeSleep writes the card, the quicksave and the mark.
LEMMA Quicksaved ==
  ASSUME Types, Menu_beforeSleep
  PROVE  /\ InGame /\ SRAM_write /\ auto' = game.path
         /\ states' \in [Name -> [Slots -> StateSet]]
         /\ \A s \in Slot : states'[M3u][s] = states[M3u][s]
         /\ game.name = M3u => states'[M3u][AutoSlot] = State(core.disc, core.mem, game.path = core.disc)
<1>1. InGame /\ SRAM_write /\ auto' = game.path
  BY DEF Menu_beforeSleep, InGame
<1> DEFINE new == State(core.disc, core.mem, game.path = core.disc)
<1>2. new \in StateSet
  BY DEF State, StateSet, Types, GameTypes
<1>3. states' = [states EXCEPT ![game.name][AutoSlot] = new]
  BY DEF Menu_beforeSleep
<1>4. game.name \in Name
  BY <1>1 DEF Types, GameTypes
<1> HIDE DEF new
<1>5. states' \in [Name -> [Slots -> StateSet]]
  BY <1>2, <1>3, <1>4, SlotsApart DEF Types, FileTypes
<1>6. \A s \in Slot : states'[M3u][s] = states[M3u][s]
  BY <1>3, <1>4, Apart, SlotsApart DEF Types, FileTypes
<1>7. game.name = M3u => states'[M3u][AutoSlot] = new
  BY <1>3, <1>4, Apart, SlotsApart DEF Types, FileTypes
<1> QED BY <1>1, <1>5, <1>6, <1>7 DEF new

\* A disc change leaves the drive and the recents as they are, or changes both.
LEMMA Changed ==
  ASSUME Types, InGame, NEW path \in Path, NEW r \in Game_changeDisc(path), Change(r)
  PROVE  /\ game' \in [path : Path, name : Name] /\ game' = r.game
         /\ r.disc \in Disc \cup {Gone} /\ change_disc' \in Path \cup {Gone}
         /\ lastDisc' \in Path \cup {M3u, Gone} /\ strayed' \in BOOLEAN
         /\ ~strayed' => ~strayed /\ game'.name = M3u
         /\ \/ /\ game' = game /\ r.disc = core.disc /\ change_disc' = change_disc
               /\ lastDisc' = lastDisc /\ path \in {game.path, Other}
            \/ /\ game'.path = path /\ r.disc \in {path, Gone} /\ change_disc' = path
               /\ lastDisc' = path
<1>1. core.disc \in Disc \cup {Gone} /\ game \in [path : Path, name : Name]
  BY DEF Types, GameTypes
<1>2. \/ r.game = game /\ r.disc = core.disc /\ r.change_disc = change_disc /\ path \in {game.path, Other}
      \/ /\ r.game \in [path : Path, name : Name] /\ r.game.path = path /\ r.game # game
         /\ r.disc \in Disc \cup {Gone} /\ r.disc \in {path, Gone} /\ r.change_disc = path
  BY <1>1, ChangeResults
<1>3. /\ game' = r.game /\ change_disc' = r.change_disc
      /\ lastDisc' = IF r.game = game THEN lastDisc ELSE r.game.path
      /\ strayed' = (strayed \/ ~IsOpen(r.game))
  BY DEF Change
<1>4. strayed' \in BOOLEAN /\ (~strayed' => ~strayed /\ game'.name = M3u)
  BY <1>3 DEF IsOpen, Types, FileTypes
<1> QED BY <1>1, <1>2, <1>3, <1>4 DEF Types, FileTypes

-----------------------------------------------------------------------------
\* The types.

LEMMA InitTypes == Init => Types
<1> SUFFICES ASSUME Init PROVE Types
  OBVIOUS
<1> USE DEF Init, NoGame, NoCore, NoMenu
<1>1. states \in [Name -> [Slots -> StateSet]]
  <2>1. NoState \in StateSet
    BY DEF NoState, StateSet
  <2> QED BY <2>1 DEF Slots
<1>2. txt \in [Name -> [Slot -> Path \cup NoPath]] /\ sram \in [Name -> Int]
  BY DEF NoPath
<1>3. recents \in Seq(Path \cup {M3u})
  OBVIOUS
<1>4. slot_path \in NoPath /\ resume_slot \in NoPath /\ owed \in Int
  BY DEF NoPath
<1>5. need_fullpath \in BOOLEAN /\ strayed \in BOOLEAN /\ writes \in Nat
  OBVIOUS
<1>6. FileTypes
  BY <1>1, <1>2, <1>3, <1>4, <1>5 DEF FileTypes
<1>7. GameTypes
  BY SlotsApart, Apart DEF GameTypes, InGame
<1> QED BY <1>6, <1>7 DEF Types

\* Minarch has ended.
LEMMA EndsTypes == ASSUME Types, Ends, rom' = rom PROVE GameTypes'
<1> USE DEF Ends, NoGame, NoCore, NoMenu
<1>1. rom \in Path \cup {Gone} /\ pc' = "script"
  BY DEF Types, GameTypes
<1> QED BY <1>1, SlotsApart, Apart DEF GameTypes, InGame

LEMMA PowerOffTypes ==
  ASSUME Types, PowerOff
  PROVE  change_disc' = Gone /\ resume_slot' = Gone /\ lastDisc' \in {M3u, Gone} /\ Ends
  BY DEF PowerOff

LEMMA MenuClosesTypes ==
  ASSUME Types, MenuCloses
  PROVE  /\ pc' = "play"
         /\ menu' \in [disc : {-1} \cup Disc, slot : Slot, rom_disc : {-1} \cup Disc]
  BY DEF MenuCloses, Types, GameTypes

LEMMA SlotKnown ==
  ASSUME Types, NEW slot \in Slot PROVE Menu_initState(slot) \in Slot
  BY SlotsApart DEF Menu_initState, Types, FileTypes, NoPath

LEMMA FirstType == ASSUME Types PROVE FirstOfGame \in Seq(Path \cup {M3u})
<1>1. recents \in Seq(Path \cup {M3u}) /\ change_disc \in Path \cup {Gone}
  BY DEF Types, FileTypes
<1>2. CASE change_disc # Gone
  <2>1. FirstOfGame = <<change_disc>>
    BY <1>2 DEF FirstOfGame
  <2> QED BY <1>1, <1>2, <2>1
<1>3. CASE change_disc = Gone /\ recents = <<>>
  <2>1. FirstOfGame = <<>>
    BY <1>3 DEF FirstOfGame
  <2> QED BY <2>1
<1>4. CASE change_disc = Gone /\ recents # <<>>
  <2>1. FirstOfGame = <<Head(recents)>>
    BY <1>4 DEF FirstOfGame
  <2>2. Head(recents) \in Path \cup {M3u}
    BY <1>1, <1>4
  <2> QED BY <2>1, <2>2
<1> QED BY <1>2, <1>3, <1>4

LEMMA AddedType ==
  ASSUME Types
  PROVE  addRecent \in Seq(Path \cup {M3u}) /\ addRecent # <<>> /\ Head(addRecent) = M3u
<1>1. recents \in Seq(Path \cup {M3u})
  BY DEF Types, FileTypes
<1>2. CASE recents # <<>> /\ Head(recents) = M3u
  BY <1>1, <1>2 DEF addRecent
<1>3. CASE ~(recents # <<>> /\ Head(recents) = M3u)
  <2>1. addRecent = <<M3u>> \o recents
    BY <1>3 DEF addRecent
  <2>2. <<M3u>> \in Seq(Path \cup {M3u}) /\ Len(<<M3u>>) = 1 /\ <<M3u>>[1] = M3u
    OBVIOUS
  <2>3. addRecent \in Seq(Path \cup {M3u})
    BY <1>1, <2>1, <2>2
  <2>4. Len(addRecent) = 1 + Len(recents) /\ addRecent[1] = M3u
    BY <1>1, <2>1, <2>2
  <2> QED BY <1>1, <2>3, <2>4
<1> QED BY <1>2, <1>3

LEMMA LauncherTypes ==
  ASSUME Types, MinuiStarts \/ \E entry \in {M3u} \cup ToSet(recents), should_resume \in BOOLEAN :
                                 OpenRom(entry, should_resume)
  PROVE  Types'
<1>1. CASE MinuiStarts
  <2>1. recents' \in Seq(Path \cup {M3u})
    <3> QED BY <1>1, FirstType DEF MinuiStarts, HasRecents, Types, FileTypes
  <2>2. FileTypes'
    BY <1>1, <2>1, SlotsApart DEF MinuiStarts, HasRecents, Types, FileTypes, boundVars, historyVars, NoPath
  <2>3. GameTypes'
    BY <1>1, SlotsApart, Apart DEF MinuiStarts, HasRecents, Types, FileTypes, GameTypes, gameVars, InGame
  <2> QED BY <2>2, <2>3 DEF Types
<1>2. ASSUME NEW entry \in {M3u} \cup ToSet(recents), NEW should_resume \in BOOLEAN,
             OpenRom(entry, should_resume)
      PROVE  Types'
  <2> DEFINE disc == IF entry = M3u THEN getFirstDisc ELSE entry
  <2>1. entry \in Path \cup {M3u}
    BY DEF ToSet, Types, FileTypes
  <2>2. disc \in Path
    BY <2>1, Apart DEF getFirstDisc
  <2> HIDE DEF disc
  <2>3. slot_path # Gone => DiscForState(disc) \in Path
    <3>1. slot_path \notin NoPath => txt[M3u][slot_path] \in Path \cup NoPath
      BY Apart DEF Types, FileTypes
    <3> QED BY <2>2, <3>1 DEF DiscForState, NoPath, Path
  <2>4. rom' \in Path /\ resume_slot' \in Slots \cup {Hidden} \cup NoPath /\ resume_slot' # Gone
    <3>1. rom' = IF should_resume THEN DiscForState(disc) ELSE disc
      BY <1>2 DEF OpenRom, disc
    <3>2. resume_slot' = (IF should_resume THEN slot_path ELSE Hidden) /\ (should_resume => slot_path # Gone)
      BY <1>2 DEF OpenRom
    <3> QED BY <2>2, <2>3, <3>1, <3>2, SlotsApart DEF Types, FileTypes
  <2>5. recents' \in Seq(Path \cup {M3u})
    BY <1>2, AddedType DEF OpenRom
  <2>6. FileTypes'
    BY <1>2, <2>4, <2>5 DEF OpenRom, Types, FileTypes, boundVars
  <2>7. GameTypes'
    BY <1>2, <2>4 DEF OpenRom, Types, GameTypes, gameVars, InGame
  <2> QED BY <2>6, <2>7 DEF Types
<1> QED BY <1>1, <1>2

LEMMA StartTypes == ASSUME Types, Start PROVE Types'
<1>1. rom \in Path /\ resume_slot # Gone
  BY DEF Start, Types, GameTypes
<1>2. PICK g \in Game_open(rom) :
        /\ IsOpen(g) /\ game' = g
        /\ core' = [disc |-> Inserted(g), mem |-> State_read(Resumed, SRAM_read)]
  BY DEF Start
<1>3. g \in [path : Path, name : Name] /\ Inserted(g) \in Disc \cup {Gone}
  BY <1>1, <1>2, GameOpenResults
<1>4. State_read(Resumed, SRAM_read) \in Int
  BY <1>1, StateTypes DEF Types
<1>5. menu' \in [disc : {-1} \cup Disc, slot : Slot, rom_disc : {-1} \cup Disc]
  BY SlotKnown, SlotsApart DEF Start, Menu_init
<1>6. FileTypes'
  BY SlotsApart DEF Start, Types, FileTypes, diskVars, boundVars, historyVars, NoPath
<1>7. GameTypes'
  BY <1>2, <1>3, <1>4, <1>5 DEF Start, GameTypes, InGame
<1> QED BY <1>6, <1>7 DEF Types

LEMMA PlayTypes == ASSUME Types, StartFails \/ Play PROVE Types'
<1>1. CASE StartFails
  BY <1>1 DEF StartFails, Types, FileTypes, GameTypes, diskVars, tmpVars, gameVars, boundVars,
              historyVars, InGame
<1>2. CASE Play
  <2>1. FileTypes'
    BY <1>2 DEF Play, Types, FileTypes, diskVars, tmpVars, historyVars
  <2>2. core' \in [disc : Disc \cup {Gone}, mem : Int]
    BY <1>2 DEF Play, Types, FileTypes, GameTypes
  <2>3. GameTypes'
    BY <1>2, <2>2 DEF Play, Types, GameTypes, tmpVars, InGame
  <2> QED BY <2>1, <2>3 DEF Types
<1> QED BY <1>1, <1>2

LEMMA MenuTypes == ASSUME Types, OpenMenu \/ CloseMenu \/ LeftRight PROVE Types'
<1>1. CASE OpenMenu
  <2>1. SRAM_write /\ InGame
    BY <1>1 DEF OpenMenu, InGame
  <2>2. FileTypes'
    BY <1>1, <2>1, CardWritten DEF OpenMenu, Types, FileTypes, tmpVars
  <2>3. menu.slot \in Slot /\ menu.disc \in {-1} \cup Disc
    BY DEF Types, GameTypes
  <2>4. Menu_initState(menu.slot) \in Slot
    BY <2>3, SlotKnown
  <2>5. menu' = [menu EXCEPT !.rom_disc = menu.disc, !.slot = Menu_initState(menu.slot)]
    BY <1>1 DEF OpenMenu
  <2>6. /\ menu' \in [disc : {-1} \cup Disc, slot : Slot, rom_disc : {-1} \cup Disc]
        /\ menu'.rom_disc = menu'.disc
    BY <2>3, <2>4, <2>5 DEF Types, GameTypes
  <2>7. GameTypes'
    BY <1>1, <2>1, <2>6 DEF OpenMenu, Types, GameTypes, tmpVars, InGame
  <2> QED BY <2>2, <2>7 DEF Types
<1>2. CASE CloseMenu
  <2>1. FileTypes'
    BY <1>2 DEF CloseMenu, Types, FileTypes, diskVars, tmpVars, boundVars, historyVars
  <2>2. GameTypes'
    BY <1>2, MenuClosesTypes DEF CloseMenu, Types, GameTypes, tmpVars, InGame
  <2> QED BY <2>1, <2>2 DEF Types
<1>3. CASE LeftRight
  <2>1. FileTypes'
    BY <1>3 DEF LeftRight, Types, FileTypes, diskVars, tmpVars, boundVars, historyVars
  <2>2. menu.slot \in 0 .. MENU_SLOT_COUNT - 1 /\ menu.disc \in -1 .. Discs - 1
    BY DEF Types, GameTypes, Disc, Slot
  <2>3. PICK step \in {-1, 1} :
          \/ Discs > 1 /\ menu' = [menu EXCEPT !.disc = Turned(@, step, Discs)]
          \/ menu' = [menu EXCEPT !.slot = Turned(@, step, MENU_SLOT_COUNT)]
    BY <1>3 DEF LeftRight
  <2>4. Discs > 1 => Turned(menu.disc, step, Discs) \in Disc
    BY <2>2, LeftRightTurns DEF Disc
  <2>5. Turned(menu.slot, step, MENU_SLOT_COUNT) \in Slot
    BY <2>2, LeftRightTurns DEF Slot
  <2>6. /\ menu' \in [disc : {-1} \cup Disc, slot : Slot, rom_disc : {-1} \cup Disc]
        /\ \/ menu'.disc \in Disc
           \/ menu'.disc = menu.disc /\ menu'.rom_disc = menu.rom_disc
    BY <2>3, <2>4, <2>5 DEF Types, GameTypes
  <2>7. GameTypes'
    BY <1>3, <2>6 DEF LeftRight, Types, GameTypes, tmpVars, InGame
  <2> QED BY <2>1, <2>7 DEF Types
<1> QED BY <1>1, <1>2, <1>3

\* The path a disc change in the menu, or a state, asks for.
LEMMA ContinueAsks ==
  ASSUME Types, ContinueOnDisc
  PROVE  /\ menu.disc \in Path /\ InGame
         /\ \E r \in Game_changeDisc(menu.disc) : Change(r) /\ core' = [core EXCEPT !.disc = r.disc]
  BY Apart DEF Types, GameTypes, ContinueOnDisc, InGame

LEMMA LoadAsks ==
  ASSUME Types, LoadState
  PROVE  /\ InGame
         /\ \E path \in Path : \E r \in Game_changeDisc(path) :
              /\ Change(r)
              /\ core' = [disc |-> r.disc,
                          mem |-> State_read(states[r.game.name][menu.slot], core.mem)]
<1>1. InGame
  BY DEF LoadState, InGame
<1>2. NotedDisc \subseteq Path /\ game.path \in Path
  BY <1>1, NotedDiscIsPath DEF Types, GameTypes
<1> QED BY <1>1, <1>2 DEF LoadState

LEMMA ChangeTypes == ASSUME Types, ContinueOnDisc \/ LoadState PROVE Types'
<1>1. CASE ContinueOnDisc
  <2>1. PICK r \in Game_changeDisc(menu.disc) : Change(r) /\ core' = [core EXCEPT !.disc = r.disc]
    BY <1>1, ContinueAsks
  <2>2. /\ game' \in [path : Path, name : Name] /\ r.disc \in Disc \cup {Gone}
        /\ change_disc' \in Path \cup {Gone} /\ lastDisc' \in Path \cup {M3u, Gone} /\ strayed' \in BOOLEAN
    BY <1>1, <2>1, ContinueAsks, Changed
  <2>3. core' \in [disc : Disc \cup {Gone}, mem : Int]
    BY <2>1, <2>2 DEF Types, GameTypes
  <2>4. FileTypes'
    BY <1>1, <2>2 DEF ContinueOnDisc, Types, FileTypes, diskVars
  <2>5. MenuCloses /\ rom' = rom /\ resume_slot' = resume_slot
    BY <1>1 DEF ContinueOnDisc
  <2>6. GameTypes'
    BY <2>2, <2>3, <2>5, MenuClosesTypes DEF Types, GameTypes, InGame
  <2> QED BY <2>4, <2>6 DEF Types
<1>2. CASE LoadState
  <2>0. PICK path \in Path : \E r \in Game_changeDisc(path) :
          /\ Change(r)
          /\ core' = [disc |-> r.disc, mem |-> State_read(states[r.game.name][menu.slot], core.mem)]
    BY <1>2, LoadAsks
  <2>1. PICK r \in Game_changeDisc(path) :
          /\ Change(r)
          /\ core' = [disc |-> r.disc, mem |-> State_read(states[r.game.name][menu.slot], core.mem)]
    BY <2>0
  <2>2. /\ game' \in [path : Path, name : Name] /\ game' = r.game /\ r.disc \in Disc \cup {Gone}
        /\ change_disc' \in Path \cup {Gone} /\ lastDisc' \in Path \cup {M3u, Gone} /\ strayed' \in BOOLEAN
    BY <1>2, <2>1, LoadAsks, Changed
  <2>3. states[r.game.name][menu.slot] \in StateSet /\ core.mem \in Int
    BY <2>2, SlotsApart DEF Types, FileTypes, GameTypes
  <2>4. State_read(states[r.game.name][menu.slot], core.mem) \in Int
    BY <2>3 DEF State_read, StateSet
  <2>5. core' \in [disc : Disc \cup {Gone}, mem : Int]
    BY <2>1, <2>2, <2>4
  <2>6. FileTypes'
    BY <1>2, <2>2 DEF LoadState, Types, FileTypes, GameTypes
  <2>7. MenuCloses /\ rom' = rom /\ resume_slot' = resume_slot
    BY <1>2 DEF LoadState
  <2>8. GameTypes'
    BY <2>2, <2>5, <2>7, MenuClosesTypes DEF Types, GameTypes, InGame
  <2> QED BY <2>6, <2>8 DEF Types
<1> QED BY <1>1, <1>2

\* The state that is saved, with its lemma's hypotheses.
LEMMA SavedType ==
  ASSUME Types, SaveState
  PROVE  /\ InGame
         /\ \E state \in StateSet : Menu_saveState(state) /\ state \in {NewState, TornState, OldState}
<1>1. TornState \in StateSet
  BY DEF TornState, StateSet
<1>2. OldState \in StateSet
  <2>1. SaveState => states[game.name][menu.slot] \in StateSet
    BY SlotsApart DEF SaveState, Types, FileTypes, GameTypes, InGame
  <2> QED BY <2>1, NewStateType DEF OldState
<1> QED BY <1>1, <1>2, NewStateType DEF SaveState, InGame

LEMMA LeavingTypes ==
  ASSUME Types,
         \/ SaveState \/ HdmiRestart \/ SleepPowerOff \/ QuitGame \/ CoreCrashes \/ CutInSave \/ PowerLoss
  PROVE  Types'
<1>1. CASE SaveState
  <2>1. PICK state \in StateSet : Menu_saveState(state)
    BY <1>1, SavedType
  <2>2. FileTypes'
    BY <1>1, <2>1, SavedType, StateSaved DEF SaveState, Types, FileTypes, tmpVars, historyVars
  <2>3. GameTypes'
    BY <1>1, MenuClosesTypes DEF SaveState, Types, GameTypes, InGame, tmpVars
  <2> QED BY <2>2, <2>3 DEF Types
<1>2. CASE HdmiRestart
  <2>1. Menu_beforeSleep /\ Ends /\ rom' = rom
    BY <1>2 DEF HdmiRestart
  <2>2. game.path \in Path
    BY <2>1, Quicksaved DEF Types, GameTypes
  <2>3. FileTypes'
    BY <1>2, <2>1, <2>2, Quicksaved, CardWritten DEF HdmiRestart, Types, FileTypes, tmpVars
  <2> QED BY <2>1, <2>3, EndsTypes DEF Types
<1>3. CASE SleepPowerOff
  <2>1. Menu_beforeSleep /\ PowerOff /\ rom' = rom
    BY <1>3 DEF SleepPowerOff
  <2>2. game.path \in Path
    BY <2>1, Quicksaved DEF Types, GameTypes
  <2>3. FileTypes'
    BY <1>3, <2>1, <2>2, Quicksaved, CardWritten, PowerOffTypes DEF SleepPowerOff, Types, FileTypes, NoPath
  <2> QED BY <2>1, <2>3, EndsTypes, PowerOffTypes DEF Types
<1>4. CASE QuitGame
  <2>1. SRAM_write /\ Ends /\ InGame /\ rom' = rom
    BY <1>4 DEF QuitGame, InGame
  <2>2. FileTypes'
    BY <1>4, <2>1, CardWritten DEF QuitGame, Types, FileTypes, tmpVars
  <2> QED BY <2>1, <2>2, EndsTypes DEF Types
<1>5. CASE CoreCrashes
  <2>1. FileTypes'
    BY <1>5 DEF CoreCrashes, Types, FileTypes, diskVars, tmpVars, boundVars, historyVars
  <2> QED BY <1>5, <2>1, EndsTypes DEF CoreCrashes, Types
<1>6. CASE CutInSave
  <2>1. PowerOff /\ rom' = rom
    BY <1>6 DEF CutInSave
  <2>2. FileTypes'
    BY <1>6, <2>1, SaveCut, PowerOffTypes DEF CutInSave, Types, FileTypes, NoPath
  <2> QED BY <2>1, <2>2, EndsTypes, PowerOffTypes DEF Types
<1>7. CASE PowerLoss
  <2>1. PowerOff /\ rom' = rom
    BY <1>7 DEF PowerLoss
  <2>2. sram' \in [Name -> Int] /\ owed' \in Int
    BY <1>7 DEF PowerLoss, Types, FileTypes, Torn
  <2>3. FileTypes'
    BY <1>7, <2>1, <2>2, PowerOffTypes DEF PowerLoss, Types, FileTypes, NoPath
  <2> QED BY <2>1, <2>3, EndsTypes, PowerOffTypes DEF Types
<1> QED BY <1>1, <1>2, <1>3, <1>4, <1>5, <1>6, <1>7

LEMMA TypesStep == Types /\ [Next]_vars => Types'
<1>1. Types /\ UNCHANGED vars => Types'
  BY DEF vars, diskVars, tmpVars, gameVars, boundVars, historyVars, Types, FileTypes, GameTypes, InGame
<1> QED BY <1>1, LauncherTypes, StartTypes, PlayTypes, MenuTypes, ChangeTypes, LeavingTypes DEF Next

-----------------------------------------------------------------------------
\* The game's name and its memory card.

CardInv == Types /\ GameIsM3u /\ MemoryCardIsShared

LEMMA GameIsM3uStep == CardInv /\ [Next]_vars => GameIsM3u'
<1> SUFFICES ASSUME CardInv, [Next]_vars, InGame', ~strayed'
             PROVE  game'.name = M3u /\ core'.disc \in {game'.path, Gone}
  BY DEF GameIsM3u
<1> USE DEF CardInv
<1>1. CASE Start
  <2>1. PICK g \in Game_open(rom) : IsOpen(g) /\ game' = g /\ core'.disc = Inserted(g)
    BY <1>1 DEF Start
  <2>2. rom \in Path
    BY <1>1 DEF Start, Types, GameTypes
  <2> QED BY <2>1, <2>2, GameOpenResults DEF IsOpen
<1>2. CASE ContinueOnDisc \/ LoadState
  <2>1. \E path \in Path : \E r \in Game_changeDisc(path) : Change(r) /\ core'.disc = r.disc
    <3>1. CASE ContinueOnDisc
      <4>1. core \in [disc : Disc \cup {Gone}, mem : Int]
        BY DEF Types, GameTypes
      <4> QED BY <3>1, <4>1, ContinueAsks
    <3>2. CASE LoadState
      BY <3>2, LoadAsks
    <3> QED BY <1>2, <3>1, <3>2
  <2>2. PICK path \in Path : \E r \in Game_changeDisc(path) : Change(r) /\ core'.disc = r.disc
    BY <2>1
  <2>3. PICK r \in Game_changeDisc(path) : Change(r) /\ core'.disc = r.disc
    BY <2>2
  <2>4. InGame
    BY <1>2, ContinueAsks, LoadAsks
  <2>5. /\ ~strayed /\ game'.name = M3u
        /\ \/ game' = game /\ r.disc = core.disc
           \/ game'.path = path /\ r.disc \in {path, Gone}
    BY <2>3, <2>4, Changed
  <2> QED BY <2>3, <2>4, <2>5 DEF GameIsM3u
<1>3. CASE MinuiStarts \/ StartFails \/ HdmiRestart \/ SleepPowerOff \/ QuitGame \/ CoreCrashes
           \/ CutInSave \/ PowerLoss
           \/ \E entry \in {M3u} \cup ToSet(recents), should_resume \in BOOLEAN : OpenRom(entry, should_resume)
  BY <1>3 DEF MinuiStarts, OpenRom, StartFails, HdmiRestart, SleepPowerOff, QuitGame, CoreCrashes, CutInSave,
              PowerLoss, PowerOff, Ends, InGame
<1>4. CASE Play
  BY <1>4 DEF Play, historyVars, InGame, GameIsM3u, Types, GameTypes
<1>5. CASE OpenMenu \/ CloseMenu \/ LeftRight \/ SaveState \/ UNCHANGED vars
  BY <1>5 DEF OpenMenu, CloseMenu, LeftRight, SaveState, vars, gameVars, historyVars, InGame, GameIsM3u
<1> QED BY <1>1, <1>2, <1>3, <1>4, <1>5 DEF Next

LEMMA CardStep == CardInv /\ [Next]_vars => MemoryCardIsShared'
<1> SUFFICES ASSUME CardInv, [Next]_vars, ~strayed'
             PROVE  sram'[M3u] = owed'
  BY DEF MemoryCardIsShared
<1> USE DEF CardInv
<1>1. CASE OpenMenu \/ HdmiRestart \/ SleepPowerOff \/ QuitGame
  <2>1. InGame /\ SRAM_write /\ strayed' = strayed
    BY <1>1 DEF OpenMenu, HdmiRestart, SleepPowerOff, QuitGame, Menu_beforeSleep, InGame
  <2>2. game.name = M3u
    BY <2>1 DEF GameIsM3u
  <2> QED BY <2>1, <2>2, CardWritten
<1>2. CASE ContinueOnDisc \/ LoadState
  <2>1. sram' = sram /\ owed' = owed
    BY <1>2 DEF ContinueOnDisc, LoadState, diskVars
  <2>2. ~strayed
    BY <1>2 DEF ContinueOnDisc, LoadState, Change
  <2> QED BY <2>1, <2>2 DEF MemoryCardIsShared
<1>3. CASE PowerLoss
  <2>1. InGame /\ strayed' = strayed
    BY <1>3 DEF PowerLoss, InGame
  <2>2. game.name = M3u
    BY <2>1 DEF GameIsM3u
  <2>3. \/ sram' = sram /\ owed' = owed
        \/ sram' = [sram EXCEPT ![game.name] = Torn] /\ owed' = Torn
    BY <1>3 DEF PowerLoss
  <2> QED BY <2>1, <2>2, <2>3, Apart DEF MemoryCardIsShared, Types, FileTypes
<1>4. CASE MinuiStarts \/ Start \/ StartFails \/ Play \/ CloseMenu \/ LeftRight \/ SaveState
           \/ CoreCrashes \/ CutInSave \/ UNCHANGED vars
           \/ \E entry \in {M3u} \cup ToSet(recents), should_resume \in BOOLEAN : OpenRom(entry, should_resume)
  <2>1. sram' = sram /\ owed' = owed /\ strayed' = strayed
    BY <1>4 DEF MinuiStarts, OpenRom, Start, StartFails, Play, CloseMenu, LeftRight, SaveState, CoreCrashes,
                CutInSave, vars, diskVars, historyVars
  <2> QED BY <2>1 DEF MemoryCardIsShared
<1> QED BY <1>1, <1>2, <1>3, <1>4 DEF Next

-----------------------------------------------------------------------------
\* The recents.

RecentInv == Types /\ ListedNext /\ RecentIsLastDisc

LEMMA RecentStep == RecentInv /\ [Next]_vars => ListedNext' /\ RecentIsLastDisc'
<1> SUFFICES ASSUME RecentInv, [Next]_vars PROVE ListedNext' /\ RecentIsLastDisc'
  OBVIOUS
<1> USE DEF RecentInv
<1>1. CASE MinuiStarts
  <2>1. CASE auto \notin {Gone, Other}
    BY <1>1, <2>1 DEF MinuiStarts, ListedNext, RecentIsLastDisc, FirstOfGame, historyVars
  <2>2. CASE auto \in {Gone, Other}
    <3>1. pc' = "launcher" /\ auto' = Gone /\ recents' = FirstOfGame /\ change_disc' = Gone /\ lastDisc' = lastDisc
      BY <1>1, <2>2 DEF MinuiStarts, HasRecents, historyVars
    <3>2. CASE lastDisc = Gone
      BY <3>1, <3>2 DEF ListedNext, RecentIsLastDisc, FirstOfGame
    <3>3. CASE lastDisc # Gone
      <4>1. recents' = <<lastDisc>>
        BY <3>1, <3>3 DEF ListedNext
      <4>2. recents' # <<>> /\ Head(recents') = lastDisc
        BY <4>1
      <4>3. FirstOfGame' = <<lastDisc>>
        BY <3>1, <4>2 DEF FirstOfGame
      <4> QED BY <3>1, <3>3, <4>1, <4>3 DEF ListedNext, RecentIsLastDisc
    <3> QED BY <3>2, <3>3
  <2> QED BY <2>1, <2>2
<1>2. ASSUME NEW entry \in {M3u} \cup ToSet(recents), NEW should_resume \in BOOLEAN,
             OpenRom(entry, should_resume)
      PROVE  ListedNext' /\ RecentIsLastDisc'
  <2>1. recents' = addRecent /\ lastDisc' = M3u /\ pc' = "next" /\ change_disc' = Gone
    BY <1>2 DEF OpenRom, ListedNext
  <2>2. recents' # <<>> /\ Head(recents') = M3u
    BY <2>1, AddedType
  <2>3. FirstOfGame' = <<M3u>>
    BY <2>1, <2>2 DEF FirstOfGame
  <2> QED BY <2>1, <2>2, <2>3, Apart DEF ListedNext, RecentIsLastDisc
<1>3. CASE ContinueOnDisc \/ LoadState
  <2>1. \E path \in Path : \E r \in Game_changeDisc(path) : Change(r)
    BY <1>3, ContinueAsks, LoadAsks
  <2>2. PICK path \in Path : \E r \in Game_changeDisc(path) : Change(r)
    BY <2>1
  <2>3. PICK r \in Game_changeDisc(path) : Change(r)
    BY <2>2
  <2>4. InGame /\ recents' = recents /\ auto' = auto /\ pc' = "play" /\ pc # "launcher"
    BY <1>3 DEF ContinueOnDisc, LoadState, MenuCloses, InGame, diskVars
  <2>5. \/ change_disc' = change_disc /\ lastDisc' = lastDisc
        \/ change_disc' = path /\ lastDisc' = path
    BY <2>3, <2>4, Changed
  <2> QED BY <2>4, <2>5, Apart DEF ListedNext, RecentIsLastDisc, FirstOfGame, InGame
<1>4. CASE SleepPowerOff \/ CutInSave \/ PowerLoss
  <2>1. InGame /\ PowerOff /\ recents' = recents
    BY <1>4 DEF SleepPowerOff, CutInSave, PowerLoss, Menu_beforeSleep, InGame
  <2>2. recents # <<>> /\ Head(recents) = M3u
    BY <2>1 DEF ListedNext, InGame
  <2>3. lastDisc # Gone
    BY <2>1, <2>2 DEF ListedNext, FirstOfGame
  <2>4. change_disc' = Gone /\ lastDisc' = M3u /\ pc' = "script"
    BY <2>1, <2>3 DEF PowerOff, Ends
  <2> QED BY <2>1, <2>2, <2>4, Apart DEF ListedNext, RecentIsLastDisc, FirstOfGame
<1>5. CASE HdmiRestart \/ QuitGame \/ CoreCrashes
  <2>1. /\ InGame /\ pc' = "script" /\ recents' = recents /\ change_disc' = change_disc /\ lastDisc' = lastDisc
    BY <1>5 DEF HdmiRestart, QuitGame, CoreCrashes, Menu_beforeSleep, Ends, InGame, diskVars, tmpVars, historyVars
  <2> QED BY <2>1 DEF ListedNext, RecentIsLastDisc, FirstOfGame, InGame
<1>6. CASE Start \/ StartFails \/ Play \/ OpenMenu \/ CloseMenu \/ LeftRight \/ SaveState
  <2>1. /\ pc \in {"next", "play", "menu"} /\ pc' # "launcher"
        /\ recents' = recents /\ change_disc' = change_disc /\ lastDisc' = lastDisc /\ auto' = auto
    BY <1>6 DEF Start, StartFails, Play, OpenMenu, CloseMenu, LeftRight, SaveState, MenuCloses, diskVars,
                tmpVars, historyVars
  <2> QED BY <2>1 DEF ListedNext, RecentIsLastDisc, FirstOfGame
<1>7. CASE UNCHANGED vars
  BY <1>7 DEF vars, diskVars, tmpVars, historyVars, ListedNext, RecentIsLastDisc, FirstOfGame
<1> QED BY <1>1, <1>2, <1>3, <1>4, <1>5, <1>6, <1>7 DEF Next

-----------------------------------------------------------------------------
\* States and their discs.

DiscInv == CardInv /\ NotesAreTrue /\ MarkIsTrue /\ RomIsTrue

LEMMA NewNoteIsTrue ==
  ASSUME Types, NewState.noted
  PROVE  NewState.disc \in Disc /\ \A disc \in Noted : disc = NewState.disc
<1>1. menu.disc = core.disc /\ NewState.disc = core.disc
  BY DEF NewState, State
<1>2. menu.disc \in Disc
  BY <1>1, Apart DEF Types, GameTypes, Disc, Gone
<1> QED BY <1>1, <1>2 DEF Noted

LEMMA NotesStep == DiscInv /\ [Next]_vars => NotesAreTrue'
<1> SUFFICES ASSUME DiscInv, [Next]_vars, NEW s \in Slot, states'[M3u][s].noted
             PROVE  states'[M3u][s].disc \in Disc /\ txt'[M3u][s] = states'[M3u][s].disc
  BY DEF NotesAreTrue
<1> USE DEF DiscInv, CardInv
<1>1. states'[M3u][s] = states[M3u][s] /\ txt'[M3u][s] = txt[M3u][s] =>
        states'[M3u][s].disc \in Disc /\ txt'[M3u][s] = states'[M3u][s].disc
  BY DEF NotesAreTrue
<1>2. CASE SaveState
  <2>1. PICK state \in StateSet : Menu_saveState(state) /\ state \in {NewState, TornState, OldState}
    BY <1>2, SavedType
  <2>2. \/ states'[M3u][s] = states[M3u][s] /\ txt'[M3u][s] = txt[M3u][s]
        \/ states'[M3u][s] = state /\ txt'[M3u][s] \in Noted
    BY <1>2, <2>1, SavedType, StateSaved
  <2>3. ~TornState.noted /\ ~OldState.noted
    BY DEF TornState, OldState, Unnoted
  <2> QED BY <1>1, <2>1, <2>2, <2>3, NewNoteIsTrue
<1>3. CASE CutInSave
  BY <1>1, <1>3, SaveCut, NewNoteIsTrue
<1>4. CASE HdmiRestart \/ SleepPowerOff
  <2>1. Menu_beforeSleep /\ txt' = txt
    BY <1>4 DEF HdmiRestart, SleepPowerOff
  <2> QED BY <1>1, <2>1, Quicksaved
<1>5. CASE MinuiStarts \/ Start \/ StartFails \/ Play \/ OpenMenu \/ CloseMenu \/ LeftRight
           \/ ContinueOnDisc \/ LoadState \/ QuitGame \/ CoreCrashes \/ PowerLoss \/ UNCHANGED vars
           \/ \E entry \in {M3u} \cup ToSet(recents), should_resume \in BOOLEAN : OpenRom(entry, should_resume)
  <2>1. states' = states /\ txt' = txt
    BY <1>5 DEF MinuiStarts, OpenRom, Start, StartFails, Play, OpenMenu, CloseMenu, LeftRight, ContinueOnDisc,
                LoadState, QuitGame, CoreCrashes, PowerLoss, vars, diskVars
  <2> QED BY <1>1, <2>1
<1> QED BY <1>2, <1>3, <1>4, <1>5 DEF Next

LEMMA MarkStep == DiscInv /\ [Next]_vars => MarkIsTrue'
<1> SUFFICES ASSUME DiscInv, [Next]_vars, auto' # Gone, ~strayed', states'[M3u][AutoSlot].noted
             PROVE  auto' = states'[M3u][AutoSlot].disc
  BY DEF MarkIsTrue
<1> USE DEF DiscInv, CardInv
<1>1. CASE HdmiRestart \/ SleepPowerOff
  <2>1. Menu_beforeSleep /\ ~strayed
    BY <1>1 DEF HdmiRestart, SleepPowerOff
  <2>2. game.name = M3u /\ auto' = game.path
        /\ states'[M3u][AutoSlot] = State(core.disc, core.mem, game.path = core.disc)
    BY <2>1, Quicksaved DEF GameIsM3u
  <2>3. states'[M3u][AutoSlot].disc = core.disc
    BY <2>2 DEF State
  <2>4. game.path = core.disc
    <3>1. SUFFICES ASSUME game.path # core.disc PROVE FALSE
      OBVIOUS
    <3>2. State(core.disc, core.mem, game.path = core.disc) = State(core.disc, core.mem, FALSE)
      BY <3>1
    <3>3. ~State(core.disc, core.mem, FALSE).noted
      BY DEF State
    <3> QED BY <2>2, <3>2, <3>3
  <2> QED BY <2>2, <2>3, <2>4
<1>2. CASE MinuiStarts
  BY <1>2 DEF MinuiStarts
<1>3. CASE ~(HdmiRestart \/ SleepPowerOff \/ MinuiStarts)
  <2>1. states'[M3u][AutoSlot] = states[M3u][AutoSlot]
    <3>1. CASE SaveState
      BY <3>1, SavedType, StateSaved
    <3>2. CASE CutInSave
      BY <3>2, SaveCut
    <3>3. CASE ~SaveState /\ ~CutInSave
      <4>1. states' = states
        BY <1>3, <3>3 DEF Next, OpenRom, Start, StartFails, Play, OpenMenu, CloseMenu, LeftRight, ContinueOnDisc,
                LoadState, QuitGame, CoreCrashes, PowerLoss, vars, diskVars
      <4> QED BY <4>1
    <3> QED BY <3>1, <3>2, <3>3
  <2>2. auto' = auto /\ ~strayed
    <3>1. CASE ContinueOnDisc \/ LoadState
      BY <3>1 DEF ContinueOnDisc, LoadState, Change, diskVars
    <3>2. ASSUME NEW entry \in {M3u} \cup ToSet(recents), NEW should_resume \in BOOLEAN,
                 OpenRom(entry, should_resume)
          PROVE  auto' = auto /\ ~strayed
      BY <3>2 DEF OpenRom
    <3>3. CASE Start \/ StartFails \/ Play \/ CloseMenu \/ LeftRight \/ CoreCrashes \/ UNCHANGED vars
      BY <3>3 DEF Start, StartFails, Play, CloseMenu, LeftRight, CoreCrashes, vars, diskVars, historyVars
    <3>4. CASE OpenMenu \/ SaveState \/ QuitGame \/ CutInSave \/ PowerLoss
      <4>1. CASE OpenMenu \/ QuitGame
        BY <4>1 DEF OpenMenu, QuitGame
      <4>2. CASE SaveState
        BY <4>2 DEF SaveState, historyVars
      <4>3. CASE CutInSave
        BY <4>3 DEF CutInSave
      <4>4. CASE PowerLoss
        BY <4>4 DEF PowerLoss
      <4> QED BY <3>4, <4>1, <4>2, <4>3, <4>4
    <3> QED BY <1>3, <3>1, <3>2, <3>3, <3>4 DEF Next
  <2> QED BY <2>1, <2>2 DEF MarkIsTrue
<1> QED BY <1>1, <1>2, <1>3

LEMMA RomStep == DiscInv /\ [Next]_vars => RomIsTrue'
<1> SUFFICES ASSUME DiscInv, [Next]_vars, pc' = "next", ~strayed', resume_slot' \in Slots,
                    states'[M3u][resume_slot'].noted
             PROVE  rom' = states'[M3u][resume_slot'].disc
  BY DEF RomIsTrue
<1> USE DEF DiscInv, CardInv
<1>1. CASE MinuiStarts
  <2>1. /\ auto # Gone /\ rom' = auto /\ resume_slot' = AutoSlot /\ states' = states /\ strayed' = strayed
    BY <1>1 DEF MinuiStarts, historyVars
  <2> QED BY <2>1 DEF MarkIsTrue
<1>2. ASSUME NEW entry \in {M3u} \cup ToSet(recents), NEW should_resume \in BOOLEAN,
             OpenRom(entry, should_resume)
      PROVE  rom' = states'[M3u][resume_slot'].disc
  <2> DEFINE disc == IF entry = M3u THEN getFirstDisc ELSE entry
  <2>1. /\ states' = states
        /\ resume_slot' = IF should_resume THEN slot_path ELSE Hidden
        /\ rom' = IF should_resume THEN DiscForState(disc) ELSE disc
    BY <1>2 DEF OpenRom
  <2> HIDE DEF disc
  <2>2. should_resume /\ resume_slot' = slot_path
    BY <2>1, SlotsApart
  <2>3. slot_path \in Slot
    BY <2>2, SlotsApart DEF Types, FileTypes, NoPath
  <2>4. states[M3u][slot_path].disc \in Disc /\ txt[M3u][slot_path] = states[M3u][slot_path].disc
    BY <2>1, <2>2, <2>3 DEF NotesAreTrue
  <2>5. txt[M3u][slot_path] # Gone /\ txt[M3u][slot_path] # Torn /\ slot_path # Torn
    BY <2>3, <2>4, Apart, SlotsApart
  <2>6. DiscForState(disc) = txt[M3u][slot_path]
    BY <2>5 DEF DiscForState
  <2> QED BY <2>1, <2>2, <2>4, <2>6
<1>3. CASE UNCHANGED vars
  BY <1>3 DEF vars, diskVars, tmpVars, historyVars, RomIsTrue
<1>4. CASE Start \/ StartFails \/ Play \/ OpenMenu \/ CloseMenu \/ LeftRight \/ ContinueOnDisc
           \/ SaveState \/ LoadState \/ HdmiRestart \/ SleepPowerOff \/ QuitGame \/ CoreCrashes
           \/ CutInSave \/ PowerLoss
  BY <1>4 DEF Start, StartFails, Play, OpenMenu, CloseMenu, LeftRight, ContinueOnDisc, SaveState, LoadState,
              MenuCloses, HdmiRestart, SleepPowerOff, QuitGame, CoreCrashes, CutInSave, PowerLoss, PowerOff, Ends
<1> QED BY <1>1, <1>2, <1>3, <1>4 DEF Next

-----------------------------------------------------------------------------
\* The theorems.

LEMMA InitIInv == Init => IInv
<1> SUFFICES ASSUME Init PROVE IInv
  OBVIOUS
<1>1. Types
  BY InitTypes
<1>2. GameIsM3u /\ MarkIsTrue /\ RomIsTrue
  BY DEF Init, GameIsM3u, MarkIsTrue, RomIsTrue, InGame
<1>3. MemoryCardIsShared /\ RecentIsLastDisc /\ ListedNext
  BY Apart DEF Init, MemoryCardIsShared, RecentIsLastDisc, ListedNext, FirstOfGame
<1>4. NotesAreTrue
  <2>1. \A s \in Slot : states[M3u][s] = NoState
    BY Apart DEF Init
  <2> QED BY <2>1 DEF NotesAreTrue, NoState
<1> QED BY <1>1, <1>2, <1>3, <1>4 DEF IInv, Types

LEMMA InductiveStep == IInv /\ [Next]_vars => IInv'
<1> SUFFICES ASSUME IInv, [Next]_vars PROVE IInv'
  OBVIOUS
<1>1. CardInv /\ RecentInv /\ DiscInv
  BY DEF IInv, Types, CardInv, RecentInv, DiscInv
<1>2. Types'
  BY <1>1, TypesStep DEF CardInv
<1>3. GameIsM3u' /\ MemoryCardIsShared'
  BY <1>1, GameIsM3uStep, CardStep
<1>4. ListedNext' /\ RecentIsLastDisc'
  BY <1>1, RecentStep
<1>5. NotesAreTrue' /\ MarkIsTrue' /\ RomIsTrue'
  BY <1>1, NotesStep, MarkStep, RomStep
<1> QED BY <1>2, <1>3, <1>4, <1>5 DEF IInv, Types

\* What the theorems below follow from: names, notes, mark and recents agree.
THEOREM SlotsInvariant == Spec => []IInv
  BY InitIInv, InductiveStep, PTL DEF Spec

\* Every disc of a game shares the memory card last written (Game_open,
\* SRAM_getPath), for any number of discs and disc changes.
THEOREM DiscsShareTheCard == Spec => []MemoryCardIsShared
  BY SlotsInvariant, PTL DEF IInv

\* The launcher lists the disc last changed to, and the game once
\* (Game_changeDisc, hasRecents, openRom).
THEOREM RecentsShowTheDisc == Spec => []RecentIsLastDisc
  BY SlotsInvariant, PTL DEF IInv

LEMMA ResumedFindsItsDisc ==
  IInv /\ Start /\ resume_slot # Torn => FindsItsDisc(Resumed)
<1> SUFFICES ASSUME IInv, Start, resume_slot # Torn, Resumed.noted, core'.disc # Gone, ~strayed'
             PROVE  core'.disc = Resumed.disc
  BY DEF FindsItsDisc
<1>1. /\ pc = "next" /\ ~strayed /\ rom \in Path /\ resume_slot # Gone
  BY DEF Start, historyVars, IInv, GameTypes
<1>2. resume_slot # Hidden
  BY DEF Resumed, NoState
<1>3. resume_slot \in Slots /\ Resumed = states[M3u][resume_slot]
  BY <1>1, <1>2 DEF IInv, FileTypes, NoPath, Resumed
<1>4. rom = Resumed.disc
  BY <1>1, <1>3 DEF IInv, RomIsTrue
<1>5. core'.disc \in {rom, Gone}
  <2>1. PICK g \in Game_open(rom) : core'.disc = Inserted(g)
    BY DEF Start
  <2> QED BY <1>1, <2>1, GameOpenResults
<1> QED BY <1>4, <1>5

LEMMA LoadedFindsItsDisc ==
  IInv /\ LoadState /\ menu.disc = core.disc => FindsItsDisc(states[game'.name][menu.slot])
<1> SUFFICES ASSUME IInv, LoadState, menu.disc = core.disc, states[game'.name][menu.slot].noted,
                    core'.disc # Gone, ~strayed'
             PROVE  core'.disc = states[game'.name][menu.slot].disc
  BY DEF FindsItsDisc
<1>1. Types /\ InGame
  BY LoadAsks DEF IInv, Types, LoadState, InGame
<1>2. PICK noted \in NotedDisc :
      \E r \in IF noted = menu.disc THEN Game_changeDisc(game.path) ELSE Game_changeDisc(noted) :
         Change(r) /\ core'.disc = r.disc
  BY DEF LoadState
<1>3. PICK r \in IF noted = menu.disc THEN Game_changeDisc(game.path) ELSE Game_changeDisc(noted) :
         Change(r) /\ core'.disc = r.disc
  BY <1>2
<1>4. noted \in Path /\ game.path \in Path
  BY <1>1, <1>2, NotedDiscIsPath DEF Types, GameTypes
<1>5. ~strayed /\ game'.name = M3u
  BY <1>1, <1>3, <1>4, Changed
<1>6. game.name = M3u /\ core.disc \in {game.path, Gone}
  BY <1>1, <1>5 DEF IInv, GameIsM3u
<1>7. menu.slot \in Slot /\ menu.disc \in {-1} \cup Disc
  BY <1>1 DEF Types, GameTypes
<1>8. states[M3u][menu.slot].disc \in Disc /\ txt[M3u][menu.slot] = states[M3u][menu.slot].disc
  BY <1>5, <1>7 DEF IInv, NotesAreTrue
<1>9. noted = states[M3u][menu.slot].disc
  <2>1. txt[M3u][menu.slot] # Gone /\ txt[M3u][menu.slot] # Torn
    BY <1>8, Apart
  <2> QED BY <1>2, <1>6, <1>8, <2>1 DEF NotedDisc
<1>10. menu.disc # Gone
  BY <1>7 DEF Disc, Gone
<1>11. CASE noted = menu.disc
  <2>1. core'.disc = core.disc
    BY <1>1, <1>3, <1>4, <1>6, <1>10, <1>11, Changed DEF Game_changeDisc
  <2> QED BY <1>5, <1>9, <1>11, <2>1
<1>12. CASE noted # menu.disc
  <2>1. noted # game.path
    BY <1>6, <1>10, <1>12
  <2>2. noted # Other
    BY <1>8, <1>9 DEF Disc, Other
  <2>3. r.disc \in {noted, Gone}
    BY <1>1, <1>3, <1>4, <1>12, <2>1, <2>2, Changed
  <2> QED BY <1>3, <1>5, <1>9, <2>3
<1> QED BY <1>11, <1>12

\* A state finds the disc it was saved with, wherever it is loaded (openRom,
\* State_resume, Menu_loadState).
THEOREM StatesFindTheirDisc == Spec => StateFindsItsDisc
<1>1. IInv => [/\ Start /\ resume_slot # Torn => FindsItsDisc(Resumed)
               /\ LoadState /\ menu.disc = core.disc => FindsItsDisc(states[game'.name][menu.slot])]_vars
  BY ResumedFindsItsDisc, LoadedFindsItsDisc
<1> QED BY <1>1, SlotsInvariant, PTL DEF StateFindsItsDisc
=============================================================================
