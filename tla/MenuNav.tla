------------------------------ MODULE MenuNav ------------------------------
(***************************************************************************)
(* minui.elf as a list of lists: the stack of open directories, the window *)
(* of rows shown of each, the position kept for a directory that is opened *)
(* again, recents, favourites, RESUME, and the way back to a list after a  *)
(* game (saveLast, loadLast).                                              *)
(*                                                                         *)
(* A game of several discs is one rom, whichever of its files names it; a  *)
(* directory with a cue or m3u of its own name launches it.  The card does *)
(* not change while the launcher runs.  One step is one turn of main's     *)
(* loop, or one turn of loadLast's.                                        *)
(***************************************************************************)
EXTENDS Integers, SequencesExt

CONSTANTS
  Rows,         \* MAIN_ROW_COUNT
  MAX_RECENTS,
  Dir, Rom, Pak,                           \* the kinds of entries
  Root, Recents, Favourites, Collections,  \* SDCARD_PATH and three entries of it
  NoRom,        \* not a rom
  Systems,      \* the entries of Root behind Favourites
  Files,        \* the entries of every other directory
  Launches,     \* the rom a directory launches instead of being opened
  Path,         \* the entries on the way from Root to an entry
  Letter,       \* the letter an entry is indexed by
  Alias,        \* a rom's place in the order favourites are sorted by
  Savers,       \* bound: the games a player saves
  Inputs        \* what one turn may see: buttons, and whether PWR_update or the
                \* network has changed what is shown (poked)

Entry == Dir \cup Rom \cup Pak
UpDown == {"none", "up", "upHeld", "down", "downHeld", "menu"}
LeftRight == {"none", "left", "right"}
Shoulder == {"none", "l1", "r1"}
Button == {"none", "resume", "a", "select", "b"}

ASSUME InputsAssumption ==
  /\ Inputs \subseteq [v : UpDown, h : LeftRight, shoulder : Shoulder, button : Button, poked : BOOLEAN]
  /\ \A i \in Inputs : i.v = "menu" => i.h = "none"
ASSUME RowsAssumption == Rows \in Nat \ {0} /\ MAX_RECENTS \in Nat \ {0}

\* The three kinds are apart; Root lists Recents and Favourites, nothing else
\* does; the way to an entry is through directories.
Inner == Entry \ {Root, Recents, Favourites}
ASSUME CardAssumption ==
  /\ Dir \cap (Rom \cup Pak) = {} /\ Rom \cap Pak = {} /\ NoRom \notin Entry
  /\ {Root, Recents, Favourites} \subseteq Dir
  /\ Root # Recents /\ Root # Favourites /\ Recents # Favourites
  /\ Systems \in Seq(Inner)
  /\ \A d \in Dir \ {Root, Recents, Favourites} : Files[d] \in Seq(Inner)
  /\ \A d \in Dir : Launches[d] \in Rom \cup {NoRom}
  /\ \A e \in Entry \ {Root} :
       /\ Path[e] \in Seq(Entry)
       /\ \A i \in 1 .. Len(Path[e]) : i < Len(Path[e]) \/ e \in Dir => Path[e][i] \in Dir
  /\ Savers \subseteq Rom

VARIABLES
  mode,      \* "load": loadLast, "list": main's loop, "leaving": something was started,
             \* "ended": the launcher ended with nothing started
  stack,     \* the directories below top
  top,       \* the directory shown
  restore,   \* restore_depth, _relative, _selected, _start, _end
  recents, favourites,
  saved,     \* games with a slot file
  ready,     \* can_resume, and the game whose slot file slot_path names
  dirty, show_version,
  last,      \* LAST_PATH
  rest,      \* loadLast's `last`
  launched   \* history, until the next turn in a list: what was started, its slot,
             \* the list it was in, whether HDMI has changed since

listVars == <<stack, top, restore>>
fileVars == <<recents, favourites, saved>>
vars == <<mode, listVars, fileVars, ready, dirty, show_version, last, rest, launched>>

\* What Directory_new finds in d.
List(d) ==
  IF d = Root THEN (IF recents = <<>> THEN <<>> ELSE <<Recents>>) \o <<Favourites>> \o Systems
  ELSE IF d = Recents THEN recents
  ELSE IF d = Favourites THEN favourites
  ELSE Files[d]

Fit(total) == IF total < Rows THEN total ELSE Rows
FirstPage(total) == [selected |-> 0, start |-> 0, end |-> Fit(total)]
LastPage(total) == [selected |-> total - 1, start |-> total - Fit(total), end |-> total]

Directory(d, list, w) ==
  [dir |-> d, list |-> list, selected |-> w.selected, start |-> w.start, end |-> w.end]
Window(t) == [selected |-> t.selected, start |-> t.start, end |-> t.end]
Selected(t) == t.list[t.selected + 1]
NoRestore == [depth |-> -1, relative |-> -1, selected |-> 0, start |-> 0, end |-> 0]

NoLaunch == [entry |-> NoRom, slot |-> NoRom, from |-> Root, hdmi |-> FALSE]

\* InCollections(d): d is the folder of collections or one of them.
InCollections(d) == d # Root /\ Path[d][1] = Collections

\* What a folder lists is in it; a collection lists roms and paks of other places.
\* Every entry is listed where its path leads; with no system, getRoot lists the
\* collections instead of their folder.  What launches a disc is no collection.
ASSUME WayAssumption ==
  /\ Collections \notin {Root, Recents, Favourites} \cup Rom \cup Pak
  /\ \A e \in {Recents, Favourites, Collections} \cap Entry : Path[e] = <<e>>
  /\ \A e \in Inner \ {Collections} :
       /\ Path[e] \in Seq(Inner) /\ Path[e] # <<>> /\ Path[e][Len(Path[e])] = e
       /\ \/ Path[e][1] \in Range(Systems)
          \/ /\ Path[e][1] = Collections /\ Collections \notin Range(Systems)
             /\ Len(Path[e]) > 1 /\ Path[e][2] \in Range(Systems)
       /\ \A i \in 2 .. Len(Path[e]) : Path[e][i] \in Range(Files[Path[e][i - 1]])
  /\ \A e \in Range(Systems) : Path[e] = <<e>> \/ (Path[e] = <<Collections, e>> /\ e \in Dir)
  /\ \A d \in Dir \cap Inner : \A e \in Range(Files[d]) :
       Path[e] = Append(Path[d], e) \/ (InCollections(d) /\ e \notin Dir)
  /\ \A d \in Dir : Launches[d] # NoRom => d \in Inner /\ ~InCollections(d)
----------------------------------------------------------------------------
(* Moving the selection: w is the window of a list of `total` entries *)

Up(w, total, pressed) ==
  IF w.selected = 0 THEN IF pressed THEN LastPage(total) ELSE w
  ELSE IF w.selected - 1 < w.start
       THEN [selected |-> w.selected - 1, start |-> w.start - 1, end |-> w.end - 1]
       ELSE [w EXCEPT !.selected = @ - 1]

Down(w, total, pressed) ==
  IF w.selected = total - 1 THEN IF pressed THEN FirstPage(total) ELSE w
  ELSE IF w.selected + 1 >= w.end
       THEN [selected |-> w.selected + 1, start |-> w.start + 1, end |-> w.end + 1]
       ELSE [w EXCEPT !.selected = @ + 1]

\* Faulty variant: without `if (top->end>total)`.
PageToUnclipped(selected, e, total) == [selected |-> selected, start |-> e - Rows, end |-> e]

\* A page that ends at row e, or at the end of the list.
PageTo(selected, e, total) ==
  LET end == IF e > total THEN total ELSE e
  IN [selected |-> selected, start |-> end - Rows, end |-> end]

\* Faulty variant: without `if (top->start<0)`.
LeftUnclipped(w, total) ==
  IF w.selected - Rows < 0 THEN FirstPage(total)
  ELSE IF w.selected - Rows < w.start
       THEN [selected |-> w.selected - Rows, start |-> w.start - Rows, end |-> w.start]
       ELSE [w EXCEPT !.selected = @ - Rows]

Left(w, total) ==
  LET s == IF w.start - Rows < 0 THEN 0 ELSE w.start - Rows
  IN IF w.selected - Rows < 0 THEN FirstPage(total)
     ELSE IF w.selected - Rows < w.start
          THEN [selected |-> w.selected - Rows, start |-> s, end |-> s + Rows]
          ELSE [w EXCEPT !.selected = @ - Rows]

Right(w, total) ==
  IF w.selected + Rows >= total THEN LastPage(total)
  ELSE IF w.selected + Rows >= w.end THEN PageTo(w.selected + Rows, w.end + Rows, total)
       ELSE [w EXCEPT !.selected = @ + Rows]

\* Directory_index: the rows at which another letter begins.
Alphas(d, list) ==
  IF d \in {Recents, Favourites} \/ InCollections(d) THEN {}
  ELSE {i \in 0 .. Len(list) - 1 : i = 0 \/ Letter[list[i]] # Letter[list[i + 1]]}

\* The row L1 or R1 jumps to from row i, if there is one.
AlphaRows(d, list, i, shoulder) ==
  LET alphas == Alphas(d, list)
      before == {a \in alphas : \E b \in alphas : a < b /\ b <= i}
      after == {a \in alphas : a > i}
  IN IF shoulder = "l1" THEN {a \in before : \A b \in before : b <= a}
     ELSE IF shoulder = "r1" THEN {a \in after : \A b \in after : b >= a}
     ELSE {}

JumpTo(w, total, i) ==
  IF total > Rows THEN PageTo(i, i + Rows, total) ELSE [w EXCEPT !.selected = i]

\* The directional buttons, then the shoulder buttons, of one turn.
Moved(t, i) ==
  LET total == Len(t.list)
      w1 == IF i.v \in {"up", "upHeld"} THEN Up(Window(t), total, i.v = "up")
            ELSE IF i.v \in {"down", "downHeld"} THEN Down(Window(t), total, i.v = "down")
            ELSE Window(t)
      w2 == IF i.h = "left" THEN Left(w1, total)
            ELSE IF i.h = "right" THEN Right(w1, total) ELSE w1
      rows == AlphaRows(t.dir, t.list, w2.selected, i.shoulder)
  IN IF rows = {} THEN w2 ELSE JumpTo(w2, total, CHOOSE row \in rows : TRUE)
----------------------------------------------------------------------------
(* Opening and closing directories.  t is top as this turn has moved it. *)

\* openDirectory on one that is not launched: where it was closed, or at the top.
Opened(t, d) ==
  LET list == List(d)
      again == t.list # <<>> /\ restore.depth = Len(stack) + 1 /\ t.selected = restore.relative
      w == [selected |-> restore.selected, start |-> restore.start,
            end |-> IF restore.end # 0 THEN restore.end ELSE Fit(Len(list))]
  IN Directory(d, list, IF again THEN w ELSE FirstPage(Len(list)))

OpenDirectory(t, d) ==
  /\ stack' = Append(stack, t)
  /\ top' = Opened(t, d)
  /\ UNCHANGED restore

\* Faulty variant: restore_depth read before the pop.
CloseDirectoryDeep(t) ==
  LET below == stack[Len(stack)]
  IN /\ top' = below
     /\ stack' = SubSeq(stack, 1, Len(stack) - 1)
     /\ restore' = [depth |-> Len(stack) + 1, relative |-> below.selected,
                    selected |-> t.selected, start |-> t.start, end |-> t.end]

CloseDirectory(t) ==
  LET below == stack[Len(stack)]
  IN /\ top' = below
     /\ stack' = SubSeq(stack, 1, Len(stack) - 1)
     /\ restore' = [depth |-> Len(stack), relative |-> below.selected,
                    selected |-> t.selected, start |-> t.start, end |-> t.end]
----------------------------------------------------------------------------
(* Recents, favourites, RESUME *)

\* Faulty variant: without looking for the game first.
AddRecentTwice(g) ==
  LET s == <<g>> \o recents IN IF Len(s) > MAX_RECENTS THEN SubSeq(s, 1, MAX_RECENTS) ELSE s

\* addRecent: to the front; a new game may push out the oldest.
AddRecent(g) ==
  LET at == {i \in DOMAIN recents : recents[i] = g}
      kept == SubSeq(recents, 1, IF Len(recents) < MAX_RECENTS THEN Len(recents) ELSE MAX_RECENTS - 1)
  IN <<g>> \o IF at = {} THEN kept ELSE RemoveAt(recents, CHOOSE i \in at : TRUE)

\* addFavourite: append, sort by alias.
AddFavourite(g) ==
  IF \E i \in DOMAIN favourites : favourites[i] = g THEN UNCHANGED favourites
  ELSE \E k \in 1 .. Len(favourites) + 1 :
         /\ \A i \in DOMAIN favourites :
              IF i < k THEN Alias[favourites[i]] <= Alias[g] ELSE Alias[g] <= Alias[favourites[i]]
         /\ favourites' = InsertAt(favourites, k, g)

\* removeFavourite
RemoveFavourite(g) == \E i \in DOMAIN favourites : favourites[i] = g /\ favourites' = RemoveAt(favourites, i)

\* The game an entry stands for.
Game(e) == IF e \in Rom THEN e ELSE IF e \in Dir THEN Launches[e] ELSE NoRom

\* readyResume: slot_path stays when the entry is no game.
ReadyFor(e, r) == [can |-> Game(e) \in saved, game |-> IF Game(e) = NoRom THEN r.game ELSE Game(e)]
----------------------------------------------------------------------------
(* Leaving the launcher *)

\* Faulty variant: without the case for recently played.
SaveLastPlain(path) == last' = path

\* saveLast: coming back to Recents is coming back to its first game.
SaveLast(path) == last' = IF top.dir = Recents THEN <<Recents>> ELSE path

Leave(t, r, e, slot) ==
  /\ mode' = "leaving"
  /\ top' = t /\ ready' = r
  /\ launched' = [entry |-> e, slot |-> slot, from |-> t.dir, hdmi |-> FALSE]
  /\ UNCHANGED <<stack, restore, favourites, saved, rest>>

\* openRom: addRecent, saveLast, queueNext.  slot_path is used if RESUME was pressed.
OpenRom(t, r, g, path, resume) ==
  /\ recents' = AddRecent(g)
  /\ SaveLast(path)
  /\ Leave(t, r, g, IF resume THEN r.game ELSE NoRom)

\* openPak
OpenPak(t, r, p) ==
  /\ SaveLast(Path[p])
  /\ Leave(t, r, p, NoRom)
  /\ UNCHANGED recents

\* Entry_open.  A rom of a collection is remembered by its place there.
EntryOpen(t, r, e, resume) ==
  \/ /\ e \in Rom
     /\ OpenRom(t, r, e, IF InCollections(t.dir) THEN Append(Path[t.dir], e) ELSE Path[e], resume)
  \/ e \in Pak /\ OpenPak(t, r, e)
  \/ e \in Dir /\ Launches[e] # NoRom /\ OpenRom(t, r, Launches[e], Path[e], resume)
  \/ /\ e \in Dir /\ Launches[e] = NoRom
     /\ OpenDirectory(t, e)
     /\ ready' = IF ~resume /\ top'.list # <<>> THEN ReadyFor(Selected(top'), r) ELSE r
     /\ launched' = NoLaunch
     /\ UNCHANGED <<mode, fileVars, last, rest>>
----------------------------------------------------------------------------
(* One turn of main's loop, for the button pressed in it *)

Stay(t, r) ==
  /\ top' = t /\ ready' = r
  /\ launched' = NoLaunch
  /\ UNCHANGED <<mode, stack, restore, recents, saved, last, rest>>

\* BTN_RESUME, while can_resume.
PressResume(t, r) ==
  /\ t.list # <<>> /\ r.can
  /\ EntryOpen(t, r, Selected(t), TRUE)

PressA(t, r) ==
  /\ t.list # <<>>
  /\ EntryOpen(t, r, Selected(t), FALSE)

\* SELECT below the root: add to favourites, or remove and show them anew.
PressSelect(t, r) ==
  /\ stack # <<>> /\ t.list # <<>>
  /\ LET e == Selected(t)
     IN \/ /\ t.dir = Favourites
           /\ RemoveFavourite(e)
           /\ Stay(Directory(Favourites, favourites', FirstPage(Len(favourites'))), r)
        \/ /\ t.dir \notin {Favourites, Recents} /\ e \in Rom
           /\ AddFavourite(e)
           /\ Stay(t, r)

\* Faulty variant: without the second readyResume.
PressBNotReady(t, r) ==
  /\ stack # <<>>
  /\ CloseDirectory(t)
  /\ ready' = r
  /\ launched' = NoLaunch
  /\ UNCHANGED <<mode, fileVars, last, rest>>

\* B below the root.
PressB(t, r) ==
  /\ stack # <<>>
  /\ CloseDirectory(t)
  /\ ready' = IF top'.list # <<>> THEN ReadyFor(Selected(top'), r) ELSE r
  /\ launched' = NoLaunch
  /\ UNCHANGED <<mode, fileVars, last, rest>>

\* No button, or one that does nothing here.
PressNothing(t, r, button) ==
  /\ \/ button = "none"
     \/ t.list = <<>> /\ button # "b"
     \/ button = "resume" /\ ~r.can
     \/ stack = <<>> /\ button \in {"select", "b"}
     \/ button = "select" /\ t.dir # Favourites /\ t.list # <<>> /\ (t.dir = Recents \/ Selected(t) \notin Rom)
  /\ Stay(t, r)
  /\ UNCHANGED favourites

\* MinUIPlus_getDirty: the next theme is to be drawn.
NextTheme(button) == button = "select" /\ stack' = <<>>

Turn(i) ==
  LET t == IF top.list = <<>> THEN top ELSE Directory(top.dir, top.list, Moved(top, i))
      looks == dirty \/ i.poked \/ i.v = "menu" \/ t.selected # top.selected
      r == IF looks /\ t.list # <<>> THEN ReadyFor(Selected(t), ready) ELSE ready
  IN /\ mode = "list" /\ ~show_version
     /\ \/ i.button = "resume" /\ PressResume(t, r)
        \/ i.button = "a" /\ PressA(t, r)
        \/ i.button = "select" /\ PressSelect(t, r)
        \/ i.button = "b" /\ PressB(t, r)
        \/ PressNothing(t, r, i.button)
     /\ show_version' = (i.v = "menu")
     /\ dirty' = NextTheme(i.button)

\* A turn while the version is shown: B or MENU puts it away.
VersionTurn(i) ==
  /\ mode = "list" /\ show_version
  /\ show_version' = ~(i.button = "b" \/ i.v = "menu")
  /\ UNCHANGED <<mode, listVars, fileVars, ready, last, rest, launched>>
  /\ dirty' = NextTheme(i.button)
----------------------------------------------------------------------------
(* The end of the launcher and the way back *)

\* HDMI was plugged or unplugged, seen at the end of any turn.
HdmiRestart ==
  /\ mode = "list" \/ (mode = "leaving" /\ ~launched.hdmi)
  /\ top.list # <<>>
  /\ SaveLast(Path[Selected(top)])
  /\ mode' = IF mode = "list" THEN "ended" ELSE mode
  /\ launched' = [launched EXCEPT !.hdmi = TRUE]
  /\ UNCHANGED <<listVars, fileVars, ready, dirty, show_version, rest>>

\* L1, R1, SELECT and an HDMI change read items[selected] even of an empty
\* list: an uninitialized pointer.  Either nothing comes of it or it crashes.
Crash ==
  /\ mode = "list" /\ top.list = <<>>
  /\ mode' = "ended"
  /\ UNCHANGED <<listVars, fileVars, ready, dirty, show_version, last, rest, launched>>

\* launch.sh has run what was started, which may leave a slot file, and
\* starts the launcher again: Menu_init, openDirectory of the root.
Restart ==
  /\ mode \in {"leaving", "ended"}
  /\ \E s \in SUBSET (IF mode = "leaving" THEN {launched.entry} \cap Savers ELSE {}) : saved' = saved \cup s
  /\ mode' = "load"
  /\ top' = LET list == List(Root) IN Directory(Root, list, FirstPage(Len(list)))
  /\ stack' = <<>> /\ restore' = NoRestore
  /\ ready' = [can |-> FALSE, game |-> NoRom]
  /\ dirty' = TRUE /\ show_version' = FALSE
  /\ rest' = last
  /\ UNCHANGED <<recents, favourites, last, launched>>

\* One turn of loadLast: select the next component of the path, and open it
\* unless it is the last.  The last is opened too if it is Recents or a collection.
LoadComponent ==
  /\ mode = "load" /\ rest # <<>>
  /\ rest' = Tail(rest)
  /\ LET e == Head(rest)
         total == Len(top.list)
         At(i) == IF i >= top.end THEN PageTo(i, i + Rows, total) ELSE [Window(top) EXCEPT !.selected = i]
         opens == e \in Dir /\ (rest' # <<>> \/ e = Recents \/ (InCollections(e) /\ e # Collections))
     IN \/ /\ \A i \in DOMAIN top.list : top.list[i] # e
           /\ UNCHANGED listVars
        \/ \E i \in DOMAIN top.list :
             /\ top.list[i] = e
             /\ LET t == Directory(top.dir, top.list, At(i - 1))
                IN IF opens THEN OpenDirectory(t, e) ELSE top' = t /\ UNCHANGED <<stack, restore>>
  /\ UNCHANGED <<mode, fileVars, ready, dirty, show_version, last, launched>>

Loaded ==
  /\ mode = "load" /\ rest = <<>>
  /\ mode' = "list"
  /\ UNCHANGED <<listVars, fileVars, ready, dirty, show_version, last, rest, launched>>

Init ==
  /\ mode = "load"
  /\ recents = <<>> /\ favourites = <<>> /\ saved = {}
  /\ stack = <<>> /\ restore = NoRestore
  /\ top = Directory(Root, List(Root), FirstPage(Len(List(Root))))
  /\ ready = [can |-> FALSE, game |-> NoRom]
  /\ dirty = TRUE /\ show_version = FALSE
  /\ last = <<>> /\ rest = <<>>
  /\ launched = NoLaunch

Next ==
  \/ \E i \in Inputs : Turn(i) \/ VersionTurn(i)
  \/ HdmiRestart \/ Crash \/ Restart \/ LoadComponent \/ Loaded

Spec == Init /\ [][Next]_vars
----------------------------------------------------------------------------
(* Properties *)

Windows == [selected : Nat, start : Nat, end : Nat]
Folders(ts) == {Window(ts[i]) : i \in DOMAIN ts}

\* The variables keep their types: rows are never negative, parents are
\* directories, favourites and recents are games.
TypeOK ==
  /\ mode \in {"load", "list", "leaving", "ended"}
  /\ top.dir \in Dir /\ Window(top) \in Windows /\ Folders(stack) \subseteq Windows
  /\ restore.depth \in Int /\ restore.relative \in Int /\ Window(restore) \in Windows
  /\ {recents[i] : i \in DOMAIN recents} \cup {favourites[i] : i \in DOMAIN favourites} \subseteq Rom
  /\ saved \subseteq Rom
  /\ ready.can \in BOOLEAN /\ ready.game \in Rom \cup {NoRom}
  /\ dirty \in BOOLEAN /\ show_version \in BOOLEAN
  /\ launched.slot \in Rom \cup {NoRom}

\* The window of a list of `total` entries shows the selected one and as many
\* rows as there are, up to Rows.
Shows(w, total) ==
  /\ w.end = w.start + Fit(total) /\ w.end <= total
  /\ IF total = 0 THEN w.selected = 0 ELSE w.start <= w.selected /\ w.selected < w.end

\* Whatever was pressed, and however a list was opened, every open directory
\* shows its selection in a full window of what the directory holds now: main
\* draws rows start to end - 1 and reads them from the list.
ShowsSelection ==
  mode \in {"load", "list"} =>
    \A t \in {stack[i] : i \in DOMAIN stack} \cup {top} :
      t.list = List(t.dir) /\ Shows(t, Len(t.list))

\* The position openDirectory would restore is one of the directory that would
\* be opened: its depth and its parent's row are enough to tell which one it is.
RestoreFits ==
  (/\ mode = "list" /\ top.list # <<>>
   /\ restore.depth = Len(stack) + 1 /\ restore.relative = top.selected
   /\ Selected(top) \in Dir)
    => Shows(restore, Len(List(Selected(top))))

\* The launcher comes back to the game it started, in the list it was in; from
\* Favourites, which saveLast does not treat like Recents, to the game's own folder,
\* and so for a pak of a collection, which openPak does not treat like a rom.
ReturnsToGame ==
  (mode = "list" /\ launched.entry # NoRom /\ ~launched.hdmi) =>
    /\ top.list # <<>>
    /\ LET e == Selected(top) IN e = launched.entry \/ Game(e) = launched.entry
    /\ launched.from \in {top.dir, Favourites} \/ (launched.entry \in Pak /\ InCollections(launched.from))

\* RESUME is offered for the selected game, and only if it has a slot file.  The
\* first favourite may get the offer for one just removed: removeFavourite
\* changes the list, and the frame has looked at the old entry.
ResumeIsForSelected ==
  (mode = "list" /\ ready.can /\ ~(top.dir = Favourites /\ top.selected = 0)) =>
    /\ ready.game \in saved
    /\ Game(Selected(top)) = ready.game

\* Recents are the last games started, each once, newest first.
RecentsInOrder ==
  /\ Len(recents) <= MAX_RECENTS
  /\ \A i, j \in DOMAIN recents : i # j => recents[i] # recents[j]
  /\ (mode = "leaving" /\ launched.entry \in Rom) => recents[1] = launched.entry
=============================================================================
