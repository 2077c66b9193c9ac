------------------------------- MODULE Config -------------------------------
(* minarch's options and bindings: the layers they are read from (system.cfg,*)
(* the pak's default.cfg, then the game's or the console's own file), the    *)
(* menus that show and change them, the files they are saved to, and what    *)
(* the core, the screen and the CPU were told.                               *)
(*                                                                           *)
(* An option, a binding and the type of gamepad are each a key with a small  *)
(* number for its value; a file is a function from the keys of its lines.    *)
(* The core has options and a second type of gamepad.  Left out: parsing,    *)
(* the device's tag in file names, MENU+button bindings, the options that    *)
(* are handled like those here (tearing like the CPU's speed), the one that  *)
(* threads the core (CoreThread), a file that cannot be opened.              *)
EXTENDS Integers, Sequences, SequencesExt

CONSTANTS Games,
          Count,          \* [Keys -> how many values]
          Initial,        \* [Keys -> the value before any file is read]
          system_cfg, default_cfg,  \* the lines of the files that come with the console and the pak
          Locks,          \* the keys that they prefix with "-"
          NoFile, Removed, Unknown,  \* no content of a file
          Cuts,           \* after how many lines a power cut may end a file
          MaxChanges, MaxWrites  \* bounds: changes, and saves and restores, in a behaviour

Frontend == <<"scaling", "effect", "sharpness", "speed">>
Core == <<"colors">>
Controls == <<"up">>
Shortcuts == <<"cycle_scaling", "cycle_effect">>
(* The lines of a saved file, in their order.                                *)
Lines == Frontend \o Core \o <<"gamepad">> \o Controls \o Shortcuts
Keys == ToSet(Lines)
Bindings == ToSet(Controls \o Shortcuts)
Native == 0
None == 0
MenuSpeed == -1

IsLines(f) == DOMAIN f \subseteq Keys /\ \A k \in DOMAIN f : f[k] \in 0..(Count[k] - 1)

ASSUME FilesAssumption ==
  /\ "console" \notin Games
  /\ \A none \in {NoFile, Removed, Unknown}, ks \in SUBSET Keys : none \notin [ks -> Nat]
  /\ NoFile # Removed /\ Unknown \notin {NoFile, Removed}
ASSUME ConfigAssumption ==
  /\ \A k \in Keys : Count[k] \in Nat \ {0}
  /\ Initial \in [Keys -> Nat] /\ IsLines(Initial)
  /\ IsLines(system_cfg) /\ IsLines(default_cfg) /\ Locks \subseteq Keys
  /\ \A k \in {"effect", "gamepad"} \cup ToSet(Shortcuts) : Initial[k] = 0
  /\ Initial["scaling"] # Native
  /\ MaxChanges \in Nat /\ MaxWrites \in Nat /\ Cuts \subseteq 0..(Len(Lines) - 1)

VARIABLES files, ghosts, \* [Owners -> its file]; removed files that a power cut may bring back
          game, stage,   \* the game that runs; "off", "open", "game" or "menu"
          value, loaded, \* the values; config.loaded
          told,          \* what the screen, the CPU and the core's port were last told
          changed, seen, \* config.core.changed; the core's view of its options
          changes, writes,  \* counts up to MaxChanges and MaxWrites
          clean,         \* history: nothing changed since the last start, save or restore
          promise        \* history: [Owners -> what its last complete save saved]

vars == <<files, ghosts, game, stage, value, loaded, told, changed, seen, changes, writes, clean, promise>>
Owners == Games \cup {"console"}
(* The lists of the menu; locked options are in none.                        *)
FrontendList == ToSet(Frontend) \ Locks
EmulatorList == ToSet(Core) \ Locks
ControlsList == {"gamepad"} \cup ToSet(Controls)
ShortcutsList == ToSet(Shortcuts)
Running == stage \in {"menu", "game"}

-----------------------------------------------------------------------------
(* Config_syncFrontend: with native scaling the sharpness is not used.       *)
(* Faulty variant: a new scaling leaves the sharpness alone.                 *)
Config_syncFrontendAlone(t, k, v) ==
  IF k \in {"scaling", "effect", "sharpness"} THEN [t EXCEPT ![k] = v[k]] ELSE t
Config_syncFrontend(t, k, v) ==
  CASE k = "effect" -> [t EXCEPT !.effect = v[k]]
    [] k \in {"scaling", "sharpness"} ->
         [t EXCEPT !.scaling = v["scaling"], !.sharpness = IF v["scaling"] = Native THEN 0 ELSE v["sharpness"]]
    [] OTHER -> t
(* What a new process knows of them.                                        *)
Untold == [scaling |-> Initial["scaling"], effect |-> 0, sharpness |-> Initial["sharpness"],
           speed |-> Initial["speed"], device |-> 0]
(* What is told when values v are set from a file, from a list or to the     *)
(* defaults: the screen of each of its options, the port.                    *)
SyncedLine(t, k, ks, v) == IF k \in ks THEN Config_syncFrontend(t, k, v) ELSE t
Synced(t, ks, v) ==
  LET scaling == SyncedLine(t, "scaling", ks, v)
      effect == SyncedLine(scaling, "effect", ks, v)
      sharpness == SyncedLine(effect, "sharpness", ks, v)
  IN IF "gamepad" \in ks THEN [sharpness EXCEPT !.device = v["gamepad"]] ELSE sharpness

(* Reading: each layer sets the values of its lines; the system's file sets  *)
(* no bindings, and core's options exist once the core has reported them.    *)
Over(layer, ks, v) == [k \in Keys |-> IF k \in DOMAIN layer \cap ks THEN layer[k] ELSE v[k]]
user_cfg(f, g) == IF f[g] # NoFile THEN f[g] ELSE IF f["console"] # NoFile THEN f["console"] ELSE <<>>
Options(reported) == Keys \ (Bindings \cup IF reported THEN {} ELSE ToSet(Core))
Config_readOptions(f, g, v, reported) ==
  LET ks == Options(reported) IN Over(user_cfg(f, g), ks, Over(default_cfg, ks, Over(system_cfg, ks, v)))
LinesRead(f, g, reported) ==
  (DOMAIN system_cfg \cup DOMAIN default_cfg \cup DOMAIN user_cfg(f, g)) \cap Options(reported)
Config_readControls(f, g, v) == Over(user_cfg(f, g), Bindings, Over(default_cfg, Bindings, v))
Config_load(f, g) == IF f[g] # NoFile THEN "game" ELSE IF f["console"] # NoFile THEN "console" ELSE "none"

(* The values before any file: the pak's bindings are the defaults.          *)
(* Faulty variant: bindings are not among what is restored.                  *)
DefaultsUnbound(v) == [k \in Keys |-> IF k \in Bindings THEN v[k] ELSE Initial[k]]
Defaults(v) == Over(default_cfg, ToSet(Controls), Initial)
InForce(g) ==
  Config_readControls(files, g, Config_readOptions(files, g, Over(default_cfg, ToSet(Controls), Initial), TRUE))

-----------------------------------------------------------------------------
(* A game starts: options are read before the core is initialised and again  *)
(* when it has loaded the game, as cores report theirs early or late.        *)
Open(g) ==
  /\ stage = "off"
  /\ game' = g /\ stage' = "open"
  /\ loaded' = Config_load(files, g)
  /\ \E early \in BOOLEAN :
       /\ value' = Config_readOptions(files, g, Defaults(value), early)
       /\ changed' = (early /\ LinesRead(files, g, early) \cap ToSet(Core) # {})
       /\ told' = [Synced(told, LinesRead(files, g, early), value') EXCEPT !.speed = value'["speed"]]
  /\ UNCHANGED <<files, ghosts, seen, changes, writes, clean, promise>>

(* Core_load: the core reports its options (again), reads them and may ask   *)
(* whether they changed; its port gets a plain gamepad.                      *)
ReadSetsChanged(c, g) == c \/ LinesRead(files, g, TRUE) \cap ToSet(Core) # {}
Reported(v) == Over(Initial, ToSet(Core), v)
Load ==
  /\ stage = "open" /\ stage' = "game"
  /\ \E asked \in BOOLEAN, v \in {value, Reported(value)} :
       /\ seen' = [k \in ToSet(Core) |-> v[k]]
       /\ value' = Config_readControls(files, game, Config_readOptions(files, game, v, TRUE))
       /\ changed' = ReadSetsChanged(changed /\ ~asked, game)
  /\ told' = Synced([told EXCEPT !.device = 0], LinesRead(files, game, TRUE), value')
  /\ clean' = TRUE
  /\ UNCHANGED <<files, ghosts, game, loaded, changes, writes, promise>>

-----------------------------------------------------------------------------
Change == changes < MaxChanges /\ changes' = changes + 1 /\ clean' = FALSE

(* The shortcuts that cycle an option, when they are bound.                  *)
Cycle(shortcut, k) ==
  /\ stage = "game" /\ value[shortcut] # None
  /\ Change
  /\ value' = [value EXCEPT ![k] = (@ + 1) % Count[k]]
  /\ told' = Config_syncFrontend(told, k, value')
  /\ UNCHANGED <<files, ghosts, game, stage, loaded, changed, seen, writes, promise>>

(* The core asks whether its options changed and reads them.                 *)
CoreRun ==
  /\ stage = "game" /\ changed
  /\ changed' = FALSE /\ seen' = [k \in ToSet(Core) |-> value[k]]
  /\ UNCHANGED <<files, ghosts, game, stage, value, loaded, told, changes, writes, clean, promise>>

(* The core sets an option of its own (a palette's buttons).                 *)
CoreSets(k) ==
  /\ stage = "game" /\ Change
  /\ \E v \in 0..(Count[k] - 1) : value' = [value EXCEPT ![k] = v]
  /\ changed' = TRUE
  /\ UNCHANGED <<files, ghosts, game, stage, loaded, told, seen, writes, promise>>

(* The menu: no effect is drawn under it, and it has a speed of its own.     *)
OpenMenu ==
  /\ stage = "game" /\ stage' = "menu"
  /\ told' = [told EXCEPT !.effect = 0, !.speed = MenuSpeed]
  /\ UNCHANGED <<files, ghosts, game, value, loaded, changed, seen, changes, writes, clean, promise>>

(* Sleep: the CPU gets the game's speed, in the menu too.                    *)
Sleep ==
  /\ Running
  /\ told' = [told EXCEPT !.speed = value["speed"]]
  /\ UNCHANGED <<files, ghosts, game, stage, value, loaded, changed, seen, changes, writes, clean, promise>>

Leave ==
  /\ stage = "menu" /\ stage' = "game"
  /\ told' = [told EXCEPT !.effect = value["effect"], !.speed = value["speed"]]
  /\ UNCHANGED <<files, ghosts, game, value, loaded, changed, seen, changes, writes, clean, promise>>

(* In a list LEFT and RIGHT turn an option round; a binding takes any button *)
(* and X removes it, or sets the gamepad back.                               *)
Turned(k) == {(value[k] + 1) % Count[k], (value[k] - 1) % Count[k]}
Set(k, v) ==
  /\ stage = "menu" /\ Change
  /\ value' = [value EXCEPT ![k] = v]
  /\ told' = Synced(told, {k}, value')
  /\ UNCHANGED <<files, ghosts, game, stage, loaded, seen, writes, promise>>
OptionFrontend_optionChanged ==
  \E k \in FrontendList : (\E v \in Turned(k) : Set(k, v)) /\ UNCHANGED changed
OptionEmulator_optionChanged ==
  \E k \in EmulatorList : (\E v \in Turned(k) : Set(k, v)) /\ changed' = TRUE
OptionControls_optionChanged == (\E v \in Turned("gamepad") \cup {0} : Set("gamepad", v)) /\ UNCHANGED changed
Bind(k) == (\E v \in 1..(Count[k] - 1) : Set(k, v)) /\ UNCHANGED changed
Unbind(k) == Set(k, None) /\ UNCHANGED changed

-----------------------------------------------------------------------------
(* Config_write.  Saving for the console removes the game's own file.        *)
(* Faulty variants: it stays; nothing is synced, and a power cut brings it   *)
(* back.                                                                     *)
UnlinkedKept(o) == files
Unlinked(o) == IF o = "console" /\ loaded = "game" THEN [files EXCEPT ![game] = NoFile] ELSE files
SyncLeavesGhosts ==
  [o \in Owners |-> IF Unlinked("console")[o] = NoFile /\ files[o] # NoFile THEN files[o] ELSE ghosts[o]]
NoGhosts == [o \in Owners |-> NoFile]
sync == NoGhosts
(* The player's side of it: what is removed is gone, what is saved is kept.  *)
Settle(p, to) == [o \in Owners |-> IF p[o] = Removed THEN to ELSE p[o]]
Write == writes < MaxWrites /\ writes' = writes + 1
Save(o) ==
  /\ stage = "menu" /\ o \in {"console", game}
  /\ files' = [Unlinked(o) EXCEPT ![o] = value]
  /\ loaded' = IF o = "console" THEN "console" ELSE "game"
  /\ ghosts' = sync
  /\ clean' = TRUE
  /\ promise' = [Settle(promise, NoFile) EXCEPT ![game] = NoFile, ![o] = value]
  /\ Write
  /\ UNCHANGED <<game, stage, value, told, changed, seen, changes>>

(* Config_restore.  The file in use is removed, unsynced.                    *)
RestoreTellsCore == TRUE
InUse == IF loaded = "game" THEN game ELSE "console"
Config_restore ==
  /\ stage = "menu"
  /\ files' = IF loaded = "none" THEN files ELSE [files EXCEPT ![InUse] = NoFile]
  /\ ghosts' = IF loaded = "none" THEN ghosts ELSE [ghosts EXCEPT ![InUse] = files[InUse]]
  /\ loaded' = Config_load(files', game)
  /\ value' = Config_readControls(files', game, Config_readOptions(files', game, Defaults(value), TRUE))
  /\ told' = LET defaults == Synced([told EXCEPT !.device = 0], ToSet(Frontend), Defaults(value))
             IN Synced(defaults, LinesRead(files', game, TRUE), value')
  /\ changed' = RestoreTellsCore
  /\ clean' = TRUE
  /\ promise' = IF loaded = "none" THEN promise ELSE [promise EXCEPT ![InUse] = Removed]
  /\ Write
  /\ UNCHANGED <<game, stage, seen, changes>>

-----------------------------------------------------------------------------
(* minarch ends, and all it knows with it.                                   *)
End ==
  /\ stage' = "off" /\ loaded' = "none" /\ value' = Initial
  /\ changed' = FALSE /\ seen' = [k \in ToSet(Core) |-> 0] /\ clean' = FALSE
  /\ told' = Untold
  /\ UNCHANGED <<game, changes>>
Quit == Running /\ End /\ UNCHANGED <<files, ghosts, writes, promise>>

(* A power cut brings any removed file back that was not synced.             *)
Back(f) == \E os \in SUBSET {o \in Owners : ghosts[o] # NoFile} :
  files' = [o \in Owners |-> IF o \in os /\ f[o] = NoFile THEN ghosts[o] ELSE f[o]]
PowerCut == Back(files) /\ ghosts' = NoGhosts /\ promise' = Settle(promise, Unknown)
CutOff == stage # "off" /\ End /\ PowerCut /\ UNCHANGED writes

(* In the middle of a save: the file is cut off, the game's may be gone.     *)
Prefix(n) == [k \in ToSet(SubSeq(Lines, 1, n)) |-> value[k]]
CutOffSave(o) ==
  /\ stage = "menu" /\ o \in {"console", game}
  /\ End /\ Write
  /\ \E n \in Cuts, f \in {files, Unlinked(o)} : Back([f EXCEPT ![o] = Prefix(n)])
  /\ ghosts' = NoGhosts
  /\ promise' = [Settle(promise, Unknown) EXCEPT ![game] = IF @ # NoFile THEN Unknown ELSE @, ![o] = Unknown]

Init ==
  /\ files = [o \in Owners |-> NoFile] /\ ghosts = NoGhosts
  /\ game \in Games /\ stage = "off"
  /\ value = Initial /\ loaded = "none"
  /\ told = Untold
  /\ changed = FALSE /\ seen = [k \in ToSet(Core) |-> 0]
  /\ changes = 0 /\ writes = 0 /\ clean = FALSE /\ promise = [o \in Owners |-> NoFile]

Next ==
  \/ \E g \in Games : Open(g)
  \/ Load \/ Quit \/ CutOff
  \/ Cycle("cycle_scaling", "scaling") \/ Cycle("cycle_effect", "effect")
  \/ CoreRun \/ \E k \in ToSet(Core) : CoreSets(k)
  \/ OpenMenu \/ Sleep \/ Leave
  \/ OptionFrontend_optionChanged \/ OptionEmulator_optionChanged \/ OptionControls_optionChanged
  \/ \E k \in (ControlsList \ {"gamepad"}) \cup ShortcutsList : Bind(k) \/ Unbind(k)
  \/ \E o \in Owners : Save(o) \/ CutOffSave(o)
  \/ Config_restore

Spec == Init /\ [][Next]_vars

-----------------------------------------------------------------------------
IsFile(f) == f = NoFile \/ IsLines(f)

(* The file in use: Save for console and Restore act on config.loaded and    *)
(* never look at the card (minarch.c:1280, 1317).                            *)
LoadedIsWhatIsThere == stage # "off" => loaded = Config_load(files, game)

(* Every value is one of its option's, in the files and at the core, and *)
(* config.loaded is the file in use.                                         *)
TypeOK ==
  /\ \A o \in Owners : IsFile(files[o]) /\ IsFile(ghosts[o])
  /\ game \in Games /\ stage \in {"off", "open", "game", "menu"}
  /\ loaded \in {"none", "console", "game"} /\ LoadedIsWhatIsThere
  /\ DOMAIN value = Keys /\ IsFile(value) /\ IsFile(seen)
  /\ changed \in BOOLEAN /\ clean \in BOOLEAN /\ changes \in 0..MaxChanges /\ writes \in 0..MaxWrites

(* Right after a start, a save or a restore, what is set is what the next    *)
(* start of this game would read: restoring forgets nothing and keeps        *)
(* nothing, and saving writes all there is.                                  *)
CleanIsInForce == Running /\ clean => value = InForce(game)

(* A save that was completed comes back at the next start, for this game and *)
(* for those that use the console's file, whatever is saved or restored for  *)
(* other games and whenever the power is cut.                                *)
SavedComesBack ==
  \A g \in Games :
    LET wanted == IF promise[g] \in {NoFile, Removed} THEN promise["console"] ELSE promise[g]
    IN wanted \notin {NoFile, Removed, Unknown} => InForce(g) = wanted

(* While the game runs the screen, the CPU and the port are what is set, and *)
(* the core's view of its options is theirs or it will be told, however      *)
(* often menus, sleeps, shortcuts and restores set them.                     *)
AppliedIsSet ==
  /\ stage = "game" =>
       told = [scaling |-> value["scaling"], effect |-> value["effect"],
               speed |-> value["speed"], device |-> value["gamepad"],
               sharpness |-> IF value["scaling"] = Native THEN 0 ELSE value["sharpness"]]
  /\ Running /\ ~changed => \A k \in ToSet(Core) : seen[k] = value[k]

=============================================================================
