---------------------------- MODULE Config_proofs ----------------------------
(* Proofs about Config, for every set of games, every system.cfg and         *)
(* default.cfg, and any number of values of an option.                       *)
EXTENDS Config, SequenceTheorems, TLAPS

----------------------------------------------------------------------------
(* The lines, and what kind of key each of them is.                          *)

LEMMA ConcatToSet ==
  ASSUME NEW S, NEW s \in Seq(S), NEW t \in Seq(S)
  PROVE  s \o t \in Seq(S) /\ ToSet(s \o t) = ToSet(s) \cup ToSet(t)
<1>1. /\ s \o t \in Seq(S) /\ Len(s \o t) = Len(s) + Len(t)
      /\ \A i \in 1 .. Len(s) + Len(t) : (s \o t)[i] = IF i <= Len(s) THEN s[i] ELSE t[i - Len(s)]
  BY ConcatProperties
<1>2. ASSUME NEW x \in ToSet(s \o t) PROVE x \in ToSet(s) \cup ToSet(t)
  BY <1>1 DEF ToSet
<1>3. ASSUME NEW x \in ToSet(s) PROVE x \in ToSet(s \o t)
  BY <1>1 DEF ToSet
<1>4. ASSUME NEW x \in ToSet(t) PROVE x \in ToSet(s \o t)
  <2>1. PICK i \in 1 .. Len(t) : t[i] = x
    BY DEF ToSet
  <2>2. (s \o t)[i + Len(s)] = x /\ i + Len(s) \in DOMAIN (s \o t)
    BY <1>1, <2>1
  <2> QED BY <2>2 DEF ToSet
<1> QED BY <1>1, <1>2, <1>3, <1>4

LEMMA KindsAre ==
  /\ ToSet(Frontend) = {"scaling", "effect", "sharpness", "speed"}
  /\ ToSet(Core) = {"colors"}
  /\ ToSet(Controls) = {"up"}
  /\ ToSet(Shortcuts) = {"cycle_scaling", "cycle_effect"}
<1>1. ToSet(Frontend) = {"scaling", "effect", "sharpness", "speed"}
  <2>1. DOMAIN Frontend = 1 .. 4 /\ Frontend[1] = "scaling" /\ Frontend[2] = "effect"
        /\ Frontend[3] = "sharpness" /\ Frontend[4] = "speed"
    BY DEF Frontend
  <2>2. 1 .. 4 = {1, 2, 3, 4}  OBVIOUS
  <2> QED BY <2>1, <2>2 DEF ToSet
<1>2. ToSet(Core) = {"colors"} /\ ToSet(Controls) = {"up"}
  BY DEF ToSet, Core, Controls
<1>4. ToSet(Shortcuts) = {"cycle_scaling", "cycle_effect"}
  BY DEF ToSet, Shortcuts
<1> QED BY <1>1, <1>2, <1>4

Names == {"scaling", "effect", "sharpness", "speed", "colors", "gamepad", "up",
          "cycle_scaling", "cycle_effect"}

LEMMA KeysAre ==
  /\ Keys = Names /\ Lines \in Seq(Names)
  /\ Bindings = {"up", "cycle_scaling", "cycle_effect"}
<1>1. Frontend \in Seq(Names) /\ Core \in Seq(Names) /\ Controls \in Seq(Names)
      /\ Shortcuts \in Seq(Names) /\ <<"gamepad">> \in Seq(Names)
  BY DEF Frontend, Core, Controls, Shortcuts, Names
<1>2. \A s, t \in Seq(Names) : s \o t \in Seq(Names) /\ ToSet(s \o t) = ToSet(s) \cup ToSet(t)
  BY ConcatToSet
<1> DEFINE a == Frontend \o Core
           b == a \o <<"gamepad">>
           c == b \o Controls
<1>3. a \in Seq(Names) /\ ToSet(a) = ToSet(Frontend) \cup ToSet(Core)
  BY <1>1, <1>2
<1> HIDE DEF a
<1>4. b \in Seq(Names) /\ ToSet(b) = ToSet(a) \cup {"gamepad"}
  <2>1. ToSet(<<"gamepad">>) = {"gamepad"}  BY DEF ToSet
  <2> QED BY <1>1, <1>2, <1>3, <2>1
<1> HIDE DEF b
<1>5. c \in Seq(Names) /\ ToSet(c) = ToSet(b) \cup ToSet(Controls)
  BY <1>1, <1>2, <1>4
<1> HIDE DEF c
<1>6. c \o Shortcuts \in Seq(Names) /\ ToSet(c \o Shortcuts) = ToSet(c) \cup ToSet(Shortcuts)
  BY <1>1, <1>2, <1>5
<1>7. Lines = c \o Shortcuts
  BY DEF Lines, a, b, c
<1>8. ToSet(Controls \o Shortcuts) = ToSet(Controls) \cup ToSet(Shortcuts)
  BY <1>1, <1>2
<1>9. Keys = Names
  BY <1>3, <1>4, <1>5, <1>6, <1>7, KindsAre DEF Keys, Names
<1> QED BY <1>6, <1>7, <1>8, <1>9, KindsAre DEF Bindings

----------------------------------------------------------------------------
(* What the layers of files make of the values.                              *)

\* A value for each key.
Whole(v) == v \in [Keys -> Nat] /\ IsLines(v)

LEMMA WholeIsSaved ==
  ASSUME NEW v, Whole(v)
  PROVE  IsFile(v) /\ v \notin {NoFile, Removed, Unknown}
BY FilesAssumption DEF Whole, IsFile

LEMMA DefaultsAreWhole ==
  ASSUME NEW v
  PROVE  /\ Whole(Defaults(v)) /\ Whole(Initial)
         /\ Defaults(v) = Over(default_cfg, ToSet(Controls), Initial)
         /\ \A k \in Keys \ ToSet(Controls) : Defaults(v)[k] = Initial[k]
BY ConfigAssumption DEF Whole, Defaults, Over, IsLines

LEMMA UserLines ==
  ASSUME NEW f, NEW g, IsFile(f[g]), IsFile(f["console"])
  PROVE  IsLines(user_cfg(f, g))
<1>1. IsLines(<<>>)  BY DEF IsLines
<1> QED BY <1>1 DEF user_cfg, IsFile

\* The value of a key that has a line.
Layered(f, g, k) ==
  IF k \in DOMAIN user_cfg(f, g) THEN user_cfg(f, g)[k]
  ELSE IF k \in DOMAIN default_cfg THEN default_cfg[k] ELSE system_cfg[k]

(* Reading sets the keys that have a line, and no others.                    *)
LEMMA ReadOptions ==
  ASSUME NEW f, NEW g, IsLines(user_cfg(f, g)), NEW v, Whole(v), NEW reported
  PROVE  /\ Whole(Config_readOptions(f, g, v, reported))
         /\ \A k \in Keys : Config_readOptions(f, g, v, reported)[k] =
              IF k \in LinesRead(f, g, reported) THEN Layered(f, g, k) ELSE v[k]
<1> DEFINE ks == Options(reported)
           s == Over(system_cfg, ks, v)
           d == Over(default_cfg, ks, s)
           u == Over(user_cfg(f, g), ks, d)
<1>1. Whole(s) /\ \A k \in Keys : s[k] = IF k \in DOMAIN system_cfg \cap ks THEN system_cfg[k] ELSE v[k]
  BY ConfigAssumption DEF Over, Whole, IsLines
<1>2. Whole(d) /\ \A k \in Keys : d[k] = IF k \in DOMAIN default_cfg \cap ks THEN default_cfg[k] ELSE s[k]
  BY <1>1, ConfigAssumption DEF Over, Whole, IsLines
<1>3. Whole(u) /\ \A k \in Keys : u[k] = IF k \in DOMAIN user_cfg(f, g) \cap ks THEN user_cfg(f, g)[k] ELSE d[k]
  BY <1>2 DEF Over, Whole, IsLines
<1>4. u = Config_readOptions(f, g, v, reported)
  BY DEF Config_readOptions
<1>5. LinesRead(f, g, reported) = (DOMAIN system_cfg \cup DOMAIN default_cfg \cup DOMAIN user_cfg(f, g)) \cap ks
  BY DEF LinesRead
<1> HIDE DEF ks, s, d, u
<1> QED BY <1>1, <1>2, <1>3, <1>4, <1>5 DEF Layered

\* Once the core has reported its options.
ReadAllOptions(f, g, v) == Config_readOptions(f, g, v, TRUE)
AllLines(f, g) == LinesRead(f, g, TRUE)

LEMMA ReadAll ==
  ASSUME NEW f, NEW g, IsLines(user_cfg(f, g)), NEW v, Whole(v)
  PROVE  /\ Whole(ReadAllOptions(f, g, v))
         /\ \A k \in Keys : ReadAllOptions(f, g, v)[k] =
              IF k \in AllLines(f, g) THEN Layered(f, g, k) ELSE v[k]
<1>1. \A r : Whole(Config_readOptions(f, g, v, r))
  BY ReadOptions
<1>2. \A r : \A k \in Keys : Config_readOptions(f, g, v, r)[k] =
              IF k \in LinesRead(f, g, r) THEN Layered(f, g, k) ELSE v[k]
  BY ReadOptions
<1> QED BY <1>1, <1>2, Zenon DEF ReadAllOptions, AllLines

LEMMA ReadControls ==
  ASSUME NEW f, NEW g, IsLines(user_cfg(f, g)), NEW v, Whole(v)
  PROVE  /\ Whole(Config_readControls(f, g, v))
         /\ \A k \in Keys : Config_readControls(f, g, v)[k] =
              IF k \in Bindings \cap (DOMAIN user_cfg(f, g) \cup DOMAIN default_cfg)
              THEN Layered(f, g, k) ELSE v[k]
<1> DEFINE d == Over(default_cfg, Bindings, v)
           u == Over(user_cfg(f, g), Bindings, d)
<1>1. Whole(d) /\ \A k \in Keys : d[k] = IF k \in DOMAIN default_cfg \cap Bindings THEN default_cfg[k] ELSE v[k]
  BY ConfigAssumption DEF Over, Whole, IsLines
<1>2. Whole(u) /\ \A k \in Keys : u[k] = IF k \in DOMAIN user_cfg(f, g) \cap Bindings THEN user_cfg(f, g)[k] ELSE d[k]
  BY <1>1 DEF Over, Whole, IsLines
<1>3. u = Config_readControls(f, g, v)
  BY DEF Config_readControls
<1> HIDE DEF d, u
<1> QED BY <1>1, <1>2, <1>3 DEF Layered

LEMMA OptionsGrow ==
  ASSUME NEW f, NEW g, NEW reported
  PROVE  /\ LinesRead(f, g, reported) \subseteq AllLines(f, g)
         /\ LinesRead(f, g, reported) \subseteq Keys \ Bindings
         /\ \A k \in AllLines(f, g) \ ToSet(Core) : k \in LinesRead(f, g, reported)
BY DEF AllLines, LinesRead, Options

\* What a start makes of the files, from any values to start with.
Start(f, g, v) == Config_readControls(f, g, ReadAllOptions(f, g, v))

(* The two readings of a start, with the core's options reported anew in     *)
(* between or not, come to the same as one reading of the defaults.          *)
LEMMA TwiceIsOnce ==
  ASSUME NEW f, NEW g, IsLines(user_cfg(f, g)), NEW early \in BOOLEAN, NEW w,
         NEW opened, opened = Config_readOptions(f, g, Defaults(w), early),
         NEW v \in {opened, Reported(opened)}
  PROVE  /\ Whole(opened) /\ Whole(v) /\ Whole(Start(f, g, v))
         /\ Start(f, g, v) = Start(f, g, Over(default_cfg, ToSet(Controls), Initial))
<1> DEFINE base == Over(default_cfg, ToSet(Controls), Initial)
<1>1. Whole(base) /\ Defaults(w) = base
      /\ \A k \in Keys \ ToSet(Controls) : base[k] = Initial[k]
  BY DefaultsAreWhole
<1> HIDE DEF base
<1>2. Whole(opened) /\ \A k \in Keys : opened[k] = IF k \in LinesRead(f, g, early) THEN Layered(f, g, k) ELSE base[k]
  BY <1>1, ReadOptions
<1>3. Whole(v) /\ \A k \in Keys \ ToSet(Core) : v[k] = opened[k]
  BY <1>2, ConfigAssumption DEF Reported, Over, Whole, IsLines
<1>4. \A k \in ToSet(Core) \cap Keys : v[k] \in {opened[k], Initial[k]}
  BY <1>2, ConfigAssumption DEF Reported, Over, Whole, IsLines
<1>5. ASSUME NEW k \in Keys, k \notin AllLines(f, g)
      PROVE  v[k] = base[k]
  <2>1. opened[k] = base[k]
    BY <1>2, <1>5, OptionsGrow
  <2>2. CASE k \in ToSet(Core)
    <3>1. base[k] = Initial[k]
      BY <1>1, <2>2, KindsAre
    <3> QED BY <1>4, <2>1, <2>2, <3>1
  <2> QED BY <1>3, <2>1, <2>2
<1> DEFINE a == ReadAllOptions(f, g, v)
           b == ReadAllOptions(f, g, base)
<1>6. Whole(a) /\ \A k \in Keys : a[k] = IF k \in AllLines(f, g) THEN Layered(f, g, k) ELSE v[k]
  BY <1>3, ReadAll
<1>7. Whole(b) /\ \A k \in Keys : b[k] = IF k \in AllLines(f, g) THEN Layered(f, g, k) ELSE base[k]
  BY <1>1, ReadAll
<1> HIDE DEF a, b
<1>8. a = b
  <2>1. \A k \in Keys : a[k] = b[k]
    BY <1>5, <1>6, <1>7
  <2>2. a = [k \in Keys |-> a[k]] /\ b = [k \in Keys |-> b[k]]
    BY <1>6, <1>7 DEF Whole
  <2> QED BY <2>1, <2>2
<1>9. Whole(Config_readControls(f, g, a))
  BY <1>6, ReadControls
<1> QED BY <1>2, <1>3, <1>8, <1>9 DEF Start, a, b, base

(* A file with all keys is what a start makes of it.                         *)
LEMMA WholeFileComesBack ==
  ASSUME NEW f, NEW g, NEW v, Whole(v), user_cfg(f, g) = v
  PROVE  Start(f, g, Over(default_cfg, ToSet(Controls), Initial)) = v
<1> DEFINE base == Over(default_cfg, ToSet(Controls), Initial)
           b == ReadAllOptions(f, g, base)
<1>1. IsLines(user_cfg(f, g)) /\ DOMAIN v = Keys
  BY DEF Whole
<1>2. Whole(base)
  BY DefaultsAreWhole
<1> HIDE DEF base
<1>3. Whole(b) /\ \A k \in Keys : b[k] = IF k \in AllLines(f, g) THEN Layered(f, g, k) ELSE base[k]
  BY <1>1, <1>2, ReadAll
<1> HIDE DEF b
<1>4. \A k \in Keys : k \in AllLines(f, g) <=> k \notin Bindings
  BY <1>1 DEF AllLines, LinesRead, Options
<1>5. /\ Whole(Config_readControls(f, g, b))
      /\ \A k \in Keys : Config_readControls(f, g, b)[k] =
              IF k \in Bindings \cap (DOMAIN user_cfg(f, g) \cup DOMAIN default_cfg)
              THEN Layered(f, g, k) ELSE b[k]
  BY <1>1, <1>3, ReadControls
<1>6. \A k \in Keys : Config_readControls(f, g, b)[k] = v[k]
  BY <1>1, <1>3, <1>4, <1>5 DEF Layered
<1>7. Config_readControls(f, g, b) = v
  BY <1>5, <1>6 DEF Whole
<1> QED BY <1>7 DEF Start, b, base

----------------------------------------------------------------------------
(* The inductive invariant.                                                  *)

Types ==
  /\ files = [o \in Owners |-> files[o]] /\ ghosts = [o \in Owners |-> ghosts[o]]
  /\ promise = [o \in Owners |-> promise[o]]
  /\ TypeOK /\ Whole(value)

\* What is told while nothing runs, and once the options were read: the CPU and
\* the effect wait for the menu to end, the port for the core.
ToldIs ==
  /\ told \in [scaling : Nat, effect : Nat, sharpness : Nat, speed : Int, device : Nat]
  /\ stage = "off" => told = Untold
  /\ stage # "off" =>
       /\ told.scaling = value["scaling"]
       /\ told.sharpness = IF value["scaling"] = Native THEN 0 ELSE value["sharpness"]
  /\ stage \in {"open", "game"} => told.effect = value["effect"] /\ told.speed = value["speed"]
  /\ Running => told.device = value["gamepad"]

SeenIs == Running /\ ~changed => \A k \in ToSet(Core) : seen[k] = value[k]

\* Between the two readings of a start the values are the first's.
OpenedIs ==
  stage = "open" => \E early \in BOOLEAN : value = Config_readOptions(files, game, Defaults(value), early)

\* What was saved is on the card; what was removed is not, and what is owed
\* nothing cannot come back either.
PromisesKept ==
  \A o \in Owners :
    /\ promise[o] \notin {NoFile, Removed, Unknown} => files[o] = promise[o] /\ Whole(promise[o])
    /\ promise[o] \in {NoFile, Removed} => files[o] = NoFile
    /\ promise[o] = NoFile => ghosts[o] = NoFile

IInv == Types /\ OpenedIs /\ CleanIsInForce /\ PromisesKept /\ ToldIs /\ SeenIs

----------------------------------------------------------------------------
(* The initial state.                                                        *)

LEMMA UntoldTypes ==
  /\ Untold \in [scaling : Nat, effect : Nat, sharpness : Nat, speed : Int, device : Nat]
  /\ Untold.scaling = Initial["scaling"] /\ Untold.effect = Initial["effect"]
  /\ Untold.sharpness = Initial["sharpness"] /\ Untold.speed = Initial["speed"]
  /\ Untold.device = Initial["gamepad"] /\ Initial["scaling"] # Native
BY ConfigAssumption, KeysAre DEF Untold, Names

LEMMA NothingSeen == IsFile([k \in ToSet(Core) |-> 0])
<1>1. ToSet(Core) \subseteq Keys
  BY KeysAre, KindsAre DEF Names
<1>2. \A k \in Keys : 0 \in 0..(Count[k] - 1)
  BY ConfigAssumption
<1> QED BY <1>1, <1>2 DEF IsFile, IsLines

LEMMA InitIInv == Init => IInv
<1> SUFFICES ASSUME Init PROVE IInv
  OBVIOUS
<1>1. Whole(Initial)
  BY DefaultsAreWhole
<1>2. TypeOK
  <2>1. DOMAIN value = Keys /\ IsFile(value) /\ IsFile(seen)
    BY <1>1, WholeIsSaved, NothingSeen DEF Init, Whole
  <2>2. \A o \in Owners : IsFile(files[o]) /\ IsFile(ghosts[o])
    BY DEF Init, NoGhosts, IsFile
  <2>3. game \in Games /\ changed \in BOOLEAN /\ clean \in BOOLEAN
    BY DEF Init
  <2>4. changes \in 0..MaxChanges /\ writes \in 0..MaxWrites
    BY ConfigAssumption DEF Init
  <2>5. stage = "off" /\ loaded = "none"
    BY DEF Init
  <2> QED BY <2>1, <2>2, <2>3, <2>4, <2>5 DEF TypeOK, LoadedIsWhatIsThere
<1>3. Types
  BY <1>1, <1>2 DEF Init, NoGhosts, Types
<1>4. PromisesKept
  BY DEF Init, PromisesKept, NoGhosts
<1>5. ToldIs
  BY UntoldTypes DEF Init, ToldIs, Running
<1> QED BY <1>3, <1>4, <1>5 DEF Init, IInv, OpenedIs, CleanIsInForce, SeenIs, Running

----------------------------------------------------------------------------
(* The lists of the menu: each turn sets one key to one of its values.       *)

Lists ==
  \/ OptionFrontend_optionChanged \/ OptionEmulator_optionChanged \/ OptionControls_optionChanged
  \/ \E k \in (ControlsList \ {"gamepad"}) \cup ShortcutsList : Bind(k) \/ Unbind(k)

LEMMA Wraps ==
  ASSUME NEW n \in Nat \ {0}, NEW i \in Int
  PROVE  i % n \in 0..(n - 1)
OBVIOUS

LEMMA TurnedOK ==
  ASSUME Whole(value), NEW k \in Keys
  PROVE  Turned(k) \subseteq 0..(Count[k] - 1) /\ (value[k] + 1) % Count[k] \in 0..(Count[k] - 1)
<1>1. value[k] \in Int /\ Count[k] \in Nat \ {0}
  BY ConfigAssumption DEF Whole
<1>2. \A n \in Nat \ {0}, i \in Int : (i + 1) % n \in 0..(n - 1) /\ (i - 1) % n \in 0..(n - 1)
  BY Wraps
<1> QED BY <1>1, <1>2 DEF Turned

LEMMA ListsSet ==
  ASSUME Whole(value), Lists
  PROVE  \E k \in Keys : \E v \in 0..(Count[k] - 1) :
           Set(k, v) /\ ((changed' = changed /\ k \notin ToSet(Core)) \/ changed' = TRUE)
<1>1. CASE OptionFrontend_optionChanged
  <2>1. PICK k \in FrontendList : (\E v \in Turned(k) : Set(k, v)) /\ UNCHANGED changed
    BY <1>1 DEF OptionFrontend_optionChanged
  <2>2. k \in Keys \ ToSet(Core)
    BY <2>1, KeysAre, KindsAre DEF FrontendList, Names
  <2> QED BY <2>1, <2>2, TurnedOK
<1>2. CASE OptionEmulator_optionChanged
  <2>1. PICK k \in EmulatorList : (\E v \in Turned(k) : Set(k, v)) /\ changed' = TRUE
    BY <1>2 DEF OptionEmulator_optionChanged
  <2>2. k \in Keys
    BY <2>1, KeysAre, KindsAre DEF EmulatorList, Names
  <2> QED BY <2>1, <2>2, TurnedOK
<1>3. CASE OptionControls_optionChanged
  <2>1. PICK v \in Turned("gamepad") \cup {0} : Set("gamepad", v) /\ UNCHANGED changed
    BY <1>3 DEF OptionControls_optionChanged
  <2>2. "gamepad" \in Keys \ ToSet(Core)
    BY KeysAre, KindsAre DEF Names
  <2>3. v \in 0..(Count["gamepad"] - 1)
    BY <2>1, <2>2, TurnedOK, ConfigAssumption
  <2> QED BY <2>1, <2>2, <2>3
<1>4. ASSUME NEW k \in (ControlsList \ {"gamepad"}) \cup ShortcutsList, Bind(k) \/ Unbind(k)
      PROVE  \E v \in 0..(Count[k] - 1) : Set(k, v) /\ UNCHANGED changed
  <2>1. k \in Keys
    BY <1>4, KeysAre, KindsAre DEF ControlsList, ShortcutsList, Names
  <2>2. 0 \in 0..(Count[k] - 1) /\ 1..(Count[k] - 1) \subseteq 0..(Count[k] - 1)
    BY <2>1, ConfigAssumption
  <2> QED BY <1>4, <2>2 DEF Bind, Unbind, None
<1>5. \A k \in (ControlsList \ {"gamepad"}) \cup ShortcutsList : k \in Keys \ ToSet(Core)
  BY KeysAre, KindsAre DEF ControlsList, ShortcutsList, Names
<1> QED BY <1>1, <1>2, <1>3, <1>4, <1>5 DEF Lists

----------------------------------------------------------------------------
(* Reading as a game starts.                                                 *)

LEMMA UserLinesNow ==
  ASSUME Types, NEW g \in Games
  PROVE  IsLines(user_cfg(files, g))
BY UserLines DEF Types, TypeOK, Owners

LEMMA LoadFacts ==
  ASSUME Types, OpenedIs, Load
  PROVE  \E v :
    /\ Whole(v) /\ \A k \in Keys \ ToSet(Core) : v[k] = value[k]
    /\ seen' = [k \in ToSet(Core) |-> v[k]]
    /\ value' = Start(files, game, v) /\ Whole(value')
    /\ value' = InForce(game)
<1>1. game \in Games /\ stage = "open" /\ IsLines(user_cfg(files, game))
  BY UserLinesNow DEF Load, Types, TypeOK
<1>2. PICK v \in {value, Reported(value)} :
        /\ seen' = [k \in ToSet(Core) |-> v[k]]
        /\ value' = Config_readControls(files, game, Config_readOptions(files, game, v, TRUE))
  BY DEF Load
<1>3. PICK early \in BOOLEAN : value = Config_readOptions(files, game, Defaults(value), early)
  BY <1>1 DEF OpenedIs
<1>4. /\ Whole(v) /\ Whole(Start(files, game, v))
      /\ Start(files, game, v) = Start(files, game, Over(default_cfg, ToSet(Controls), Initial))
  BY <1>1, <1>3, TwiceIsOnce
<1>5. \A k \in Keys \ ToSet(Core) : v[k] = value[k]
  BY DEF Reported, Over
<1>6. value' = Start(files, game, v)
  BY <1>2, Zenon DEF Start, ReadAllOptions
<1>7. InForce(game) = Start(files, game, Over(default_cfg, ToSet(Controls), Initial))
  BY Zenon DEF InForce, Start, ReadAllOptions
<1> QED BY <1>2, <1>4, <1>5, <1>6, <1>7

----------------------------------------------------------------------------
(* Types.                                                                    *)

LEMMA EndTypes ==
  ASSUME Types, End
  PROVE  /\ Whole(value') /\ IsFile(seen') /\ stage' = "off" /\ loaded' = "none" /\ game' \in Games
         /\ changed' \in BOOLEAN /\ clean' \in BOOLEAN /\ changes' \in 0..MaxChanges
<1>1. Whole(Initial)
  BY DefaultsAreWhole
<1>2. changed' \in BOOLEAN /\ clean' \in BOOLEAN
  BY DEF End
<1>3. IsFile(seen')
  BY NothingSeen DEF End
<1> QED BY <1>1, <1>2, <1>3 DEF End, Types, TypeOK

LEMMA WholeTypes ==
  ASSUME NEW v, Whole(v)
  PROVE  DOMAIN v = Keys /\ IsFile(v)
BY WholeIsSaved DEF Whole

LEMMA PrefixIsFile ==
  ASSUME Whole(value), NEW n \in Cuts
  PROVE  IsFile(Prefix(n))
<1>1. n \in 0..Len(Lines) /\ Lines \in Seq(Names) /\ Keys = Names
  BY KeysAre, ConfigAssumption
<1>2. SubSeq(Lines, 1, n) \in Seq(Names)
  <2>1. \A i \in 1..n : Lines[i] \in Names
    BY <1>1
  <2> QED BY <1>1, <2>1, SubSeqProperties
<1>3. ToSet(SubSeq(Lines, 1, n)) \subseteq Keys
  BY <1>1, <1>2 DEF ToSet
<1> QED BY <1>3 DEF Prefix, IsFile, IsLines, Whole

LEMMA BackFiles ==
  ASSUME NEW f, \A o \in Owners : IsFile(f[o]) /\ IsFile(ghosts[o]), Back(f)
  PROVE  /\ files' = [o \in Owners |-> files'[o]]
         /\ \A o \in Owners : IsFile(files'[o]) /\ files'[o] \in {f[o], ghosts[o]}
         /\ \A o \in Owners : f[o] # NoFile \/ ghosts[o] = NoFile => files'[o] = f[o]
<1>1. PICK os \in SUBSET {o \in Owners : ghosts[o] # NoFile} :
        files' = [o \in Owners |-> IF o \in os /\ f[o] = NoFile THEN ghosts[o] ELSE f[o]]
  BY DEF Back
<1> QED BY <1>1

LEMMA SettleFunction ==
  ASSUME NEW p, NEW to
  PROVE  Settle(p, to) = [o \in Owners |-> Settle(p, to)[o]]
BY DEF Settle

LEMMA OpenTypes ==
  ASSUME Types, NEW g \in Games, Open(g)
  PROVE  Types' /\ OpenedIs'
<1>1. IsLines(user_cfg(files, g))
  BY UserLinesNow
<1>2. PICK early \in BOOLEAN :
        /\ value' = Config_readOptions(files, g, Defaults(value), early)
        /\ changed' = (early /\ LinesRead(files, g, early) \cap ToSet(Core) # {})
  BY DEF Open
<1>3. Whole(value')
  BY <1>1, <1>2, DefaultsAreWhole, ReadOptions
<1>4. changed' \in BOOLEAN
  BY <1>2
<1>5. clean' \in BOOLEAN /\ changes' \in 0..MaxChanges /\ writes' \in 0..MaxWrites /\ IsFile(seen')
  BY DEF Open, Types, TypeOK
<1>6. game' = g /\ stage' = "open" /\ loaded' = Config_load(files, g) /\ UNCHANGED <<files, ghosts, promise>>
  BY DEF Open
<1>7. loaded' \in {"none", "console", "game"} /\ LoadedIsWhatIsThere'
  BY <1>6 DEF Config_load, LoadedIsWhatIsThere
<1>8. TypeOK'
  BY <1>3, <1>4, <1>5, <1>6, <1>7, WholeTypes DEF TypeOK, Types
<1>9. value' = Config_readOptions(files', game', Defaults(value'), early)
  BY <1>2, <1>6 DEF Defaults
<1> QED BY <1>3, <1>6, <1>8, <1>9 DEF Types, OpenedIs

LEMMA LoadTypes ==
  ASSUME Types, OpenedIs, Load
  PROVE  Types' /\ OpenedIs' /\ CleanIsInForce'
<1>1. PICK v :
        /\ Whole(v) /\ seen' = [k \in ToSet(Core) |-> v[k]]
        /\ Whole(value') /\ value' = InForce(game)
  BY LoadFacts
<1>2. changed' \in BOOLEAN /\ clean' \in BOOLEAN
  BY DEF Load, ReadSetsChanged
<1>3. IsFile(seen')
  <2>1. ToSet(Core) \subseteq Keys
    BY KeysAre, KindsAre DEF Names
  <2> QED BY <1>1, <2>1 DEF IsFile, IsLines, Whole
<1>4. stage' = "game" /\ stage = "open" /\ UNCHANGED <<files, ghosts, game, loaded, changes, writes, promise>>
  BY DEF Load
<1>5. LoadedIsWhatIsThere'
  BY <1>4 DEF Types, TypeOK, LoadedIsWhatIsThere, Config_load
<1>6. TypeOK'
  BY <1>1, <1>2, <1>3, <1>4, <1>5, WholeTypes DEF TypeOK, Types
<1>7. InForce(game)' = InForce(game)
  BY <1>4 DEF InForce, Config_readControls, Config_readOptions, user_cfg
<1> QED BY <1>1, <1>4, <1>6, <1>7 DEF Types, OpenedIs, CleanIsInForce

\* The steps in a game and its menu that leave the files alone.
Plays ==
  \/ Cycle("cycle_scaling", "scaling") \/ Cycle("cycle_effect", "effect")
  \/ CoreRun \/ (\E k \in ToSet(Core) : CoreSets(k))
  \/ OpenMenu \/ Sleep \/ Leave \/ Lists

LEMMA InForceStays ==
  ASSUME UNCHANGED files, NEW g
  PROVE  InForce(g)' = InForce(g)
BY DEF InForce, Config_readControls, Config_readOptions, user_cfg

LEMMA CycleSets ==
  ASSUME Types, NEW shortcut, NEW k \in {"scaling", "effect"}, Cycle(shortcut, k)
  PROVE  /\ \E v \in 0..(Count[k] - 1) : value' = [value EXCEPT ![k] = v]
         /\ k \in Keys
<1>1. k \in Keys
  BY KeysAre DEF Names
<1> QED BY <1>1, TurnedOK DEF Cycle, Types

LEMMA ChangeCounts ==
  ASSUME Types, Change
  PROVE  changes' \in 0..MaxChanges /\ clean' = FALSE
BY ConfigAssumption DEF Types, TypeOK, Change

\* What they do to the values and the rest.
LEMMA PlaysFacts ==
  ASSUME Types, Plays
  PROVE  /\ Running /\ stage' \in {"game", "menu"}
         /\ UNCHANGED <<files, ghosts, game, loaded, promise, writes>>
         /\ Whole(value') /\ IsFile(seen') /\ changed' \in BOOLEAN
         /\ changes' \in 0..MaxChanges
         /\ UNCHANGED <<value, clean>> \/ clean' = FALSE
<1> USE DEF Running
<1>0. ASSUME NEW k \in Keys, NEW v \in 0..(Count[k] - 1)
      PROVE  Whole([value EXCEPT ![k] = v])
  BY ConfigAssumption DEF Types, Whole, IsLines
<1>1. ASSUME NEW shortcut, NEW k \in {"scaling", "effect"}, Cycle(shortcut, k)
      PROVE  /\ stage = "game" /\ stage' = "game" /\ Whole(value')
             /\ UNCHANGED <<files, ghosts, game, loaded, promise, writes, seen, changed>> /\ Change
  BY <1>0, <1>1, CycleSets DEF Cycle
<1>2. ASSUME NEW k \in ToSet(Core), CoreSets(k)
      PROVE  /\ stage = "game" /\ stage' = "game" /\ Whole(value') /\ changed' = TRUE
             /\ UNCHANGED <<files, ghosts, game, loaded, promise, writes, seen>> /\ Change
  <2>1. k \in Keys
    BY KeysAre, KindsAre DEF Names
  <2> QED BY <1>0, <1>2, <2>1 DEF CoreSets
<1>3. CASE Lists
  <2>1. PICK k \in Keys : \E v \in 0..(Count[k] - 1) : Set(k, v) /\ (changed' = changed \/ changed' = TRUE)
    BY <1>3, ListsSet DEF Types
  <2>2. /\ stage = "menu" /\ stage' = "menu" /\ Whole(value') /\ (changed' = changed \/ changed' = TRUE)
        /\ UNCHANGED <<files, ghosts, game, loaded, promise, writes, seen>> /\ Change
    BY <1>0, <2>1 DEF Set
  <2>3. changed' \in BOOLEAN
    BY <2>2 DEF Types, TypeOK
  <2>4. IsFile(seen')
    BY <2>2 DEF Types, TypeOK
  <2> QED BY <2>2, <2>3, <2>4, ChangeCounts
<1>4. CASE Cycle("cycle_scaling", "scaling") \/ Cycle("cycle_effect", "effect")
  <2>1. /\ stage = "game" /\ stage' = "game" /\ Whole(value')
        /\ UNCHANGED <<files, ghosts, game, loaded, promise, writes, seen, changed>> /\ Change
    BY <1>1, <1>4
  <2>2. IsFile(seen') /\ changed' \in BOOLEAN
    BY <2>1 DEF Types, TypeOK
  <2> QED BY <2>1, <2>2, ChangeCounts
<1>5. CASE \E k \in ToSet(Core) : CoreSets(k)
  <2>1. /\ stage = "game" /\ stage' = "game" /\ Whole(value') /\ changed' = TRUE
        /\ UNCHANGED <<files, ghosts, game, loaded, promise, writes, seen>> /\ Change
    BY <1>2, <1>5
  <2>2. IsFile(seen') /\ changed' \in BOOLEAN
    BY <2>1 DEF Types, TypeOK
  <2> QED BY <2>1, <2>2, ChangeCounts
<1>6. CASE CoreRun
  <2>1. changed' \in BOOLEAN
    BY <1>6 DEF CoreRun
  <2>2. IsFile(seen')
    <3>1. ToSet(Core) \subseteq Keys
      BY KeysAre, KindsAre DEF Names
    <3> QED BY <1>6, <3>1 DEF CoreRun, IsFile, IsLines, Whole, Types
  <2> QED BY <1>6, <2>1, <2>2 DEF CoreRun, Types, TypeOK
<1>7. CASE OpenMenu \/ Sleep \/ Leave
  BY <1>7 DEF OpenMenu, Sleep, Leave, Types, TypeOK
<1> QED BY <1>3, <1>4, <1>5, <1>6, <1>7 DEF Plays

LEMMA PlaysTypes ==
  ASSUME Types, CleanIsInForce, Plays
  PROVE  Types' /\ OpenedIs' /\ CleanIsInForce'
<1>1. /\ Running /\ stage' \in {"game", "menu"}
      /\ UNCHANGED <<files, ghosts, game, loaded, promise, writes>>
      /\ Whole(value') /\ IsFile(seen') /\ changed' \in BOOLEAN
      /\ changes' \in 0..MaxChanges
      /\ UNCHANGED <<value, clean>> \/ clean' = FALSE
  BY PlaysFacts
<1>2. clean' \in BOOLEAN
  BY <1>1 DEF Types, TypeOK
<1>3. LoadedIsWhatIsThere'
  BY <1>1 DEF Types, TypeOK, LoadedIsWhatIsThere, Config_load, Running
<1>4. TypeOK'
  BY <1>1, <1>3, <1>2, WholeTypes DEF Types, TypeOK
<1>5. CleanIsInForce'
  BY <1>1, InForceStays DEF CleanIsInForce, Running
<1> QED BY <1>1, <1>4, <1>5 DEF Types, OpenedIs

----------------------------------------------------------------------------
(* Saving.                                                                   *)

LEMMA SaveFacts ==
  ASSUME Types, NEW o \in Owners, Save(o)
  PROVE  /\ stage = "menu" /\ stage' = "menu" /\ o \in {"console", game} /\ game \in Games
         /\ game' = game /\ value' = value /\ game # "console"
         /\ files' = [q \in Owners |-> IF q = o THEN value
                                       ELSE IF o = "console" /\ q = game THEN NoFile ELSE files[q]]
         /\ ghosts' = NoGhosts
         /\ promise' = [q \in Owners |-> IF q = o THEN value
                          ELSE IF q = game THEN NoFile ELSE Settle(promise, NoFile)[q]]
         /\ loaded' = IF o = "console" THEN "console" ELSE "game"
<1>1. stage = "menu" /\ stage' = "menu" /\ o \in {"console", game} /\ game \in Games
      /\ game' = game /\ value' = value /\ game # "console"
  BY FilesAssumption DEF Save, Types, TypeOK
<1>2. o = "console" /\ loaded # "game" => files[game] = NoFile
  BY <1>1 DEF Types, TypeOK, LoadedIsWhatIsThere, Config_load
<1>3. Unlinked(o) = [q \in Owners |-> IF o = "console" /\ q = game THEN NoFile ELSE files[q]]
  BY <1>1, <1>2 DEF Unlinked, Types, Owners
<1>4. files' = [q \in Owners |-> IF q = o THEN value
                                       ELSE IF o = "console" /\ q = game THEN NoFile ELSE files[q]]
  BY <1>3 DEF Save
<1>5. promise' = [q \in Owners |-> IF q = o THEN value
                          ELSE IF q = game THEN NoFile ELSE Settle(promise, NoFile)[q]]
  BY DEF Save, Settle
<1> QED BY <1>1, <1>4, <1>5 DEF Save, sync

LEMMA SaveSteps ==
  ASSUME Types, PromisesKept, NEW o \in Owners, Save(o)
  PROVE  Types' /\ OpenedIs' /\ CleanIsInForce' /\ PromisesKept'
<1>1. Whole(value) /\ value \notin {NoFile, Removed, Unknown} /\ IsFile(value)
  BY WholeIsSaved DEF Types
<1>2. LoadedIsWhatIsThere'
  BY <1>1, SaveFacts DEF LoadedIsWhatIsThere, Config_load, Owners
<1>3. \A q \in Owners : IsFile(files'[q]) /\ IsFile(ghosts'[q])
  BY <1>1, SaveFacts DEF NoGhosts, IsFile, Types, TypeOK
<1>4. changed' \in BOOLEAN /\ clean' \in BOOLEAN /\ IsFile(seen')
  BY DEF Save, Types, TypeOK
<1>5. changes' \in 0..MaxChanges /\ writes' \in 0..MaxWrites
  BY ConfigAssumption DEF Save, Write, Types, TypeOK
<1>6. TypeOK'
  BY <1>1, <1>2, <1>3, <1>4, <1>5, SaveFacts, WholeTypes DEF TypeOK
<1>7. Types'
  BY <1>1, <1>6, SaveFacts DEF Types, NoGhosts
<1>8. value' = Start(files', game, Over(default_cfg, ToSet(Controls), Initial))
  <2>1. user_cfg(files', game) = value
    BY <1>1, SaveFacts DEF user_cfg, Owners
  <2> QED BY <1>1, <2>1, SaveFacts, WholeFileComesBack
<1>9. InForce(game)' = Start(files', game', Over(default_cfg, ToSet(Controls), Initial))
  BY Zenon DEF InForce, Start, ReadAllOptions
<1>10. PromisesKept'
  <2> SUFFICES ASSUME NEW q \in Owners
               PROVE  /\ promise'[q] \notin {NoFile, Removed, Unknown} => files'[q] = promise'[q] /\ Whole(promise'[q])
                      /\ promise'[q] \in {NoFile, Removed} => files'[q] = NoFile
                      /\ promise'[q] = NoFile => ghosts'[q] = NoFile
    BY DEF PromisesKept
  <2>1. ghosts'[q] = NoFile
    BY SaveFacts DEF NoGhosts
  <2>2. CASE q = o
    BY <1>1, <2>1, <2>2, SaveFacts
  <2>3. CASE q # o /\ q = game
    BY <2>1, <2>3, SaveFacts, FilesAssumption
  <2>4. CASE q # o /\ q # game
    <3>1. files'[q] = files[q] /\ promise'[q] = IF promise[q] = Removed THEN NoFile ELSE promise[q]
      BY <2>4, SaveFacts DEF Settle
    <3> QED BY <2>1, <3>1, FilesAssumption DEF PromisesKept
  <2> QED BY <2>2, <2>3, <2>4
<1> QED BY <1>7, <1>8, <1>9, <1>10, SaveFacts DEF OpenedIs, CleanIsInForce

----------------------------------------------------------------------------
(* Restoring.                                                                *)

LEMMA RestoreFacts ==
  ASSUME Types, Config_restore
  PROVE  /\ stage = "menu" /\ stage' = "menu" /\ game' = game /\ game \in Games
         /\ files' = [q \in Owners |-> IF loaded # "none" /\ q = InUse THEN NoFile ELSE files[q]]
         /\ ghosts' = [q \in Owners |-> IF loaded # "none" /\ q = InUse THEN files[InUse] ELSE ghosts[q]]
         /\ promise' = [q \in Owners |-> IF loaded # "none" /\ q = InUse THEN Removed ELSE promise[q]]
         /\ loaded' = Config_load(files', game) /\ InUse \in Owners
         /\ value' = Start(files', game, Defaults(value)) /\ changed' = TRUE
<1>1. value' = Start(files', game, Defaults(value))
  BY Zenon DEF Config_restore, Start, ReadAllOptions
<1>2. stage = "menu" /\ stage' = "menu" /\ game' = game /\ game \in Games /\ InUse \in Owners
  BY DEF Config_restore, Types, TypeOK, InUse, Owners
<1>3. /\ files' = [q \in Owners |-> IF loaded # "none" /\ q = InUse THEN NoFile ELSE files[q]]
      /\ ghosts' = [q \in Owners |-> IF loaded # "none" /\ q = InUse THEN files[InUse] ELSE ghosts[q]]
      /\ promise' = [q \in Owners |-> IF loaded # "none" /\ q = InUse THEN Removed ELSE promise[q]]
      /\ loaded' = Config_load(files', game)
  BY DEF Config_restore, Types
<1> QED BY <1>1, <1>2, <1>3 DEF Config_restore, RestoreTellsCore

LEMMA RestoreSteps ==
  ASSUME Types, PromisesKept, Config_restore
  PROVE  Types' /\ OpenedIs' /\ CleanIsInForce' /\ PromisesKept'
<1>1. \A q \in Owners : IsFile(files'[q]) /\ IsFile(ghosts'[q])
  BY RestoreFacts DEF Types, TypeOK, IsFile
<1>2. IsLines(user_cfg(files', game))
  BY <1>1, RestoreFacts, UserLines DEF Owners
<1>3. Whole(value')
  <2>1. Whole(ReadAllOptions(files', game, Defaults(value)))
    BY <1>2, DefaultsAreWhole, ReadAll
  <2> QED BY <1>2, <2>1, RestoreFacts, ReadControls DEF Start
<1>4. clean' \in BOOLEAN /\ changed' \in BOOLEAN /\ IsFile(seen')
  BY DEF Config_restore, RestoreTellsCore, Types, TypeOK
<1>5. changes' \in 0..MaxChanges /\ writes' \in 0..MaxWrites
  BY ConfigAssumption DEF Config_restore, Write, Types, TypeOK
<1>6. loaded' \in {"none", "console", "game"} /\ LoadedIsWhatIsThere'
  BY RestoreFacts DEF LoadedIsWhatIsThere, Config_load
<1>7. TypeOK'
  BY <1>1, <1>3, <1>4, <1>5, <1>6, RestoreFacts, WholeTypes DEF TypeOK
<1>8. Types'
  BY <1>3, <1>7, RestoreFacts DEF Types
<1>9. InForce(game)' = Start(files', game', Over(default_cfg, ToSet(Controls), Initial))
  BY Zenon DEF InForce, Start, ReadAllOptions
<1>10. value' = InForce(game)'
  BY <1>9, RestoreFacts, DefaultsAreWhole
<1>11. PromisesKept'
  <2> SUFFICES ASSUME NEW q \in Owners
               PROVE  /\ promise'[q] \notin {NoFile, Removed, Unknown} => files'[q] = promise'[q] /\ Whole(promise'[q])
                      /\ promise'[q] \in {NoFile, Removed} => files'[q] = NoFile
                      /\ promise'[q] = NoFile => ghosts'[q] = NoFile
    BY DEF PromisesKept
  <2>1. CASE loaded # "none" /\ q = InUse
    BY <2>1, RestoreFacts, FilesAssumption
  <2>2. CASE ~(loaded # "none" /\ q = InUse)
    BY <2>2, RestoreFacts DEF PromisesKept
  <2> QED BY <2>1, <2>2
<1> QED BY <1>8, <1>10, <1>11, RestoreFacts DEF OpenedIs, CleanIsInForce

----------------------------------------------------------------------------
(* The end of minarch, and power cuts.                                       *)

LEMMA EndSteps ==
  ASSUME Types, End, writes' \in 0..MaxWrites,
         files' = [o \in Owners |-> files'[o]], ghosts' = [o \in Owners |-> ghosts'[o]],
         promise' = [o \in Owners |-> promise'[o]],
         \A o \in Owners : IsFile(files'[o]) /\ IsFile(ghosts'[o])
  PROVE  Types' /\ OpenedIs' /\ CleanIsInForce' /\ ToldIs' /\ SeenIs'
<1>1. TypeOK'
  BY EndTypes, WholeTypes DEF TypeOK, LoadedIsWhatIsThere
<1>2. Types'
  BY <1>1, EndTypes DEF Types
<1>3. ToldIs'
  BY UntoldTypes DEF End, ToldIs, Running, Untold
<1> QED BY <1>2, <1>3, EndTypes DEF OpenedIs, CleanIsInForce, SeenIs, Running

\* A power cut, with the files f that are cut off or gone besides.
LEMMA CutPromises ==
  ASSUME Types, PromisesKept, NEW f, Back(f), ghosts' = NoGhosts, NEW lost \in SUBSET Owners,
         \A o \in Owners : IsFile(f[o]),
         \A o \in Owners \ lost : f[o] = files[o] /\ promise'[o] = Settle(promise, Unknown)[o],
         \A o \in lost : promise'[o] = Unknown \/
                         (promise'[o] = NoFile /\ promise[o] = NoFile /\ f[o] = NoFile)
  PROVE  PromisesKept'
<1> SUFFICES ASSUME NEW q \in Owners
             PROVE  /\ promise'[q] \notin {NoFile, Removed, Unknown} => files'[q] = promise'[q] /\ Whole(promise'[q])
                    /\ promise'[q] \in {NoFile, Removed} => files'[q] = NoFile
                    /\ promise'[q] = NoFile => ghosts'[q] = NoFile
  BY DEF PromisesKept
<1>1. ghosts'[q] = NoFile
  BY DEF NoGhosts
<1>2. f[q] # NoFile \/ ghosts[q] = NoFile => files'[q] = f[q]
  BY BackFiles DEF Types, TypeOK
<1>3. CASE q \in lost
  BY <1>1, <1>2, <1>3, FilesAssumption DEF PromisesKept
<1>4. CASE q \notin lost
  <2>1. f[q] = files[q] /\ promise'[q] = IF promise[q] = Removed THEN Unknown ELSE promise[q]
    BY <1>4 DEF Settle
  <2>2. CASE promise[q] \in {Removed, Unknown}
    BY <2>1, <2>2, FilesAssumption
  <2>3. CASE promise[q] = NoFile
    BY <1>1, <1>2, <2>1, <2>3, FilesAssumption DEF PromisesKept
  <2>4. CASE promise[q] \notin {NoFile, Removed, Unknown}
    <3>1. files[q] = promise[q] /\ Whole(promise[q])
      BY <2>4 DEF PromisesKept
    <3> QED BY <1>2, <2>1, <2>4, <3>1
  <2> QED BY <2>2, <2>3, <2>4
<1> QED BY <1>3, <1>4

LEMMA QuitSteps ==
  ASSUME Types, PromisesKept, Quit
  PROVE  Types' /\ OpenedIs' /\ CleanIsInForce' /\ PromisesKept' /\ ToldIs' /\ SeenIs'
<1>1. End /\ UNCHANGED <<files, ghosts, writes, promise>>
  BY DEF Quit
<1>2. PromisesKept'
  BY <1>1 DEF PromisesKept
<1> QED BY <1>1, <1>2, EndSteps DEF Types, TypeOK

LEMMA NoGhostsTypes ==
  ASSUME ghosts' = NoGhosts
  PROVE  ghosts' = [o \in Owners |-> ghosts'[o]] /\ \A o \in Owners : IsFile(ghosts'[o])
BY DEF NoGhosts, IsFile

LEMMA CutOffSteps ==
  ASSUME Types, PromisesKept, CutOff
  PROVE  Types' /\ OpenedIs' /\ CleanIsInForce' /\ PromisesKept' /\ ToldIs' /\ SeenIs'
<1>1. End /\ Back(files) /\ ghosts' = NoGhosts /\ promise' = Settle(promise, Unknown) /\ UNCHANGED writes
  BY DEF CutOff, PowerCut
<1>2. \A o \in Owners : IsFile(files[o]) /\ IsFile(ghosts[o])
  BY DEF Types, TypeOK
<1>3. PromisesKept'
  <2> DEFINE lost == {}
  <2>1. lost \in SUBSET Owners /\ \A o \in lost : FALSE
    OBVIOUS
  <2>2. \A o \in Owners \ lost : files[o] = files[o] /\ promise'[o] = Settle(promise, Unknown)[o]
    BY <1>1
  <2>3. \A o \in lost : promise'[o] = Unknown \/ (promise'[o] = NoFile /\ promise[o] = NoFile /\ files[o] = NoFile)
    BY <2>1
  <2> HIDE DEF lost
  <2> QED BY <1>1, <1>2, <2>1, <2>2, <2>3, CutPromises
<1>4. files' = [o \in Owners |-> files'[o]] /\ \A o \in Owners : IsFile(files'[o])
  BY <1>1, <1>2, BackFiles
<1>5. promise' = [o \in Owners |-> promise'[o]]
  BY <1>1, SettleFunction
<1> QED BY <1>1, <1>3, <1>4, <1>5, NoGhostsTypes, EndSteps DEF Types, TypeOK

LEMMA CutOffSaveSteps ==
  ASSUME Types, PromisesKept, NEW o \in Owners, CutOffSave(o)
  PROVE  Types' /\ OpenedIs' /\ CleanIsInForce' /\ PromisesKept' /\ ToldIs' /\ SeenIs'
<1>1. /\ End /\ Write /\ o \in {"console", game} /\ game \in Owners /\ ghosts' = NoGhosts
      /\ promise' = [Settle(promise, Unknown) EXCEPT ![game] = IF @ # NoFile THEN Unknown ELSE @, ![o] = Unknown]
  BY DEF CutOffSave, Types, TypeOK, Owners
<1>2. PICK n \in Cuts, f \in {files, Unlinked(o)} : Back([f EXCEPT ![o] = Prefix(n)])
  BY DEF CutOffSave
<1> DEFINE g == [f EXCEPT ![o] = Prefix(n)]
<1>3. /\ \A q \in Owners : IsFile(files[q]) /\ IsFile(ghosts[q])
      /\ IsFile(Prefix(n))
  BY PrefixIsFile DEF Types, TypeOK
<1>4. /\ \A q \in Owners \ {o} : g[q] = files[q] \/ (q = game /\ g[q] = NoFile)
      /\ g[o] = Prefix(n)
  BY <1>1, <1>2 DEF Unlinked, Types
<1>5. \A q \in Owners : IsFile(g[q])
  BY <1>3, <1>4 DEF IsFile
<1>6. promise' = [q \in Owners |-> IF q = o THEN Unknown
                   ELSE IF q = game /\ Settle(promise, Unknown)[q] # NoFile THEN Unknown
                   ELSE Settle(promise, Unknown)[q]]
  BY <1>1 DEF Settle
<1>7. PromisesKept'
  <2> DEFINE lost == {o, game}
  <2>1. \A q \in Owners \ lost : g[q] = files[q] /\ promise'[q] = Settle(promise, Unknown)[q]
    BY <1>4, <1>6
  <2>2. promise'[o] = Unknown
    BY <1>6
  <2>3. game # o => promise'[game] = Unknown \/
                     (promise'[game] = NoFile /\ promise[game] = NoFile /\ g[game] = NoFile)
    <3>1. promise[game] = NoFile => files[game] = NoFile
      BY <1>1 DEF PromisesKept
    <3> QED BY <1>1, <1>4, <1>6, <3>1, FilesAssumption DEF Settle
  <2>4. Back(g) /\ lost \in SUBSET Owners
    BY <1>1, <1>2
  <2>5. \A q \in lost : promise'[q] = Unknown \/ (promise'[q] = NoFile /\ promise[q] = NoFile /\ g[q] = NoFile)
    BY <2>2, <2>3
  <2> HIDE DEF g, lost
  <2> QED BY <1>1, <1>5, <2>1, <2>2, <2>3, <2>4, <2>5, CutPromises
<1>8. files' = [q \in Owners |-> files'[q]] /\ \A q \in Owners : IsFile(files'[q])
  BY <1>2, <1>3, <1>5, BackFiles
<1>9. promise' = [q \in Owners |-> promise'[q]]
  BY <1>6
<1>10. writes' \in 0..MaxWrites
  BY <1>1, ConfigAssumption DEF Write, Types, TypeOK
<1> QED BY <1>1, <1>7, <1>8, <1>9, <1>10, NoGhostsTypes, EndSteps

----------------------------------------------------------------------------
(* What the screen, the CPU and the port are told.                           *)

Told == [scaling : Nat, effect : Nat, sharpness : Nat, speed : Int, device : Nat]
Sharpness(v) == IF v["scaling"] = Native THEN 0 ELSE v["sharpness"]

LEMMA WholeValues ==
  ASSUME NEW v, Whole(v)
  PROVE  /\ v["scaling"] \in Nat /\ v["effect"] \in Nat /\ v["sharpness"] \in Nat
         /\ v["speed"] \in Nat /\ v["gamepad"] \in Nat /\ Sharpness(v) \in Nat
BY KeysAre DEF Whole, Names, Sharpness

\* How u differs from t once the screen was told of the value of k.
Tells(u, t, k, v) ==
  /\ u \in Told /\ u.speed = t.speed /\ u.device = t.device
  /\ u.effect = IF k = "effect" THEN v["effect"] ELSE t.effect
  /\ u.scaling = IF k \in {"scaling", "sharpness"} THEN v["scaling"] ELSE t.scaling
  /\ u.sharpness = IF k \in {"scaling", "sharpness"} THEN Sharpness(v) ELSE t.sharpness

LEMMA SyncFrontendIs ==
  ASSUME NEW t \in Told, NEW v, Whole(v), NEW k \in {"scaling", "effect", "sharpness"}
  PROVE  Tells(Config_syncFrontend(t, k, v), t, k, v)
<1>1. CASE k = "effect"
  <2>1. Config_syncFrontend(t, k, v) = [t EXCEPT !.effect = v["effect"]]
    BY <1>1 DEF Config_syncFrontend
  <2> QED BY <1>1, <2>1, WholeValues DEF Tells, Told
<1>2. CASE k \in {"scaling", "sharpness"}
  <2>1. Config_syncFrontend(t, k, v) = [t EXCEPT !.scaling = v["scaling"], !.sharpness = Sharpness(v)]
    BY <1>2 DEF Config_syncFrontend, Sharpness
  <2> QED BY <1>2, <2>1, WholeValues DEF Tells, Told
<1> QED BY <1>1, <1>2

LEMMA SyncedLineIs ==
  ASSUME NEW t \in Told, NEW ks, NEW v, Whole(v), NEW k \in {"scaling", "effect", "sharpness"}
  PROVE  IF k \in ks THEN Tells(SyncedLine(t, k, ks, v), t, k, v) ELSE SyncedLine(t, k, ks, v) = t
BY SyncFrontendIs DEF SyncedLine

(* Telling of any set of keys: the sharpness goes with the scaling.          *)
LEMMA SyncedIs ==
  ASSUME NEW t \in Told, NEW ks, NEW v, Whole(v)
  PROVE  /\ Synced(t, ks, v) \in Told
         /\ Synced(t, ks, v).speed = t.speed
         /\ Synced(t, ks, v).device = IF "gamepad" \in ks THEN v["gamepad"] ELSE t.device
         /\ Synced(t, ks, v).effect = IF "effect" \in ks THEN v["effect"] ELSE t.effect
         /\ Synced(t, ks, v).scaling = IF "scaling" \in ks \/ "sharpness" \in ks THEN v["scaling"] ELSE t.scaling
         /\ Synced(t, ks, v).sharpness = IF "scaling" \in ks \/ "sharpness" \in ks THEN Sharpness(v) ELSE t.sharpness
<1> DEFINE scaling == SyncedLine(t, "scaling", ks, v)
           effect == SyncedLine(scaling, "effect", ks, v)
           sharpness == SyncedLine(effect, "sharpness", ks, v)
           synced == IF "gamepad" \in ks THEN [sharpness EXCEPT !.device = v["gamepad"]] ELSE sharpness
<1>1. scaling \in Told /\ IF "scaling" \in ks THEN Tells(scaling, t, "scaling", v) ELSE scaling = t
  BY SyncedLineIs DEF Tells
<1> HIDE DEF scaling
<1>2. effect \in Told /\ IF "effect" \in ks THEN Tells(effect, scaling, "effect", v) ELSE effect = scaling
  BY <1>1, SyncedLineIs DEF Tells
<1> HIDE DEF effect
<1>3. sharpness \in Told
      /\ IF "sharpness" \in ks THEN Tells(sharpness, effect, "sharpness", v) ELSE sharpness = effect
  BY <1>2, SyncedLineIs DEF Tells
<1> HIDE DEF sharpness
<1>4. /\ synced \in Told /\ synced.speed = sharpness.speed /\ synced.effect = sharpness.effect
      /\ synced.scaling = sharpness.scaling /\ synced.sharpness = sharpness.sharpness
      /\ synced.device = IF "gamepad" \in ks THEN v["gamepad"] ELSE sharpness.device
  BY <1>3, WholeValues DEF Told
<1>5. Synced(t, ks, v) = synced
  BY DEF Synced, synced, sharpness, effect, scaling
<1> HIDE DEF synced
<1>6. /\ synced.speed = t.speed
      /\ synced.device = IF "gamepad" \in ks THEN v["gamepad"] ELSE t.device
      /\ synced.effect = IF "effect" \in ks THEN v["effect"] ELSE t.effect
  BY <1>1, <1>2, <1>3, <1>4 DEF Tells
<1>7. /\ synced.scaling = IF "scaling" \in ks \/ "sharpness" \in ks THEN v["scaling"] ELSE t.scaling
      /\ synced.sharpness = IF "scaling" \in ks \/ "sharpness" \in ks THEN Sharpness(v) ELSE t.sharpness
  BY <1>1, <1>2, <1>3, <1>4 DEF Tells
<1> QED BY <1>4, <1>5, <1>6, <1>7

\* What has to be told of values v.
Agrees(t, v) == t \in Told /\ t.scaling = v["scaling"] /\ t.sharpness = Sharpness(v)

LEMMA ToldIsAgrees ==
  /\ ToldIs /\ stage # "off" => Agrees(told, value)
  /\ ToldIs => told \in Told
BY DEF ToldIs, Agrees, Told, Sharpness

\* Where the keys that are told are those with a new value.
LEMMA SyncedAgrees ==
  ASSUME NEW t, NEW v, Agrees(t, v), NEW ks, NEW w, Whole(w),
         \A k \in {"scaling", "sharpness"} \ ks : w[k] = v[k]
  PROVE  Agrees(Synced(t, ks, w), w)
<1>1. t \in Told
  BY DEF Agrees
<1> QED BY <1>1, SyncedIs DEF Agrees, Sharpness

LEMMA OpenTells ==
  ASSUME Types, ToldIs, NEW g \in Games, Open(g)
  PROVE  ToldIs' /\ SeenIs'
<1>1. PICK early \in BOOLEAN :
        /\ value' = Config_readOptions(files, g, Defaults(value), early)
        /\ told' = [Synced(told, LinesRead(files, g, early), value') EXCEPT !.speed = value'["speed"]]
  BY DEF Open
<1> DEFINE ks == LinesRead(files, g, early)
           synced == Synced(told, ks, value')
<1>2. IsLines(user_cfg(files, g))
  BY UserLinesNow
<1>3. /\ Whole(value')
      /\ \A k \in Keys : value'[k] = IF k \in ks THEN Layered(files, g, k) ELSE Defaults(value)[k]
  BY <1>1, <1>2, DefaultsAreWhole, ReadOptions
<1>4. told \in Told /\ told = Untold
  BY DEF Open, ToldIs, Told
<1>5. /\ {"scaling", "effect", "sharpness"} \subseteq Keys \ ToSet(Controls)
      /\ \A k \in {"scaling", "effect", "sharpness"} \ ks : value'[k] = Initial[k]
  BY <1>3, KeysAre, KindsAre, DefaultsAreWhole DEF Names
<1>6. told.scaling = Initial["scaling"] /\ told.effect = Initial["effect"]
      /\ told.sharpness = Initial["sharpness"] /\ Initial["scaling"] # Native
  BY <1>4, UntoldTypes
<1>7. Agrees(told, Initial)
  BY <1>4, <1>6 DEF Agrees, Sharpness
<1> HIDE DEF ks
<1>8. Agrees(synced, value')
  BY <1>3, <1>5, <1>7, SyncedAgrees
<1>9. synced.effect = value'["effect"]
  BY <1>3, <1>4, <1>5, <1>6, SyncedIs
<1>10. told' = [synced EXCEPT !.speed = value'["speed"]]
  BY <1>1 DEF ks
<1> HIDE DEF synced
<1>11. Agrees(told', value') /\ told'.effect = value'["effect"] /\ told'.speed = value'["speed"]
  BY <1>3, <1>8, <1>9, <1>10, WholeValues DEF Agrees, Told
<1>12. stage' = "open"
  BY DEF Open
<1>13. ToldIs'
  BY <1>11, <1>12 DEF ToldIs, Agrees, Told, Sharpness, Running
<1> QED BY <1>12, <1>13 DEF SeenIs, Running

LEMMA LoadTells ==
  ASSUME Types, OpenedIs, ToldIs, Load
  PROVE  ToldIs' /\ SeenIs'
<1>1. PICK v :
        /\ Whole(v) /\ \A k \in Keys \ ToSet(Core) : v[k] = value[k]
        /\ seen' = [k \in ToSet(Core) |-> v[k]]
        /\ value' = Start(files, game, v) /\ Whole(value')
  BY LoadFacts
<1>2. game \in Games /\ stage = "open" /\ stage' = "game" /\ IsLines(user_cfg(files, game))
  BY UserLinesNow DEF Load, Types, TypeOK
<1> DEFINE ks == AllLines(files, game)
           a == ReadAllOptions(files, game, v)
           t == [told EXCEPT !.device = 0]
           synced == Synced(t, ks, value')
<1>3. Whole(a) /\ \A k \in Keys : a[k] = IF k \in ks THEN Layered(files, game, k) ELSE v[k]
  BY <1>1, <1>2, ReadAll
<1> HIDE DEF a
<1>4. \A k \in Keys \ Bindings : value'[k] = a[k]
  BY <1>1, <1>2, <1>3, ReadControls DEF Start, a
<1>5. \A k \in Keys \ Bindings : value'[k] = IF k \in ks THEN Layered(files, game, k) ELSE v[k]
  BY <1>3, <1>4
<1>6. PICK early \in BOOLEAN : value = Config_readOptions(files, game, Defaults(value), early)
  BY <1>2 DEF OpenedIs
<1>7. \A k \in Keys : value[k] = IF k \in LinesRead(files, game, early) THEN Layered(files, game, k) ELSE Defaults(value)[k]
  BY <1>2, <1>6, DefaultsAreWhole, ReadOptions
<1>8. \A k \in ks \ ToSet(Core) : k \in LinesRead(files, game, early)
  BY OptionsGrow
<1>9. LinesRead(files, game, early) \subseteq ks
  BY OptionsGrow
<1> HIDE DEF ks
<1>10. \A k \in Keys \ (Bindings \cup ToSet(Core)) : value'[k] = value[k]
  BY <1>1, <1>5, <1>7, <1>8
<1>11. {"scaling", "effect", "sharpness", "speed", "gamepad"} \subseteq Keys \ (Bindings \cup ToSet(Core))
  BY KeysAre, KindsAre DEF Names
<1>12. told' = synced
  BY Zenon DEF Load, synced, t, ks, AllLines
<1>13. Agrees(told, value) /\ told.effect = value["effect"] /\ told.speed = value["speed"] /\ told \in Told
  BY <1>2, ToldIsAgrees DEF ToldIs
<1>14. t \in Told /\ Agrees(t, value) /\ t.effect = told.effect /\ t.speed = told.speed /\ t.device = 0
  BY <1>13 DEF Agrees, Told
<1> HIDE DEF t, synced
<1>15. Agrees(synced, value')
  BY <1>1, <1>10, <1>11, <1>14, SyncedAgrees DEF synced
<1>16. /\ synced.effect = value'["effect"] /\ synced.speed = value'["speed"]
       /\ synced.device = IF "gamepad" \in ks THEN value'["gamepad"] ELSE 0
  BY <1>1, <1>10, <1>11, <1>13, <1>14, SyncedIs DEF synced
<1>17. "gamepad" \notin ks => value'["gamepad"] = 0
  <2>1. "gamepad" \in Keys \ ToSet(Controls) /\ Initial["gamepad"] = 0
    BY KeysAre, KindsAre, ConfigAssumption DEF Names
  <2> QED BY <1>7, <1>9, <1>10, <1>11, <2>1, DefaultsAreWhole
<1>18. ToldIs'
  BY <1>2, <1>12, <1>15, <1>16, <1>17 DEF ToldIs, Agrees, Told, Sharpness, Running
<1>19. SeenIs'
  <2> SUFFICES ASSUME ~changed', NEW k \in ToSet(Core) PROVE seen'[k] = value'[k]
    BY DEF SeenIs
  <2>1. k \in Keys \ Bindings
    BY KeysAre, KindsAre DEF Names
  <2>2. k \notin ks
    BY Zenon DEF Load, ReadSetsChanged, ks, AllLines
  <2> QED BY <1>1, <1>5, <2>1, <2>2
<1> QED BY <1>18, <1>19

LEMMA PlaysTells ==
  ASSUME Types, ToldIs, SeenIs, Plays
  PROVE  ToldIs' /\ SeenIs'
<1>1. Running /\ stage' \in {"game", "menu"} /\ Whole(value') /\ Whole(value)
  BY PlaysFacts DEF Types
<1>2. Agrees(told, value) /\ told \in Told /\ told.device = value["gamepad"]
  BY <1>1, ToldIsAgrees DEF ToldIs, Running
<1>3. {"scaling", "effect", "sharpness", "speed", "gamepad"} \subseteq Keys \ ToSet(Core)
      /\ ToSet(Core) \subseteq Keys
  BY KeysAre, KindsAre DEF Names
<1> DEFINE AsGame == told'.effect = value'["effect"] /\ told'.speed = value'["speed"]
           Goal == /\ Agrees(told', value') /\ told'.device = value'["gamepad"]
                   /\ stage' = "game" => AsGame
<1>4. Goal => ToldIs'
  BY <1>1 DEF ToldIs, Agrees, Told, Sharpness, Running
<1>5. ASSUME NEW shortcut, NEW k \in {"scaling", "effect"}, Cycle(shortcut, k)
      PROVE  Goal /\ SeenIs'
  <2>1. /\ stage = "game" /\ stage' = "game" /\ told' = Config_syncFrontend(told, k, value')
        /\ UNCHANGED <<changed, seen>>
    BY <1>5 DEF Cycle
  <2>2. PICK v \in 0..(Count[k] - 1) : value' = [value EXCEPT ![k] = v]
    BY <1>5, CycleSets
  <2>3. \A q \in Keys \ {k} : value'[q] = value[q]
    BY <1>1, <2>2 DEF Whole
  <2>4. told.effect = value["effect"] /\ told.speed = value["speed"]
    BY <2>1 DEF ToldIs
  <2>5. Tells(told', told, k, value')
    BY <1>1, <1>2, <2>1, SyncFrontendIs
  <2>6. Goal
    BY <1>2, <1>3, <2>3, <2>4, <2>5 DEF Tells, Agrees, Sharpness
  <2>7. SeenIs'
    BY <1>1, <1>3, <2>1, <2>3 DEF SeenIs, Running
  <2> QED BY <2>6, <2>7
<1>6. ASSUME NEW c \in ToSet(Core), CoreSets(c)
      PROVE  Goal /\ SeenIs'
  <2>1. PICK v \in 0..(Count[c] - 1) : value' = [value EXCEPT ![c] = v]
    BY <1>6 DEF CoreSets
  <2>2. \A q \in Keys \ {c} : value'[q] = value[q]
    BY <1>1, <2>1 DEF Whole
  <2>3. stage = "game" /\ stage' = "game" /\ changed' = TRUE /\ UNCHANGED told
    BY <1>6 DEF CoreSets
  <2>4. Goal
    BY <1>2, <1>3, <2>2, <2>3 DEF Agrees, Sharpness, ToldIs
  <2> QED BY <2>3, <2>4 DEF SeenIs
<1>7. CASE Lists
  <2>1. PICK k \in Keys : \E v \in 0..(Count[k] - 1) :
          Set(k, v) /\ ((changed' = changed /\ k \notin ToSet(Core)) \/ changed' = TRUE)
    BY <1>1, <1>7, ListsSet
  <2>2. PICK v \in 0..(Count[k] - 1) : Set(k, v)
    BY <2>1
  <2>3. /\ stage = "menu" /\ stage' = "menu" /\ value' = [value EXCEPT ![k] = v]
        /\ told' = Synced(told, {k}, value') /\ UNCHANGED seen
    BY <2>2 DEF Set
  <2>4. \A q \in Keys \ {k} : value'[q] = value[q]
    BY <1>1, <2>3 DEF Whole
  <2>5. \A q \in {"scaling", "sharpness", "gamepad"} \ {k} : value'[q] = value[q]
    BY <1>3, <2>4
  <2> DEFINE ks == {k}
  <2>6. told' = Synced(told, ks, value')
    BY <2>3
  <2>7. /\ \A q \in {"scaling", "sharpness"} \ ks : value'[q] = value[q]
        /\ "gamepad" \notin ks => value'["gamepad"] = value["gamepad"]
    BY <2>5
  <2> HIDE DEF ks
  <2>8. Agrees(Synced(told, ks, value'), value')
    BY <1>1, <1>2, <2>7, SyncedAgrees
  <2>9. Synced(told, ks, value').device = value'["gamepad"]
    BY <1>1, <1>2, <2>7, SyncedIs
  <2>10. Goal
    BY <2>3, <2>6, <2>8, <2>9
  <2>11. SeenIs'
    <3>1. CASE changed' = TRUE
      BY <3>1 DEF SeenIs
    <3>2. CASE changed' = changed /\ k \notin ToSet(Core)
      BY <1>1, <1>3, <2>3, <2>4, <3>2 DEF SeenIs, Running
    <3> QED BY <2>1, <3>1, <3>2
  <2> QED BY <1>4, <2>10, <2>11
<1>8. CASE CoreRun
  <2>1. Goal
    BY <1>2, <1>8 DEF CoreRun, ToldIs, Agrees
  <2>2. SeenIs'
    BY <1>8 DEF CoreRun, SeenIs
  <2> QED BY <1>4, <2>1, <2>2
<1>9. CASE OpenMenu \/ Sleep \/ Leave
  <2>1. UNCHANGED <<value, changed, seen>>
    BY <1>9 DEF OpenMenu, Sleep, Leave
  <2>2. SeenIs'
    BY <1>1, <2>1 DEF SeenIs
  <2>3. value["effect"] \in Nat /\ value["speed"] \in Nat
    BY <1>1, WholeValues
  <2>4. CASE OpenMenu
    <3>1. stage' = "menu" /\ told' = [told EXCEPT !.effect = 0, !.speed = MenuSpeed]
      BY <2>4 DEF OpenMenu
    <3>2. told \in Told /\ MenuSpeed \in Int
      BY <1>2 DEF MenuSpeed
    <3>3. /\ told' \in Told /\ told'.scaling = told.scaling /\ told'.sharpness = told.sharpness
          /\ told'.device = told.device
      BY <3>1, <3>2 DEF Told
    <3>4. Goal
      BY <1>2, <2>1, <3>1, <3>3 DEF Agrees, Sharpness
    <3> QED BY <1>4, <2>2, <3>4
  <2>5. CASE Sleep
    <3>1. stage' = stage /\ told' = [told EXCEPT !.speed = value["speed"]]
      BY <2>5 DEF Sleep
    <3>2. stage = "game" => told.effect = value["effect"]
      BY DEF ToldIs
    <3>3. Goal
      BY <1>2, <2>1, <2>3, <3>1, <3>2 DEF Agrees, Told, Sharpness
    <3> QED BY <1>4, <2>2, <3>3
  <2>6. CASE Leave
    <3>1. told' = [told EXCEPT !.effect = value["effect"], !.speed = value["speed"]]
      BY <2>6 DEF Leave
    <3> DEFINE e == value["effect"]
               n == value["speed"]
    <3>2. told \in Told /\ e \in Nat /\ n \in Int
      BY <1>2, <2>3
    <3>3. told' = [told EXCEPT !.effect = e, !.speed = n]
      BY <3>1
    <3> HIDE DEF e, n
    <3>4. /\ told' \in Told /\ told'.scaling = told.scaling /\ told'.sharpness = told.sharpness
          /\ told'.device = told.device /\ told'.effect = e /\ told'.speed = n
      BY <3>2, <3>3 DEF Told
    <3>5. Goal
      BY <1>2, <2>1, <3>4 DEF Agrees, Sharpness, e, n
    <3> QED BY <1>4, <2>2, <3>5
  <2> QED BY <1>9, <2>4, <2>5, <2>6
<1> QED BY <1>4, <1>5, <1>6, <1>7, <1>8, <1>9 DEF Plays

LEMMA SaveTells ==
  ASSUME ToldIs, SeenIs, NEW o \in Owners, Save(o)
  PROVE  ToldIs' /\ SeenIs'
BY DEF Save, ToldIs, SeenIs, Running, Untold

LEMMA RestoreTells ==
  ASSUME Types, ToldIs, Config_restore, Whole(value'), IsLines(user_cfg(files', game))
  PROVE  ToldIs' /\ SeenIs'
<1> DEFINE ks == AllLines(files', game)
           d == Defaults(value)
           t == [told EXCEPT !.device = 0]
           defaults == Synced(t, ToSet(Frontend), d)
           synced == Synced(defaults, ks, value')
           a == ReadAllOptions(files', game, d)
<1>1. stage = "menu" /\ stage' = "menu" /\ changed' = TRUE /\ value' = Start(files', game, d)
  BY RestoreFacts
<1>2. told' = synced
  BY Zenon DEF Config_restore, synced, defaults, t, d, ks, AllLines
<1>3. /\ Whole(d) /\ Initial["gamepad"] = 0
      /\ \A k \in Keys \ ToSet(Controls) : d[k] = Initial[k]
  BY DefaultsAreWhole, ConfigAssumption
<1> HIDE DEF d
<1>4. Whole(a) /\ \A k \in Keys : a[k] = IF k \in ks THEN Layered(files', game, k) ELSE d[k]
  BY <1>3, ReadAll
<1> HIDE DEF a, ks
<1>5. \A k \in (Keys \ Bindings) \ ks : value'[k] = d[k]
  BY <1>1, <1>4, ReadControls DEF Start, a
<1>6. told \in Told
  BY ToldIsAgrees
<1>7. t \in Told /\ t.device = 0
  BY <1>6 DEF Told
<1> HIDE DEF t
<1>8. Agrees(defaults, d) /\ defaults \in Told /\ defaults.device = 0
  <2>1. "scaling" \in ToSet(Frontend) /\ "gamepad" \notin ToSet(Frontend)
    BY KindsAre
  <2> QED BY <1>3, <1>7, <2>1, SyncedIs DEF Agrees
<1> HIDE DEF defaults
<1>9. {"scaling", "sharpness", "gamepad"} \subseteq (Keys \ Bindings) \ ToSet(Controls)
  BY KeysAre, KindsAre DEF Names
<1>10. Agrees(synced, value')
  BY <1>5, <1>8, <1>9, SyncedAgrees
<1>11. synced.device = value'["gamepad"]
  BY <1>3, <1>5, <1>8, <1>9, SyncedIs
<1> HIDE DEF synced
<1>12. ToldIs'
  BY <1>1, <1>2, <1>10, <1>11 DEF ToldIs, Agrees, Told, Sharpness, Running
<1> QED BY <1>1, <1>12 DEF SeenIs

----------------------------------------------------------------------------
(* The theorems.                                                             *)

LEMMA NextIInv == IInv /\ [Next]_vars => IInv'
<1> SUFFICES ASSUME IInv, [Next]_vars PROVE IInv'
  OBVIOUS
<1> USE DEF IInv
<1>1. ASSUME NEW g \in Games, Open(g) PROVE IInv'
  <2>1. CleanIsInForce' /\ PromisesKept'
    BY <1>1 DEF Open, CleanIsInForce, Running, PromisesKept
  <2> QED BY <1>1, <2>1, OpenTypes, OpenTells
<1>2. CASE Load
  <2>1. PromisesKept'
    BY <1>2 DEF Load, PromisesKept
  <2> QED BY <1>2, <2>1, LoadTypes, LoadTells
<1>3. CASE Plays
  <2>1. PromisesKept'
    BY <1>3, PlaysFacts DEF PromisesKept
  <2> QED BY <1>3, <2>1, PlaysTypes, PlaysTells
<1>4. ASSUME NEW o \in Owners, Save(o) PROVE IInv'
  BY <1>4, SaveSteps, SaveTells
<1>5. CASE Config_restore
  <2>1. Types' /\ OpenedIs' /\ CleanIsInForce' /\ PromisesKept'
    BY <1>5, RestoreSteps
  <2>2. Whole(value') /\ IsFile(files'["console"]) /\ IsFile(files'[game]) /\ game' = game
    BY <1>5, <2>1, RestoreFacts DEF Types, TypeOK, Owners
  <2>3. IsLines(user_cfg(files', game))
    BY <2>2, UserLines
  <2> QED BY <1>5, <2>1, <2>2, <2>3, RestoreTells
<1>6. CASE Quit
  BY <1>6, QuitSteps
<1>7. CASE CutOff
  BY <1>7, CutOffSteps
<1>8. ASSUME NEW o \in Owners, CutOffSave(o) PROVE IInv'
  BY <1>8, CutOffSaveSteps
<1>9. CASE UNCHANGED vars
  <2>1. InForce(game)' = InForce(game)
    BY <1>9, InForceStays DEF vars
  <2>2. OpenedIs'
    BY <1>9 DEF vars, OpenedIs, Config_readOptions, user_cfg, Defaults
  <2>3. Types'
    BY <1>9 DEF vars, Types, TypeOK, LoadedIsWhatIsThere, Config_load
  <2>4. CleanIsInForce' /\ PromisesKept' /\ ToldIs' /\ SeenIs'
    BY <1>9, <2>1 DEF vars, CleanIsInForce, PromisesKept, ToldIs, SeenIs, Running, Untold
  <2> QED BY <2>2, <2>3, <2>4
<1> QED BY <1>1, <1>2, <1>3, <1>4, <1>5, <1>6, <1>7, <1>8, <1>9 DEF Next, Plays, Lists

(* The inductive invariant holds in every state.                             *)
THEOREM ConfigInvariant == Spec => []IInv
BY InitIInv, NextIInv, PTL DEF Spec

(* TypeOK: values stay among their option's, and config.loaded is the file   *)
(* in use (Config_load, Config_write, Config_restore).                       *)
THEOREM ConfigTypeCorrect == Spec => []TypeOK
<1>1. IInv => TypeOK
  BY DEF IInv, Types
<1> QED BY <1>1, ConfigInvariant, PTL

(* CleanIsInForce: after a start, a save or a restore the values are those   *)
(* that the next start would read (Config_readOptions, Config_readControls). *)
THEOREM RestoringIsStarting == Spec => []CleanIsInForce
<1>1. IInv => CleanIsInForce
  BY DEF IInv
<1> QED BY <1>1, ConfigInvariant, PTL

(* SavedComesBack: what was completely saved is what the next start reads,   *)
(* whatever power cuts follow (Config_write, Config_restore).                *)
THEOREM SavesComeBack == Spec => []SavedComesBack
<1>1. IInv => SavedComesBack
  <2> SUFFICES ASSUME IInv, NEW g \in Games, NEW wanted,
                      wanted = IF promise[g] \in {NoFile, Removed} THEN promise["console"] ELSE promise[g],
                      wanted \notin {NoFile, Removed, Unknown}
               PROVE  InForce(g) = wanted
    BY DEF SavedComesBack
  <2>1. g \in Owners /\ "console" \in Owners /\ PromisesKept
    BY DEF IInv, Owners
  <2>2. Whole(wanted) /\ user_cfg(files, g) = wanted
    <3>1. CASE promise[g] \in {NoFile, Removed}
      <4>1. files[g] = NoFile /\ files["console"] = wanted /\ Whole(wanted)
        BY <2>1, <3>1 DEF PromisesKept
      <4> QED BY <4>1, WholeIsSaved DEF user_cfg
    <3>2. CASE promise[g] \notin {NoFile, Removed}
      <4>1. files[g] = wanted /\ Whole(wanted)
        BY <2>1, <3>2 DEF PromisesKept
      <4> QED BY <4>1, WholeIsSaved DEF user_cfg
    <3> QED BY <3>1, <3>2
  <2>3. InForce(g) = Start(files, g, Over(default_cfg, ToSet(Controls), Initial))
    BY Zenon DEF InForce, Start, ReadAllOptions
  <2> QED BY <2>2, <2>3, WholeFileComesBack
<1> QED BY <1>1, ConfigInvariant, PTL

(* AppliedIsSet: in the game screen, CPU and port are what is set, and the   *)
(* core knows its options or will be told (Config_syncFrontend, Menu_loop,   *)
(* environment_callback).                                                    *)
THEOREM SettingsAreApplied == Spec => []AppliedIsSet
<1>1. IInv => AppliedIsSet
  <2> SUFFICES ASSUME IInv PROVE AppliedIsSet
    OBVIOUS
  <2>1. ToldIs /\ SeenIs
    BY DEF IInv
  <2>2. stage = "game" =>
          told = [scaling |-> value["scaling"], effect |-> value["effect"],
                  speed |-> value["speed"], device |-> value["gamepad"],
                  sharpness |-> IF value["scaling"] = Native THEN 0 ELSE value["sharpness"]]
    BY <2>1 DEF ToldIs, Running
  <2> QED BY <2>1, <2>2 DEF AppliedIsSet, SeenIs
<1> QED BY <1>1, ConfigInvariant, PTL
=============================================================================
