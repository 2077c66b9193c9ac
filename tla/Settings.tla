------------------------------ MODULE Settings ------------------------------
(* Brightness, volume and the state of the ports in shared memory, as        *)
(* msettings.c keeps them, and keymon.c, which follows keys and ports.       *)
(*                                                                           *)
(* keymon creates the memory and fills it from msettings.bin; its main loop  *)
(* follows the keys, a second thread the ports.  A program (minui, minarch,  *)
(* a tool) attaches, sets everything once more, and does so again after it   *)
(* slept.  Nothing is locked: each process works through the reads, checks,  *)
(* writes and saves of its calls (`todo') between those of the others.       *)
(*                                                                           *)
(* What differs between the devices is a record per library and per keymon.  *)
(* Raw levels (the driver's) are left out: nothing reads them back.          *)
EXTENDS Integers, Sequences

CONSTANTS Platforms,       \* the devices to look at, of DOMAIN msettings
          Clients,         \* the programs that start after keymon
          VOLUME_MAX, BRIGHTNESS_MAX,
          MaxEvents        \* bound, for each device: keys, plugs and sleeps

ASSUME LevelsAssumption == VOLUME_MAX \in Nat \ {0} /\ BRIGHTNESS_MAX \in Nat \ {0}
ASSUME BoundAssumption == \A p \in Platforms : MaxEvents[p] \in Nat
ASSUME ClientsAssumption == "keymon" \notin Clients /\ "watch" \notin Clients

VARIABLES platform, \* the device
          shm,      \* the shared memory
          file,     \* what a host would make of msettings.bin
          todo,     \* what is left of the call each process is in
          val,      \* the level it has read
          run,      \* "off", "run" or "asleep", of each process
          pressed, just,   \* keymon: the keys' last values, and those not yet acted on
          kpc,      \* keymon's loop: "read", "up", "down", "top", "off"
          ignore, slept,   \* input from a sleep is ignored; keymon has been stopped
          lr,       \* repeat_LR: every other repeat counts (event loop)
          had,      \* the watch thread: what each port was when it last looked
          doubted,  \* the watched ports of which somebody has an outdated look (history)
          q,        \* input events keymon has not read
          held,     \* the keys that are down
          ports,    \* what is plugged in
          events    \* how much has happened, for the bound

kvars == <<pressed, just, kpc, ignore, slept, lr>>
seen == <<had, doubted>>
world == <<q, held, ports, events>>
vars == <<platform, shm, file, todo, val, run, kvars, seen, world>>

Procs == {"keymon", "watch"} \cup Clients
Keys == {"PLUS", "MINUS", "MENU", "START", "SELECT", "POWER", "VOLUME"}
Ports == {"jack", "hdmi", "mute"}
Levels == {"brightness", "headphones", "speaker"}

-----------------------------------------------------------------------------
(* The libraries: the flags Set* stores, those that make SetVolume (guard)   *)
(* and SetBrightness (shade) return early, what InitSettings sets, and what  *)
(* the host clears.                                                          *)

rg35xxplus_settings ==
  [sets |-> {"jack", "hdmi"}, guard |-> {"hdmi"}, shade |-> {"hdmi"}, fresh |-> {},
   opens |-> <<"jack", "hdmi", "brightness">>]
rgb30_settings ==
  [sets |-> {"jack", "hdmi"}, guard |-> {"hdmi"}, shade |-> {"hdmi"}, fresh |-> {},
   opens |-> <<"jack", "hdmi", "brightness">>]
my355_settings ==
  [sets |-> {"jack", "hdmi"}, guard |-> {"hdmi"}, shade |-> {"hdmi"}, fresh |-> {},
   opens |-> <<"jack", "hdmi", "volume", "brightness">>]
gkdpixel_settings ==
  [sets |-> {"jack", "hdmi"}, guard |-> {"hdmi"}, shade |-> {"hdmi"}, fresh |-> {},
   opens |-> <<"brightness">>]
my282_settings ==
  [sets |-> {"jack"}, guard |-> {"hdmi"}, shade |-> {"hdmi"}, fresh |-> {},
   opens |-> <<"volume", "brightness">>]
magicmini_settings ==
  [sets |-> {"jack"}, guard |-> {"hdmi"}, shade |-> {"hdmi"}, fresh |-> {},
   opens |-> <<"volume", "brightness">>]
rg35xx_settings ==
  [sets |-> {"jack"}, guard |-> {}, shade |-> {}, fresh |-> {},
   opens |-> <<"volume", "brightness">>]
m17_settings ==
  [sets |-> {"jack"}, guard |-> {}, shade |-> {}, fresh |-> {},
   opens |-> <<"volume", "brightness">>]
trimuismart_settings ==
  [sets |-> {"jack"}, guard |-> {}, shade |-> {}, fresh |-> {},
   opens |-> <<"volume", "brightness">>]
miyoomini_settings ==
  [sets |-> {}, guard |-> {}, shade |-> {}, fresh |-> {},
   opens |-> <<"volume", "brightness">>]
tg5040_settings ==
  [sets |-> {"jack", "mute"}, guard |-> {"mute"}, shade |-> {}, fresh |-> {"mute"},
   opens |-> <<"volume", "brightness">>]
zero28_settings ==
  [sets |-> {"jack", "mute"}, guard |-> {"mute"}, shade |-> {}, fresh |-> {"mute"},
   opens |-> <<"volume", "brightness">>]

(* The keymons: the modifiers that make a key mean brightness and volume     *)
(* ("" when none is needed), whether sleep's input is ignored, the ports the *)
(* thread watches (blind: set once from a variable nobody has written), the  *)
(* switches that come as input, whether keys are read one by one, whether    *)
(* the device's own volume keys set the volume again, and whether SELECT     *)
(* without START means volume whatever else is down.                         *)
Keymon(bri, vol, watches) ==
  [bri |-> bri, vol |-> vol, watches |-> watches, ignores |-> TRUE, blind |-> {},
   switches |-> {}, events |-> FALSE, again |-> FALSE, select |-> FALSE]

rg35xxplus_keymon == Keymon("MENU", "", <<"hdmi">>)
rgb30_keymon == Keymon("MENU", "", <<"jack", "hdmi">>)
my355_keymon == [Keymon("MENU", "", <<"jack", "hdmi">>) EXCEPT !.blind = {"jack"}]
gkdpixel_keymon == Keymon("MENU", "", <<>>)
my282_keymon == Keymon("MENU", "", <<>>)
magicmini_keymon == Keymon("MENU", "", <<>>)
rg35xx_keymon == Keymon("MENU", "", <<"jack">>)
m17_keymon == [Keymon("START", "SELECT", <<"jack">>) EXCEPT !.ignores = FALSE, !.again = TRUE]
trimuismart_keymon == [Keymon("START", "SELECT", <<>>) EXCEPT !.ignores = FALSE]
miyoomini_keymon == [Keymon("START", "SELECT", <<>>) EXCEPT !.ignores = FALSE, !.events = TRUE]
miyoominiplus_keymon == [miyoomini_keymon EXCEPT !.bri = "MENU", !.vol = "", !.select = TRUE]
tg5040_keymon == [Keymon("MENU", "", <<"mute">>) EXCEPT !.switches = {"jack", "mute"}]
zero28_keymon == [Keymon("MENU", "", <<>>) EXCEPT !.switches = {"jack"}]

msettings ==
  [ rg35xxplus |-> rg35xxplus_settings, rgb30 |-> rgb30_settings, my355 |-> my355_settings,
    gkdpixel |-> gkdpixel_settings, my282 |-> my282_settings, magicmini |-> magicmini_settings,
    rg35xx |-> rg35xx_settings, m17 |-> m17_settings, trimuismart |-> trimuismart_settings,
    miyoomini |-> miyoomini_settings, miyoominiplus |-> miyoomini_settings,
    tg5040 |-> tg5040_settings, zero28 |-> zero28_settings ]
keymons ==
  [ rg35xxplus |-> rg35xxplus_keymon, rgb30 |-> rgb30_keymon, my355 |-> my355_keymon,
    gkdpixel |-> gkdpixel_keymon, my282 |-> my282_keymon, magicmini |-> magicmini_keymon,
    rg35xx |-> rg35xx_keymon, m17 |-> m17_keymon, trimuismart |-> trimuismart_keymon,
    miyoomini |-> miyoomini_keymon, miyoominiplus |-> miyoominiplus_keymon,
    tg5040 |-> tg5040_keymon, zero28 |-> zero28_keymon ]

\* The devices looked at are those of the tables.
ASSUME PlatformsAssumption == Platforms \subseteq DOMAIN msettings
lib == msettings[platform]
mon == keymons[platform]

(* The devices whose backlight needs no new brightness after a sleep.        *)
PLAT_enableBacklight ==
  IF platform \in {"miyoomini", "miyoominiplus", "rg35xx", "rgb30"} THEN <<>> ELSE <<"brightness">>

-----------------------------------------------------------------------------
(* The library's calls, as the steps they take.                              *)

Step(op, what, by) == <<[op |-> op, what |-> what, by |-> by]>>
SetBrightness == Step("write", "brightness", 0) \o Step("save", "", 0)
(* Faulty variant: what is saved is what was there before.                   *)
SetVolumeSavesFirst == Step("save", "", 0) \o Step("write", "volume", 0)
SetVolume == Step("write", "volume", 0) \o Step("save", "", 0)
Again(what) == Step("read", what, 0) \o IF what = "volume" THEN SetVolume ELSE SetBrightness

(* SetJack, SetHDMI and SetMute: store the flag, then set the volume of what *)
(* is heard now; HDMI and mute set only the driver's.                        *)
SetPort(port, on) ==
  IF port \notin lib.sets THEN <<>>
  ELSE Step("flag", port, on) \o IF on = 1 /\ port # "jack" THEN <<>> ELSE Again("volume")

(* What InitSettings may take the ports for: as they are, but the RG35XX     *)
(* Plus reads files that do not follow them, other ones than its keymon.     *)
Looks ==
  IF platform = "rg35xxplus" THEN {[jack |-> 0, hdmi |-> on, mute |-> 0] : on \in {0, 1}} ELSE {ports}
(* The calls of a list, the ports' with what a look at them found.           *)
Calls(list, look) ==
  LET call(w) == IF w \in Ports THEN SetPort(w, look[w]) ELSE Again(w)
      f[i \in 0..Len(list)] == IF i = 0 THEN <<>> ELSE f[i - 1] \o call(list[i])
  IN f[Len(list)]

(* The defaults, scaled down as the levels are.                              *)
DefaultSettings == [brightness |-> 1, headphones |-> 1, speaker |-> 1, jack |-> 0, hdmi |-> 0, mute |-> 0]
(* Memory as it was mapped, and what a host makes of a file that was created *)
(* and never written.                                                        *)
Zeros == [x \in DOMAIN DefaultSettings |-> 0]
Sink(s) == IF s.jack = 1 THEN "headphones" ELSE "speaker"
GetVolume == IF shm.mute = 1 /\ "mute" \in lib.guard THEN 0 ELSE shm[Sink(shm)]
GetBrightness == shm.brightness
LevelMax(what) == IF what = "volume" THEN VOLUME_MAX ELSE BRIGHTNESS_MAX

Happens == events < MaxEvents[platform] /\ events' = events + 1
Busy(p) == todo[p] # <<>>
(* keymon, both threads, stands still while a program sleeps.                *)
Running(p) == run[p] = "run" /\ (p \in {"keymon", "watch"} => \A c \in Clients : run[c] # "asleep")
Now(p) == todo[p][1]
Doing(p, op) == Running(p) /\ Busy(p) /\ Now(p).op = op
Drop(p, n) == todo' = [todo EXCEPT ![p] = SubSeq(@, n + 1, Len(@))]

(* The watch thread's ports; who is about to store a look at one.            *)
Watched(w) == \E i \in 1..Len(mon.watches) : mon.watches[i] = w
Opened(w) == \E i \in 1..Len(lib.opens) : lib.opens[i] = w
Stores(calls, w) == \E i \in 1..Len(calls) : calls[i].op = "flag" /\ calls[i].what = w
Holds(p, w) == Stores(todo[p], w)
Queued(w) == \E i \in 1..Len(q) : q[i].key = w
Others(w) == Queued(w) \/ \E p \in Procs \ {"watch"} : Holds(p, w)

(* Faulty variant: a key's step is taken without a look at the level's ends. *)
ReadLevelUnbounded(p) ==
  /\ Doing(p, "read")
  /\ LET s == Now(p)
         v == s.by + IF s.what = "volume" THEN GetVolume ELSE GetBrightness
     IN val' = [val EXCEPT ![p] = v] /\ Drop(p, 1)
  /\ UNCHANGED <<platform, shm, file, run, kvars, seen, world>>
(* A level is read, and SetVolume or SetBrightness called with it unless a   *)
(* key finds no room for its step.                                           *)
ReadLevel(p) ==
  /\ Doing(p, "read")
  /\ LET s == Now(p)
         v == s.by + IF s.what = "volume" THEN GetVolume ELSE GetBrightness
     IN IF v \in 0..LevelMax(s.what)
        THEN val' = [val EXCEPT ![p] = v] /\ Drop(p, 1)
        ELSE Drop(p, 3) /\ UNCHANGED val
  /\ UNCHANGED <<platform, shm, file, run, kvars, seen, world>>

(* SetVolume and SetBrightness may return at once.  A flag stored between    *)
(* this look at the flags and the store is as one stored after both.         *)
WriteLevel(p) ==
  /\ Doing(p, "write") /\ val' = [val EXCEPT ![p] = 0]
  /\ LET s == Now(p)
         closed == \E f \in (IF s.what = "volume" THEN lib.guard ELSE lib.shade) : shm[f] = 1
         level == IF s.what = "volume" THEN Sink(shm) ELSE "brightness"
     IN IF closed THEN Drop(p, 2) /\ UNCHANGED shm
        ELSE shm' = [shm EXCEPT ![level] = val[p]] /\ Drop(p, 1)
  /\ UNCHANGED <<platform, file, run, kvars, seen, world>>

(* The watch thread's report settles a port that nobody else has looked at.  *)
StoreFlag(p) ==
  /\ Doing(p, "flag")
  /\ LET s == Now(p) IN
     /\ shm' = [shm EXCEPT ![s.what] = s.by]
     /\ Drop(p, 1)
     /\ doubted' = IF /\ p = "watch" /\ s.by = had[s.what]
                      /\ ~Others(s.what) /\ ~Stores(Tail(todo[p]), s.what)
                   THEN doubted \ {s.what} ELSE doubted
  /\ UNCHANGED <<platform, file, val, run, kvars, had, world>>

(* The whole memory is written, whoever changed it.                          *)
SaveSettings(p) ==
  /\ Doing(p, "save")
  /\ file' = shm
  /\ Drop(p, 1)
  /\ UNCHANGED <<platform, shm, val, run, kvars, seen, world>>

-----------------------------------------------------------------------------
(* Starting, sleeping, ending.                                               *)

Init ==
  /\ platform \in Platforms
  /\ shm = Zeros /\ run = [p \in Procs |-> "off"]
  /\ file \in {DefaultSettings, Zeros}
  /\ todo = [p \in Procs |-> <<>>] /\ val = [p \in Procs |-> 0]
  /\ pressed = [k \in Keys |-> 0] /\ just = [k \in Keys |-> 0]
  /\ kpc = "read" /\ ignore = FALSE /\ slept = FALSE /\ lr = 0
  /\ ports \in [Ports -> {0, 1}] /\ \A p \in Ports \ lib.sets : ports[p] = 0
  /\ had = ports /\ doubted = {} /\ q = <<>> /\ held = {} /\ events = 0

(* What InitSettings ends with: a look at the ports, and all is set again.   *)
Opens(p) ==
  \E look \in Looks :
    /\ todo' = [todo EXCEPT ![p] = Calls(lib.opens, look)]
    /\ doubted' = doubted \cup {w \in Ports : Watched(w) /\ Opened(w) /\ look[w] # ports[w]}

(* InitSettings in keymon, the host: the file or the defaults, and what it   *)
(* sets.  The scripts that start keymon do much before they start a program, *)
(* so a program finds the memory filled.                                     *)
InitHost ==
  /\ run["keymon"] = "off"
  /\ run' = [run EXCEPT !["keymon"] = "run"]
  /\ shm' = [f \in DOMAIN shm |-> IF f \in lib.fresh THEN 0 ELSE file[f]]
  /\ Opens("keymon")
  /\ UNCHANGED <<platform, file, val, kvars, had, world>>

(* The first look of keymon's second thread at its ports.                    *)
FirstLook(garbage) ==
  LET first(w) == SetPort(w, IF w \in mon.blind THEN garbage ELSE ports[w])
      f[i \in 0..Len(mon.watches)] == IF i = 0 THEN <<>> ELSE f[i - 1] \o first(mon.watches[i])
  IN f[Len(mon.watches)]

StartWatch ==
  /\ run["keymon"] = "run" /\ ~Busy("keymon") /\ run["watch"] = "off" /\ mon.watches # <<>>
  /\ run' = [run EXCEPT !["watch"] = "run"]
  /\ had' = ports
  /\ \E garbage \in {0, 1} :
       /\ todo' = [todo EXCEPT !["watch"] = FirstLook(garbage)]
       /\ doubted' = doubted \cup {w \in mon.blind : garbage # ports[w]}
  /\ UNCHANGED <<platform, shm, file, val, kvars, world>>

(* InitSettings in any other program.                                        *)
InitClient(c) ==
  /\ run[c] = "off" /\ run["keymon"] = "run" /\ (run["watch"] = "run" \/ ~Busy("keymon"))
  /\ run' = [run EXCEPT ![c] = "run"]
  /\ Opens(c)
  /\ UNCHANGED <<platform, shm, file, val, kvars, had, world>>

PWR_enterSleep(c) ==
  /\ Running(c) /\ ~Busy(c) /\ \A d \in Clients : run[d] # "asleep"
  /\ run' = [run EXCEPT ![c] = "asleep"] /\ Happens
  /\ UNCHANGED <<platform, shm, file, todo, val, kvars, seen, q, held, ports>>

(* keymon goes on; it can tell only a sleep of more than a second.           *)
PWR_exitSleep(c) ==
  /\ run[c] = "asleep"
  /\ run' = [run EXCEPT ![c] = "run"]
  /\ \E long \in BOOLEAN : slept' = (slept \/ long)
  /\ todo' = [todo EXCEPT ![c] = IF shm.hdmi = 1 THEN <<>> ELSE Calls(PLAT_enableBacklight \o <<"volume">>, ports)]
  /\ UNCHANGED <<platform, shm, file, val, pressed, just, kpc, ignore, lr, seen, world>>

-----------------------------------------------------------------------------
(* keymon's main loop.                                                       *)

AtKeys(pc) == Running("keymon") /\ ~Busy("keymon") /\ kpc = pc
              /\ (mon.watches # <<>> => run["watch"] # "off")
Begin(calls) == todo' = [todo EXCEPT !["keymon"] = calls]

(* Which level the keys mean: MENU turns volume into brightness; on devices  *)
(* without volume keys a modifier is needed, alone if keys come one by one.  *)
Means(prs) ==
  IF mon.select /\ prs["SELECT"] # 0 /\ prs["START"] = 0 THEN "volume"
  ELSE IF mon.vol = "" THEN (IF prs[mon.bri] # 0 THEN "brightness" ELSE "volume")
  ELSE IF mon.events /\ prs[mon.bri] = prs[mon.vol] THEN "nothing"
  ELSE IF prs[mon.bri] # 0 THEN "brightness"
  ELSE IF prs[mon.vol] # 0 THEN "volume" ELSE "nothing"
(* One step of that level, from what it is when it is read.                  *)
OneStep(prs, by) ==
  CASE Means(prs) = "volume" -> Step("read", "volume", by) \o SetVolume
    [] Means(prs) = "brightness" -> Step("read", "brightness", by) \o SetBrightness
    [] OTHER -> <<>>

(* The loop starts over; it takes a turn of more than a second, one in which *)
(* it was stopped or a slow one, for a sleep.                                *)
LoopTop ==
  /\ AtKeys("top")
  /\ \E slow \in BOOLEAN : ignore' = (mon.ignores /\ (slept \/ slow))
  /\ slept' = FALSE
  /\ kpc' = "read"
  /\ UNCHANGED <<platform, shm, file, todo, val, run, pressed, just, lr, seen, world>>

(* One event: a key, or a switch.                                            *)
ReadEvent ==
  /\ AtKeys("read") /\ ~mon.events /\ q # <<>>
  /\ q' = Tail(q)
  /\ LET e == q[1] IN
     IF ignore THEN UNCHANGED <<todo, pressed, just>>
     ELSE IF e.key \in Ports THEN Begin(SetPort(e.key, e.value)) /\ UNCHANGED <<pressed, just>>
     ELSE /\ pressed' = [pressed EXCEPT ![e.key] = e.value]
          /\ just' = [just EXCEPT ![e.key] = e.value]
          /\ IF e.key = "VOLUME" THEN Begin(Again("volume")) ELSE UNCHANGED todo
  /\ UNCHANGED <<platform, shm, file, val, run, kpc, ignore, slept, lr, seen, held, ports, events>>

(* Faulty variant: the events are thrown away, the keys are kept.            *)
ReadDoneKeepsKeys ==
  /\ AtKeys("read") /\ ~mon.events /\ q = <<>>
  /\ kpc' = "up"
  /\ UNCHANGED <<platform, shm, file, todo, val, run, pressed, just, ignore, slept, lr, seen, world>>
ReadDone ==
  /\ AtKeys("read") /\ ~mon.events /\ q = <<>>
  /\ IF ignore
     THEN pressed' = [k \in Keys |-> 0] /\ just' = [k \in Keys |-> 0]
     ELSE UNCHANGED <<pressed, just>>
  /\ kpc' = IF \A k \in {"PLUS", "MINUS"} : pressed'[k] = 0 /\ just'[k] = 0 THEN "top" ELSE "up"
  /\ UNCHANGED <<platform, shm, file, todo, val, run, ignore, slept, lr, seen, world>>

(* A key that was just pressed, or that is down and due again.               *)
Handle(key, by, from, to) ==
  /\ AtKeys(from) /\ ~mon.events
  /\ \E due \in BOOLEAN :
       IF just[key] # 0 \/ (pressed[key] # 0 /\ due)
       THEN Begin(OneStep(pressed, by)) /\ just' = [just EXCEPT ![key] = 0]
       ELSE UNCHANGED <<todo, just>>
  /\ kpc' = to
  /\ UNCHANGED <<platform, shm, file, val, run, pressed, ignore, slept, lr, seen, world>>
Up == Handle("PLUS", 1, "up", "down")
Down == Handle("MINUS", -1, "down", "top")

(* The loop of the Miyoo Mini: an event is acted on at once, of the repeats  *)
(* every other one; MENU and POWER together shut the device down.            *)
Event ==
  /\ AtKeys("read") /\ mon.events /\ q # <<>>
  /\ q' = Tail(q)
  /\ LET e == q[1]
         prs == IF e.value = 2 THEN pressed ELSE [pressed EXCEPT ![e.key] = e.value]
         v == IF e.value = 2 THEN lr ELSE e.value
     IN /\ pressed' = prs
        /\ IF e.key \in {"PLUS", "MINUS"}
           THEN /\ lr' = IF e.value = 2 THEN 1 - lr ELSE 0
                /\ Begin(IF v = 1 THEN OneStep(prs, IF e.key = "PLUS" THEN 1 ELSE -1) ELSE <<>>)
           ELSE UNCHANGED <<lr, todo>>
        /\ kpc' = IF prs["MENU"] = 1 /\ prs["POWER"] = 1 THEN "off" ELSE "read"
  /\ UNCHANGED <<platform, shm, file, val, run, just, ignore, slept, seen, held, ports, events>>

(* Faulty variant: only a plug going in is reported.                         *)
WatchPortsIn(port) ==
  /\ Running("watch") /\ ~Busy("watch")
  /\ port \in {mon.watches[i] : i \in 1..Len(mon.watches)} /\ ports[port] # had[port]
  /\ had' = [had EXCEPT ![port] = ports[port]]
  /\ todo' = [todo EXCEPT !["watch"] = IF ports[port] = 1 THEN SetPort(port, 1) ELSE <<>>]
  /\ UNCHANGED <<platform, shm, file, val, run, kvars, doubted, world>>
(* The other thread compares a port with what it was, once a second.         *)
WatchPorts(port) ==
  /\ Running("watch") /\ ~Busy("watch")
  /\ port \in {mon.watches[i] : i \in 1..Len(mon.watches)} /\ ports[port] # had[port]
  /\ had' = [had EXCEPT ![port] = ports[port]]
  /\ todo' = [todo EXCEPT !["watch"] = SetPort(port, ports[port])]
  /\ UNCHANGED <<platform, shm, file, val, run, kvars, doubted, world>>

-----------------------------------------------------------------------------
(* The world: keys and ports.                                                *)

Input(key, value) == q' = Append(q, [key |-> key, value |-> value])
MonKeys == {"PLUS", "MINUS", mon.bri} \cup ({mon.vol} \ {""})
           \cup (IF mon.again THEN {"VOLUME"} ELSE {}) \cup (IF mon.events THEN {"POWER"} ELSE {})
           \cup (IF mon.select THEN {"SELECT", "START"} ELSE {})
Key(k) ==
  /\ Happens /\ k \in MonKeys /\ run["keymon"] = "run"
  /\ \/ k \notin held /\ held' = held \cup {k} /\ Input(k, 1)
     \/ k \in held /\ held' = held \ {k} /\ Input(k, 0)
     \/ k \in held /\ UNCHANGED held /\ Input(k, 2)
  /\ UNCHANGED <<platform, shm, file, todo, val, run, kvars, seen, ports>>

(* A plug goes in or out: another look at it is outdated, and so is what the *)
(* memory holds ahead of the watch thread, which may never see the change.   *)
Plug(port) ==
  /\ Happens /\ port \in lib.sets /\ run["keymon"] = "run"
  /\ ports' = [ports EXCEPT ![port] = 1 - @]
  /\ LET ahead == run["watch"] = "run" /\ ~Holds("watch", port) /\ shm[port] # had[port]
     IN doubted' = IF Watched(port) /\ (Others(port) \/ ahead) THEN doubted \cup {port} ELSE doubted
  /\ IF port \in mon.switches THEN Input(port, 1 - ports[port]) ELSE UNCHANGED q
  /\ UNCHANGED <<platform, shm, file, todo, val, run, kvars, had, held>>

Work(p) == ReadLevel(p) \/ WriteLevel(p) \/ StoreFlag(p) \/ SaveSettings(p)
Loop == LoopTop \/ ReadEvent \/ ReadDone \/ Up \/ Down \/ Event
Watch == StartWatch \/ \E port \in Ports : WatchPorts(port)
Program(c) == InitClient(c) \/ PWR_enterSleep(c) \/ PWR_exitSleep(c)
World == (\E k \in Keys : Key(k)) \/ (\E port \in Ports : Plug(port))

Next ==
  \/ InitHost \/ Watch \/ Loop \/ World
  \/ \E p \in Procs : Work(p)
  \/ \E c \in Clients : Program(c)

Spec == Init /\ [][Next]_vars

-----------------------------------------------------------------------------
(* Properties.                                                               *)

(* Every variable has its type; every level is one the drivers' tables know, *)
(* whoever interrupts whom between a read, a check and a write.              *)
TypeOK ==
  /\ platform \in Platforms
  /\ shm \in [brightness : 0..BRIGHTNESS_MAX, headphones : 0..VOLUME_MAX, speaker : 0..VOLUME_MAX,
              jack : {0, 1}, hdmi : {0, 1}, mute : {0, 1}]
  /\ run \in [Procs -> {"off", "run", "asleep"}]
  /\ \A p \in Procs : val[p] \in 0..VOLUME_MAX \cup 0..BRIGHTNESS_MAX
  /\ pressed \in [Keys -> 0..2] /\ just \in [Keys -> 0..2] /\ lr \in {0, 1}
  /\ kpc \in {"top", "read", "up", "down", "off"} /\ ignore \in BOOLEAN /\ slept \in BOOLEAN
  /\ held \subseteq Keys /\ ports \in [Ports -> {0, 1}]

(* When no process is inside a call, the file holds the levels in force:     *)
(* nobody's change is lost by another's save, although every save writes the *)
(* whole memory and no lock orders them.  A power cut then costs nothing.    *)
Quiet == run["keymon"] = "run" /\ \A p \in Procs : ~Busy(p)
SavedWhenQuiet == Quiet => \A l \in Levels : file[l] = shm[l]

(* keymon never takes for pressed a key that is up and whose release it has  *)
(* read or thrown away: a level cannot run off on its own after a sleep.     *)
NoRunaway ==
  kpc # "read" \/ ~ignore => \A k \in Keys : pressed[k] # 0 => k \in held \/ \E i \in 1..Len(q) : q[i] = [key |-> k, value |-> 0]

(* keymon's second thread compares a port with its own copy only, never with *)
(* the memory, so a report that another process undoes is not made again.    *)
(* Only an outdated look leaves a port wrong there: unless somebody acted on *)
(* one, what the thread has seen last is in the shared memory once it has    *)
(* stored it, although keymon's loop and every program that starts store the *)
(* port too.                                                                 *)
Settled(w) == run["watch"] = "run" /\ ~Holds("watch", w) /\ had[w] = ports[w]
PortsReported == \A w \in Ports \ doubted : Watched(w) /\ Settled(w) => shm[w] = ports[w]
=============================================================================
