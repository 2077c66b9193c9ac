------------------------------- MODULE Input -------------------------------
(* Buttons from the kernel's events to what a press does: PLAT_pollInput,    *)
(* PAD_*, PWR_update with its sleeps, and the rumble motor's thread.         *)
(*                                                                           *)
(* A program polls once in a frame, then looks at what it polled.  Where it  *)
(* looks depends on the loop it is in (`mode'); not every loop's frame ends  *)
(* in PWR_update.  Times are ages, counted in frames up to the delay they    *)
(* are compared with.  Left out: the buttons that only move or confirm, the  *)
(* display of brightness and volume, POWEROFF (one device), HDMI (it keeps   *)
(* the console awake, as charging does).                                     *)
EXTENDS Integers, Sequences

CONSTANTS Devices,       \* the devices to look at: records of the shape below
          Frames,        \* how long a frame may be
          SLEEP_DELAY, HOLD_DELAY, MENU_DELAY, OFF_DELAY, DEFER_FRAMES,
          MaxQueue       \* bound: events that wait for one poll

ASSUME DelaysAssumption ==
  /\ SLEEP_DELAY \in Nat \ {0} /\ HOLD_DELAY \in Nat \ {0} /\ MENU_DELAY \in Nat \ {0}
  /\ OFF_DELAY \in Nat \ {0} /\ DEFER_FRAMES \in Nat /\ MaxQueue \in Nat
  /\ Frames \subseteq Nat \ {0}

(* As every platform.h has it: BTN_SLEEP is POWER where there is a POWER     *)
(* button and MENU elsewhere; a device with a lid has one.  The key that     *)
(* sleeps is no trigger and none of a gamepad's; only the stick gives its    *)
(* directions.                                                               *)
Buttons == {"POWER", "MENU", "PLUS", "A", "L2", "LEFT", "RIGHT"}
ASSUME DevicesAssumption ==
  \A d \in Devices :
    /\ {d.lid, d.rumble, d.simple} \subseteq BOOLEAN /\ d.stick \in {"none", "sampled", "events"}
    /\ "stick" \notin DOMAIN d.keys /\ d.pad \cup d.triggers \subseteq DOMAIN d.keys
    /\ d.sleep \in {"POWER", "MENU"} /\ (d.lid => d.sleep = "POWER")
    /\ \A k \in DOMAIN d.keys :
         /\ d.keys[k] \subseteq Buttons \ {"LEFT", "RIGHT"}
         /\ "POWER" \in d.keys[k] => d.sleep = "POWER"
         /\ d.sleep \in d.keys[k] => k \notin d.pad \cup d.triggers

VARIABLES dev,
          down, stick, plugged, queue,   \* keys held, the stick, a gamepad, unread events
          open, charging,                \* the lid; the charger
          pad,                           \* PAD_Context: sets of buttons
          lid,                           \* lid.is_open
          mode, pc, defer,               \* the loop; "poll", "look", "asleep", "off"; defer_menu
          idle, power, menu, slept,      \* ages: last_input_at, power_pressed_at, menu_start, sleep_ticks
          was_charging, tapping, ignore, \* PAD_tappedMenu's ~ignore_menu, minarch's ignore_menu
          vib,                           \* VIB_Context, the thread's defer, Menu_loop's rumble_strength
          orphans, missed, read, why, asked \* history: see the properties

world == <<dev, down, stick, plugged, queue, open, charging>>
ages == <<idle, power, menu, slept>>
taps == <<menu, tapping, ignore>>
history == <<orphans, missed, read, why, asked>>
vars == <<world, pad, lid, mode, pc, defer, ages, was_charging, tapping, ignore, vib, history>>

Modes == {"top", "version", "game", "menu", "options", "bind"}
None == -1
PAD_reset == [is |-> {}, pressed |-> {}, released |-> {}, repeated |-> {}]

-----------------------------------------------------------------------------
(* The devices: what each key presses, the button that sleeps and wakes, and *)
(* whether there are a lid, a stick, a gamepad that comes and goes, triggers *)
(* (keys that report how far they are pressed) and a motor, and whether it   *)
(* is in simple mode.                                                        *)

Console(keys, sleep) ==
  [keys |-> keys, sleep |-> sleep, lid |-> FALSE, stick |-> "none", pad |-> {}, triggers |-> {},
   rumble |-> FALSE, simple |-> FALSE]
rg35xxplus_input ==
  [Console([power |-> {"POWER"}, menu |-> {"MENU"}, pad_a |-> {"A"}], "POWER")
   EXCEPT !.lid = TRUE, !.pad = {"pad_a"}]
m17_input == Console([plus |-> {"MENU"}, minus |-> {"MENU"}, a |-> {"A"}], "MENU")
simple_mode == [m17_input EXCEPT !.simple = TRUE]
my282_input == [Console([power |-> {"POWER"}, menu |-> {"MENU"}], "POWER") EXCEPT !.stick = "sampled"]
rgb30_input == Console([menu1 |-> {"MENU"}, a |-> {"A"}, plus |-> {"PLUS"}], "POWER")
magicmini_input == [Console([power |-> {"POWER"}, l3 |-> {"MENU"}], "POWER") EXCEPT !.stick = "events"]
sdl_input == [Console([l2 |-> {"L2"}, menu |-> {"MENU"}], "POWER") EXCEPT !.triggers = {"l2"}, !.rumble = TRUE]

Keys == DOMAIN dev.keys
Holds(b) == (\E k \in down : b \in dev.keys[k]) \/ (b = "LEFT" /\ stick = -1) \/ (b = "RIGHT" /\ stick = 1)

-----------------------------------------------------------------------------
(* Polling.                                                                  *)

Press(p, bs) ==
  LET new == bs \ p.is
  IN [p EXCEPT !.is = @ \cup new, !.pressed = @ \cup new, !.repeated = @ \cup new]
(* Faulty variant: what was just pressed and let go still repeats.           *)
ReleaseRepeats(p, bs) == [p EXCEPT !.is = @ \ bs, !.released = @ \cup bs]
Release(p, bs) == [p EXCEPT !.is = @ \ bs, !.repeated = @ \ bs, !.released = @ \cup bs]

(* The stick at one end presses that end and lets go of the other; in the    *)
(* centre it lets go of both, and masks the repeats with the button itself   *)
(* where it means to clear it.                                               *)
PAD_setAnalog(p, neg, pos, value) ==
  LET end == IF value > 0 THEN pos ELSE neg
      other == IF value > 0 THEN neg ELSE pos
      center(r, b) ==
        IF b \in r.is THEN [r EXCEPT !.is = @ \ {b}, !.repeated = @ \cap {b}, !.released = @ \cup {b}] ELSE r
  IN IF value = 0 THEN center(center(p, neg), pos)
     ELSE IF end \in p.is THEN p
     ELSE LET r == Press(p, {end}) IN IF other \in r.is THEN Release(r, {other}) ELSE r

(* One event.  A trigger reports a release before its first press.           *)
Take(p, e) ==
  IF e.key = "stick" THEN PAD_setAnalog(p, "LEFT", "RIGHT", e.value)
  ELSE LET bs == dev.keys[e.key] IN
       IF e.value = 1 THEN Press(p, bs)
       ELSE IF e.key \in dev.triggers /\ bs \cap p.is = {} THEN p
       ELSE Release(p, bs)
Taken(p) ==
  LET f[i \in 0..Len(queue)] == IF i = 0 THEN p ELSE Take(f[i - 1], queue[i])
  IN IF dev.stick = "sampled" THEN PAD_setAnalog(f[Len(queue)], "LEFT", "RIGHT", stick) ELSE f[Len(queue)]

Older(age, most, by) == IF age = None THEN None ELSE IF age + by >= most THEN most ELSE age + by

(* Faulty variant: only the opening is a change.                             *)
PLAT_lidOpened == dev.lid /\ open /\ ~lid
PLAT_lidChanged == dev.lid /\ open # lid

SleepPressed ==
  \E i \in 1..Len(queue) :
    queue[i].value = 1 /\ queue[i].key # "stick" /\ dev.sleep \in dev.keys[queue[i].key]

(* Buttons that were down repeat when they are due; then the events; then    *)
(* the lid, whose change counts as a release of the button that sleeps.      *)
PLAT_pollInput ==
  /\ pc = "poll" /\ pc' = "look"
  /\ \E due \in SUBSET pad.is, by \in Frames :
       /\ LET p == Taken([PAD_reset EXCEPT !.is = pad.is, !.repeated = due]) IN
          pad' = IF PLAT_lidChanged THEN [p EXCEPT !.released = @ \cup {dev.sleep}] ELSE p
       /\ idle' = Older(idle, SLEEP_DELAY, by) /\ power' = Older(power, HOLD_DELAY, by)
       /\ menu' = Older(menu, MENU_DELAY, by)
  /\ lid' = IF dev.lid THEN open ELSE lid
  /\ queue' = <<>>
  /\ read' = (read \/ SleepPressed)
  /\ orphans' = orphans \cap pad'.is
  /\ UNCHANGED <<dev, down, stick, plugged, open, charging, mode, defer, slept, was_charging, tapping, ignore, vib, missed, why, asked>>

-----------------------------------------------------------------------------
(* Power.                                                                    *)

HasPower == dev.sleep = "POWER"
can_sleep == HasPower \/ mode \notin (IF dev.simple THEN {"game"} ELSE {"top", "game"})
PWR_preventAutosleep == charging \/ mode = "game"
asked_to_sleep == can_sleep /\ dev.sleep \in pad.released
last_input_at ==
  LET i == IF was_charging \/ pad.is # {} THEN 0 ELSE idle
  IN IF i >= SLEEP_DELAY /\ PWR_preventAutosleep THEN 0 ELSE i
sleeps == asked_to_sleep \/ last_input_at >= SLEEP_DELAY

(* Faulty variant: after a sleep POWER still counts as pressed.              *)
power_pressed_atKept == IF "POWER" \in pad.pressed THEN 0 ELSE power
power_pressed_at == IF sleeps THEN None ELSE IF "POWER" \in pad.pressed THEN 0 ELSE power

(* Faulty variant: what was pressed before the sleep still is.               *)
Remembered == [PAD_reset EXCEPT !.is = pad.is]
Forgotten == PAD_reset

(* A frame leaves what is pressed; entering and leaving the menu forgets it. *)
Left(to) == IF to # mode /\ "game" \in {to, mode} THEN PAD_reset ELSE [PAD_reset EXCEPT !.is = pad.is]

(* PWR_update at the end of a frame that leads to the loop `to'.  It may     *)
(* power off (Session has what follows where PLAT_powerOff returns), or put  *)
(* the console to sleep: PWR_fauxSleep, with what is pressed forgotten.      *)
PWR_update(to) ==
  /\ pc' = IF power >= HOLD_DELAY THEN "off" ELSE IF sleeps THEN "asleep" ELSE "poll"
  /\ power' = power_pressed_at /\ slept' = 0
  /\ idle' = IF sleeps THEN 0 ELSE last_input_at
  /\ pad' = IF sleeps THEN Forgotten ELSE Left(to)
  /\ mode' = to
  /\ \E check \in BOOLEAN : was_charging' = IF check THEN charging ELSE was_charging
  /\ why' = IF ~sleeps THEN "" ELSE IF asked_to_sleep THEN "button" ELSE "idle"
  /\ missed' = (missed /\ ~sleeps)

(* A frame of a loop, or the last of one, that does not call it.             *)
NoUpdate(to) ==
  /\ pc' = "poll" /\ pad' = Left(to) /\ mode' = to
  /\ missed' = (missed \/ dev.sleep \in pad.released)
  /\ UNCHANGED <<power, idle, slept, was_charging, why>>

EndOfFrame == orphans' = orphans \cap pad'.is /\ UNCHANGED <<world, lid, read>>

(* PWR_waitForWake asks every 200 ms.  The button's release wakes, and what  *)
(* comes before it is thrown away; with the lid closed that is all.          *)
Release1(e) == e.value = 0 /\ e.key # "stick" /\ dev.sleep \in dev.keys[e.key]
(* Faulty variant: the press already wakes.                                  *)
PAD_wakeOnPress(i) == queue[i].key # "stick" /\ dev.sleep \in dev.keys[queue[i].key]
PAD_wake(i) == Release1(queue[i])

(* Two minutes power off; while it charges, it asks again in a minute.       *)
sleep_ticks(long) == IF long THEN OFF_DELAY \div 2 ELSE slept + 1

PWR_waitForWake ==
  /\ pc = "asleep"
  /\ lid' = IF dev.lid THEN open ELSE lid
  /\ LET opened == dev.lid /\ open /\ ~lid
         ups == {i \in 1..Len(queue) : PAD_wake(i)}
         first == CHOOSE i \in ups : \A j \in ups : i <= j
         wakes == opened \/ (ups # {} /\ lid')
         long == slept + 1 >= OFF_DELAY
     IN /\ queue' = IF opened THEN queue ELSE IF ups = {} THEN <<>> ELSE SubSeq(queue, first + 1, Len(queue))
        /\ pc' = IF wakes THEN "poll" ELSE IF long /\ ~charging THEN "off" ELSE "asleep"
        /\ slept' = IF wakes THEN 0 ELSE sleep_ticks(long)
        /\ read' = (read /\ ~wakes)
  /\ menu' = Older(menu, MENU_DELAY, MENU_DELAY)
  /\ UNCHANGED <<dev, down, stick, plugged, open, charging, pad, mode, defer, idle, power, was_charging,
                 tapping, ignore, vib, orphans, missed, why, asked>>

-----------------------------------------------------------------------------
(* What the loops do with what they polled.                                  *)

(* PAD_tappedMenu, asked `now': how MENU's press is remembered, and whether  *)
(* its release is a tap.                                                     *)
PAD_tappedMenu ==
  LET combined == "MENU" \in pad.is /\ HasPower /\ "PLUS" \in pad.pressed IN
  /\ menu' = IF "MENU" \in pad.pressed THEN 0 ELSE menu
  /\ tapping' = IF "MENU" \in pad.pressed THEN TRUE ELSE tapping /\ ~combined
Tapped == "MENU" \in pad.released /\ tapping' /\ menu' < MENU_DELAY
NotAsked == UNCHANGED <<menu, tapping>>

(* minui's loop: PWR_update comes first and a sleep takes the presses along. *)
(* Without a button for power, MENU sleeps while the version is shown, and   *)
(* in simple mode always.                                                    *)
Launcher ==
  /\ pc = "look" /\ mode \in {"top", "version"}
  /\ IF sleeps THEN PWR_update(mode) /\ NotAsked
     ELSE IF mode = "version" /\ "A" \in pad.pressed THEN PWR_update("top") /\ NotAsked
     ELSE PAD_tappedMenu /\ PWR_update(IF ~Tapped THEN mode ELSE IF mode = "top" THEN "version" ELSE "top")
  /\ EndOfFrame /\ UNCHANGED <<defer, ignore, vib, asked>>

(* minui starts minarch, which opens the input anew: what minui has not read *)
(* of it is lost.                                                            *)
Launch ==
  /\ pc = "poll" /\ mode = "top" /\ mode' = "game" /\ pad' = PAD_reset /\ queue' = <<>> /\ lid' = TRUE
  /\ read' = (read \/ SleepPressed) /\ missed' = FALSE
  /\ idle' = 0 /\ power' = None /\ menu' = None /\ tapping' = TRUE /\ ignore' = FALSE /\ orphans' = {}
  /\ was_charging' = charging
  /\ UNCHANGED <<dev, down, stick, plugged, open, charging, pc, defer, slept, vib, why, asked>>

(* input_poll_callback: the release of MENU opens the menu, unless MENU was  *)
(* held for something else.  Menu_loop stops the motor and keeps the         *)
(* strength that the motor has.                                              *)
Game ==
  /\ pc = "look" /\ mode = "game"
  /\ LET used == "MENU" \in pad.is /\ "PLUS" \in pad.is
         ignored == used \/ (ignore /\ "MENU" \notin pad.pressed)
         opens == ~sleeps /\ ~ignored /\ "MENU" \in pad.released
     IN /\ ignore' = IF sleeps THEN ignore ELSE ignored
        /\ PWR_update(IF opens THEN "menu" ELSE "game")
        /\ vib' = IF opens THEN [vib EXCEPT !.saved = vib.strength, !.queued = 0] ELSE vib
        /\ asked' = IF opens THEN [asked EXCEPT !.behind = @ \/ vib.strength # vib.queued] ELSE asked
  /\ NotAsked /\ EndOfFrame /\ UNCHANGED defer

(* Menu_loop's frame.  An item ends the menu at once, or is the options,     *)
(* whose loop polls next; B ends it with the frame.                          *)
(* Faulty variant: the motor stays off after the menu.                       *)
GivenBackLost == vib
GivenBack == IF vib.saved # 0 THEN [vib EXCEPT !.queued = vib.saved] ELSE vib
InGameMenu ==
  /\ pc = "look" /\ mode = "menu"
  /\ \/ "A" \in pad.pressed /\ NotAsked /\ PWR_update("game")
     \/ /\ IF HasPower THEN PAD_tappedMenu ELSE NotAsked
        /\ IF HasPower /\ Tapped THEN PWR_update("game")
           ELSE IF "A" \in pad.pressed THEN NoUpdate("game") \/ (~dev.simple /\ NoUpdate("options"))
           ELSE PWR_update("menu")
  /\ vib' = IF mode' = "game" THEN GivenBack ELSE vib
  /\ defer' = FALSE
  /\ EndOfFrame /\ UNCHANGED <<ignore, asked>>

(* Menu_options' frame.  A list or a message within polls next, and leaving  *)
(* one ends in the PWR_update of what it was opened from.  After a binding   *)
(* PWR_update waits until MENU was let go of, whether it was held or not.    *)
Options ==
  /\ pc = "look" /\ mode = "options"
  /\ \/ /\ "A" \in pad.pressed /\ defer' = FALSE
        /\ \/ ~defer /\ NoUpdate("options")
           \/ \E to \in {"options", "menu"} : PWR_update(to)
     \/ /\ defer' = (defer /\ "MENU" \notin pad.released)
        /\ \E to \in {"options"} \cup (IF "A" \in pad.pressed THEN {"bind"} ELSE {}) :
             IF defer THEN NoUpdate(to) ELSE PWR_update(to)
  /\ NotAsked /\ EndOfFrame /\ UNCHANGED <<ignore, vib, asked>>

(* OptionControls_bind waits for any button of the game's.                   *)
Bind ==
  /\ pc = "look" /\ mode = "bind"
  /\ IF pad.pressed \cap {"A", "L2"} # {} THEN NoUpdate("options") /\ defer' = TRUE
                                          ELSE NoUpdate("bind") /\ UNCHANGED defer
  /\ NotAsked /\ EndOfFrame /\ UNCHANGED <<ignore, vib, asked>>

-----------------------------------------------------------------------------
(* The motor's thread, and the core that asks for it.                        *)

VIB_thread ==
  /\ dev.rumble /\ vib.queued # vib.strength /\ pc # "off"
  /\ vib' = IF vib.queued = 0 /\ vib.defer < DEFER_FRAMES THEN [vib EXCEPT !.defer = @ + 1]
            ELSE [vib EXCEPT !.strength = vib.queued, !.defer = 0]
  /\ UNCHANGED <<world, pad, lid, mode, pc, defer, ages, was_charging, tapping, ignore, history>>

VIB_setStrength(s) ==
  /\ dev.rumble /\ mode = "game" /\ pc = "poll" /\ s # asked.strength
  /\ vib' = [vib EXCEPT !.queued = s]
  /\ asked' = [strength |-> s, behind |-> FALSE]
  /\ UNCHANGED <<world, pad, lid, mode, pc, defer, ages, was_charging, tapping, ignore, orphans, missed, read, why>>

-----------------------------------------------------------------------------
(* The hands that hold the console.                                          *)

Unread == pc \in {"poll", "asleep"}
SameProgram == UNCHANGED <<dev, pad, lid, mode, pc, defer, ages, was_charging, tapping, ignore, vib, missed, read, why, asked>>
Queue(k, v) == Len(queue) < MaxQueue /\ queue' = Append(queue, [key |-> k, value |-> v])

Key(k) ==
  /\ Unread /\ (k \in dev.pad => plugged)
  /\ IF k \in down THEN down' = down \ {k} /\ Queue(k, 0) ELSE down' = down \cup {k} /\ Queue(k, 1)
  /\ UNCHANGED <<stick, plugged, open, charging, orphans>> /\ SameProgram

(* A trigger that is touched first says that it is not pressed.              *)
Touch(k) ==
  /\ Unread /\ k \in dev.triggers \ down /\ Queue(k, 0)
  /\ UNCHANGED <<down, stick, plugged, open, charging, orphans>> /\ SameProgram

Stick(v) ==
  /\ Unread /\ dev.stick # "none" /\ v # stick /\ stick' = v
  /\ IF dev.stick = "events" THEN Queue("stick", v) ELSE UNCHANGED queue
  /\ UNCHANGED <<down, plugged, open, charging, orphans>> /\ SameProgram

Lid == /\ Unread /\ dev.lid /\ open' = ~open
       /\ UNCHANGED <<down, stick, plugged, queue, charging, orphans>> /\ SameProgram
Charger == /\ Unread /\ charging' = ~charging
           /\ UNCHANGED <<down, stick, plugged, queue, open, orphans>> /\ SameProgram

(* The events of other keys.                                                 *)
Without(keys) ==
  LET f[i \in 0..Len(queue)] ==
        IF i = 0 THEN <<>> ELSE IF queue[i].key \in keys THEN f[i - 1] ELSE Append(f[i - 1], queue[i])
  IN f[Len(queue)]

(* A gamepad that goes takes its unread events along; what it pressed stays. *)
Gamepad ==
  /\ Unread /\ dev.pad # {} /\ plugged' = ~plugged /\ down' = down \ dev.pad
  /\ queue' = Without(dev.pad)
  /\ orphans' = orphans \cup UNION {dev.keys[k] \cap pad.is : k \in dev.pad}
  /\ UNCHANGED <<stick, open, charging>> /\ SameProgram

-----------------------------------------------------------------------------
Init ==
  /\ dev \in Devices
  /\ down = {} /\ stick = 0 /\ plugged = TRUE /\ queue = <<>> /\ open = TRUE /\ charging = FALSE
  /\ pad = PAD_reset /\ lid = TRUE
  /\ mode = "top" /\ pc = "poll" /\ defer = FALSE
  /\ idle = 0 /\ power = None /\ menu = None /\ slept = 0
  /\ was_charging = FALSE /\ tapping = TRUE /\ ignore = FALSE
  /\ vib = [queued |-> 0, strength |-> 0, defer |-> 0, saved |-> 0]
  /\ orphans = {} /\ missed = FALSE /\ read = FALSE /\ why = "" /\ asked = [strength |-> 0, behind |-> FALSE]

Next ==
  \/ PLAT_pollInput \/ PWR_waitForWake
  \/ Launcher \/ Launch \/ Game \/ InGameMenu \/ Options \/ Bind
  \/ VIB_thread \/ \E s \in 0..1 : VIB_setStrength(s)
  \/ \E k \in Keys : Key(k) \/ Touch(k)
  \/ \E v \in -1..1 : Stick(v)
  \/ Lid \/ Charger \/ Gamepad

Spec == Init /\ [][Next]_vars

-----------------------------------------------------------------------------
(* The variables have their types; what repeats is pressed, but for the last *)
(* direction of a stick in the frame that centres it (PAD_setAnalog).        *)
TypeOK ==
  /\ down \subseteq Keys /\ stick \in -1..1 /\ {plugged, open, charging, lid, defer} \subseteq BOOLEAN
  /\ \A i \in 1..Len(queue) : queue[i].key \in Keys \cup {"stick"} /\ queue[i].value \in -1..1
  /\ Len(queue) <= MaxQueue
  /\ pad \in [is : SUBSET Buttons, pressed : SUBSET Buttons, released : SUBSET Buttons, repeated : SUBSET Buttons]
  /\ pad.repeated \subseteq pad.is \cup (pad.released \cap {"LEFT", "RIGHT"})
  /\ mode \in Modes /\ pc \in {"poll", "look", "asleep", "off"}
  /\ idle \in 0..SLEEP_DELAY /\ power \in None..HOLD_DELAY /\ menu \in None..MENU_DELAY /\ slept \in 0..OFF_DELAY
  /\ {was_charging, tapping, ignore, missed, read} \subseteq BOOLEAN
  /\ vib \in [queued : 0..1, strength : 0..1, defer : 0..DEFER_FRAMES, saved : 0..1]

(* No button stays pressed by itself: what a poll takes for pressed is held, *)
(* or was pressed on a gamepad that was pulled out (rg35xxplus forgets to    *)
(* let go of those).                                                         *)
NoStuckButton == pc = "look" => \A b \in pad.is \ orphans : Holds(b)

(* While the time since POWER was pressed runs, POWER is held: only then may *)
(* it power off.  A release that was polled by a frame without PWR_update    *)
(* (an item of the menu or of a list that opens another, a binding, the      *)
(* options after one) is the exception.                                      *)
HoldIsHeld ==
  pc \in {"poll", "off"} /\ power # None /\ ~missed =>
    \/ Holds("POWER")
    \/ \E i \in 1..Len(queue) : Release1(queue[i])

(* The console does not stay awake with its lid closed, once it has looked   *)
(* at the lid, unless such a frame came in between.                          *)
ClosedLidSleeps == dev.lid /\ ~lid /\ ~missed => pc # "poll"

(* The press that woke the console does not put it to sleep again: on a      *)
(* device with one such key and no lid, it sleeps by a press that was read,  *)
(* or that came while minarch started.                                       *)
NoSleepAfterWake ==
  pc = "asleep" /\ why = "button" /\ ~dev.lid /\ (\A j, k \in Keys : dev.sleep \in dev.keys[j] \cap dev.keys[k] => j = k)
    => read

(* After the menu the motor does what the core asked for last, if it already *)
(* did so when the menu was opened.                                          *)
RumbleGivenBack == mode = "game" /\ ~asked.behind => vib.queued = asked.strength

=============================================================================
