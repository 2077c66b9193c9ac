---------------------------- MODULE Input_proofs ----------------------------
(* Every invariant of Input, for every device that meets its assumption,     *)
(* every delay and every length of the queue.                                *)
(*                                                                           *)
(* A poll goes through the queue by a recursive function, and a gamepad that *)
(* is pulled out picks events from it by another: what they compute is shown *)
(* by induction on the events (UpTo, from the well-founded order of Nat).    *)
(* Inv then says of each event that waits what it owes: the keys to their    *)
(* last event (KeysDown), the buttons to the keys (ButtonsHeld), the stick   *)
(* to its last event (StickPoints), POWER's time to POWER (PowerHeld), and   *)
(* the presses and releases of the key that sleeps to each other (Wakes).    *)
EXTENDS Input, WellFoundedInduction, TLAPS

Below == {u \in Nat \X Nat : u[1] < u[2]}
LEMMA BelowWF == IsWellFoundedOn(Below, Nat)
<1>1. OpToRel(<, Nat) = Below  BY DEF OpToRel, Below
<1> QED BY <1>1, NatLessThanWellFounded

(* A set of numbers has a first one.                                         *)
LEMMA FirstOf ==
  ASSUME NEW U, U \subseteq Nat, U # {}
  PROVE  \E i \in U : \A j \in U : i <= j
<1>1. PICK x \in U : \A y \in U : ~(<<y, x>> \in Below)
  BY BelowWF, WFMin
<1>2. \A y \in U : ~(y < x)
  BY <1>1 DEF Below
<1> QED BY <1>2

(* Induction on the numbers of a set: the first that is missing has its      *)
(* predecessor in it.                                                        *)
LEMMA UpTo ==
  ASSUME NEW n \in Nat, NEW S, 0 \in S, \A i \in 1..n : i - 1 \in S => i \in S
  PROVE  \A i \in 0..n : i \in S
<1> DEFINE T == {i \in 0..n : i \notin S}
<1>1. SUFFICES ASSUME T # {}  PROVE FALSE
  OBVIOUS
<1>2. PICK x \in T : \A y \in T : x <= y
  <2>1. T \subseteq Nat  OBVIOUS
  <2> QED BY <1>1, <2>1, FirstOf
<1>3. x \in 1..n /\ x - 1 \in 0..n /\ ~(x <= x - 1)
  <2>1. x \in 0..n /\ x # 0  OBVIOUS
  <2> QED BY <2>1
<1>4. x \notin S
  OBVIOUS
<1>5. x - 1 \notin S
  BY <1>3, <1>4
<1>6. x - 1 \in T
  BY <1>3, <1>5
<1> QED BY <1>2, <1>3, <1>6

(* What a poll makes of the events, one after the other. *)
Steps(f, p) == f[0] = p /\ \A i \in 1..Len(queue) : f[i] = Take(f[i - 1], queue[i])

LEMMA PollSteps ==
  ASSUME NEW p, Len(queue) \in Nat
  PROVE  \E f : /\ Steps(f, p)
                /\ Taken(p) = IF dev.stick = "sampled"
                              THEN PAD_setAnalog(f[Len(queue)], "LEFT", "RIGHT", stick)
                              ELSE f[Len(queue)]
<1> DEFINE Fold(n, g) == g = [i \in 0..n |-> IF i = 0 THEN p ELSE Take(g[i - 1], queue[i])]
           S == {n \in 0..Len(queue) : \E g : Fold(n, g)}
<1>1. 0 \in S
  <2>1. Fold(0, [i \in 0..0 |-> p])
    OBVIOUS
  <2> HIDE DEF Fold
  <2> QED BY <2>1
<1>2. ASSUME NEW n \in 1..Len(queue), n - 1 \in S  PROVE n \in S
  <2>1. PICK g : Fold(n - 1, g)
    <3> HIDE DEF Fold
    <3> QED BY <1>2
  <2> DEFINE h == [i \in 0..n |-> IF i = n THEN Take(g[n - 1], queue[n]) ELSE g[i]]
  <2>2. ASSUME NEW i \in 0..n, i # 0  PROVE h[i] = Take(h[i - 1], queue[i])
    <3>1. i - 1 \in 0..n /\ i - 1 # n  BY <2>2
    <3>2. h[i - 1] = g[i - 1]  BY <3>1
    <3>3. CASE i = n  BY <3>2, <3>3
    <3>4. CASE i # n
      <4>1. i \in 0..(n - 1)  BY <3>4
      <4>2. g[i] = Take(g[i - 1], queue[i])  BY <2>1, <4>1, <2>2
      <4> QED BY <3>2, <4>2, <3>4
    <3> QED BY <3>3, <3>4
  <2>3. h[0] = p
    <3>1. 0 \in 0..n /\ 0 # n /\ 0 \in 0..(n - 1)  OBVIOUS
    <3> QED BY <3>1, <2>1
  <2>4. Fold(n, h)
    <3> HIDE DEF h
    <3>1. h = [i \in 0..n |-> h[i]]  BY DEF h
    <3> QED BY <3>1, <2>2, <2>3
  <2> HIDE DEF Fold, h
  <2> QED BY <2>4
<1>3. \E g : Fold(Len(queue), g)
  <2> HIDE DEF Fold
  <2>1. \A i \in 0..Len(queue) : i \in S
    <3> HIDE DEF S
    <3> QED BY <1>1, <1>2, UpTo
  <2> QED BY <2>1
<1> DEFINE f == CHOOSE g : Fold(Len(queue), g)
<1>4. Fold(Len(queue), f)
  <2> HIDE DEF Fold
  <2> QED BY <1>3
<1>5. Taken(p) = IF dev.stick = "sampled"
                 THEN PAD_setAnalog(f[Len(queue)], "LEFT", "RIGHT", stick)
                 ELSE f[Len(queue)]
  BY DEF Taken
<1>6. Steps(f, p)
  <2> HIDE DEF f
  <2>1. 0 \in 0..Len(queue) /\ \A i \in 1..Len(queue) : i \in 0..Len(queue) /\ i # 0  OBVIOUS
  <2> QED BY <1>4, <2>1 DEF Steps
<1> QED BY <1>5, <1>6

-----------------------------------------------------------------------------
(* Events, and what they make of the buttons.                                *)
Event == {e \in [key : Keys \cup {"stick"}, value : -1..1] : e.key # "stick" => e.value \in 0..1}
Pads == [is : SUBSET Buttons, pressed : SUBSET Buttons, released : SUBSET Buttons, repeated : SUBSET Buttons]
Typed(p) == p \in Pads /\ p.repeated \subseteq p.is \cup (p.released \cap {"LEFT", "RIGHT"})

LEMMA PressFields ==
  ASSUME NEW p \in Pads, NEW bs \in SUBSET Buttons
  PROVE  /\ Press(p, bs) \in Pads
         /\ Press(p, bs).is = p.is \cup bs
         /\ Press(p, bs).pressed = p.pressed \cup (bs \ p.is)
         /\ Press(p, bs).released = p.released
         /\ Press(p, bs).repeated = p.repeated \cup (bs \ p.is)
<1>1. Press(p, bs) \in Pads
  BY DEF Press, Pads
<1> QED BY <1>1 DEF Press, Pads

LEMMA ReleaseFields ==
  ASSUME NEW p \in Pads, NEW bs \in SUBSET Buttons
  PROVE  /\ Release(p, bs) \in Pads
         /\ Release(p, bs).is = p.is \ bs
         /\ Release(p, bs).pressed = p.pressed
         /\ Release(p, bs).released = p.released \cup bs
         /\ Release(p, bs).repeated = p.repeated \ bs
<1>1. Release(p, bs) \in Pads
  BY DEF Release, Pads
<1> QED BY <1>1 DEF Release, Pads

(* PAD_setAnalog's centre, of one direction. *)
Center(r, b) ==
  IF b \in r.is THEN [r EXCEPT !.is = @ \ {b}, !.repeated = @ \cap {b}, !.released = @ \cup {b}] ELSE r

LEMMA CenterFields ==
  ASSUME NEW p \in Pads, NEW b \in {"LEFT", "RIGHT"}
  PROVE  /\ Center(p, b) \in Pads
         /\ Center(p, b).is = p.is \ {b}
         /\ Center(p, b).pressed = p.pressed
         /\ Center(p, b).released \subseteq p.released \cup {b}
         /\ p.released \subseteq Center(p, b).released
         /\ Typed(p) => Typed(Center(p, b))
<1>1. CASE b \in p.is
  <2> DEFINE c == [p EXCEPT !.is = @ \ {b}, !.repeated = @ \cap {b}, !.released = @ \cup {b}]
  <2>1. c \in Pads
    BY DEF Pads, Buttons
  <2>2. /\ c.is = p.is \ {b} /\ c.pressed = p.pressed
        /\ c.released = p.released \cup {b} /\ c.repeated = p.repeated \cap {b}
    BY DEF Pads
  <2>3. Center(p, b) = c
    BY <1>1 DEF Center
  <2> HIDE DEF c
  <2> QED BY <2>1, <2>2, <2>3 DEF Typed
<1>2. CASE b \notin p.is
  BY <1>2 DEF Center
<1> QED BY <1>1, <1>2

(* The buttons of the stick pointing to `v'. *)
Dir(v) == IF v = 0 THEN {} ELSE IF v > 0 THEN {"RIGHT"} ELSE {"LEFT"}
Sticks == {"LEFT", "RIGHT"}

(* What the stick makes of the buttons. *)
Moved(p, r, v) ==
  /\ Typed(r)
  /\ r.is \ Sticks = p.is \ Sticks
  /\ r.pressed \subseteq p.pressed \cup Sticks
  /\ p.released \subseteq r.released /\ r.released \subseteq p.released \cup Sticks
  /\ ~(Sticks \subseteq p.is) => r.is \cap Sticks = Dir(v)

LEMMA AnalogMoves ==
  ASSUME NEW p, Typed(p), NEW v \in -1..1
  PROVE  Moved(p, PAD_setAnalog(p, "LEFT", "RIGHT", v), v)
<1> USE DEF Sticks
<1>0. p \in Pads /\ {"LEFT"} \in SUBSET Buttons /\ {"RIGHT"} \in SUBSET Buttons
  BY DEF Typed, Buttons
<1> DEFINE r == PAD_setAnalog(p, "LEFT", "RIGHT", v)
<1> SUFFICES Moved(p, r, v)
  OBVIOUS
<1>1. CASE v = 0
  <2> DEFINE c == Center(p, "LEFT")
             d == Center(c, "RIGHT")
  <2>1. r = d
    BY <1>1 DEF PAD_setAnalog, Center
  <2>2. /\ c \in Pads /\ Typed(c) /\ c.is = p.is \ {"LEFT"} /\ c.pressed = p.pressed
        /\ c.released \subseteq p.released \cup {"LEFT"} /\ p.released \subseteq c.released
    BY <1>0, CenterFields
  <2> HIDE DEF c
  <2>3. /\ Typed(d) /\ d.is = c.is \ {"RIGHT"} /\ d.pressed = c.pressed
        /\ d.released \subseteq c.released \cup {"RIGHT"} /\ c.released \subseteq d.released
    BY <2>2, CenterFields
  <2> HIDE DEF d, r
  <2>4. Dir(v) = {}  BY <1>1 DEF Dir
  <2> QED BY <2>1, <2>2, <2>3, <2>4 DEF Moved
<1>2. ASSUME NEW end \in Sticks, NEW other \in Sticks, end # other, Dir(v) = {end},
             r = IF end \in p.is THEN p
                 ELSE LET q == Press(p, {end}) IN IF other \in q.is THEN Release(q, {other}) ELSE q
      PROVE  Moved(p, r, v)
  <2> HIDE DEF r
  <2>1. CASE end \in p.is
    BY <1>2, <2>1 DEF Moved
  <2>2. CASE end \notin p.is
    <3> DEFINE q == Press(p, {end})
    <3>1. {end} \in SUBSET Buttons /\ {other} \in SUBSET Buttons
      BY <1>0
    <3>2. /\ q \in Pads /\ q.is = p.is \cup {end} /\ q.pressed = p.pressed \cup ({end} \ p.is)
          /\ q.released = p.released /\ q.repeated = p.repeated \cup ({end} \ p.is)
      BY <1>0, <3>1, PressFields
    <3>3. r = IF other \in q.is THEN Release(q, {other}) ELSE q
      BY <1>2, <2>2
    <3> HIDE DEF q
    <3>4. CASE other \in q.is
      <4> DEFINE s == Release(q, {other})
      <4>1. /\ s \in Pads /\ s.is = q.is \ {other} /\ s.pressed = q.pressed
            /\ s.released = q.released \cup {other} /\ s.repeated = q.repeated \ {other}
        BY <3>1, <3>2, ReleaseFields
      <4>2. r = s  BY <3>3, <3>4
      <4> HIDE DEF s
      <4>3. Typed(r)
        BY <4>1, <4>2, <3>2 DEF Typed
      <4>4. r.is = (p.is \cup {end}) \ {other} /\ r.pressed = p.pressed \cup ({end} \ p.is)
            /\ r.released = p.released \cup {other}
        BY <4>1, <4>2, <3>2
      <4>5. Sticks = {end, other}  BY <1>2
      <4> HIDE DEF Sticks
      <4> QED BY <4>3, <4>4, <4>5, <1>2 DEF Moved
    <3>5. CASE other \notin q.is
      <4>1. Typed(q)  BY <3>2 DEF Typed
      <4> QED BY <3>3, <3>5, <3>2, <1>2, <4>1 DEF Moved
    <3> QED BY <3>4, <3>5
  <2> QED BY <2>1, <2>2
<1>3. CASE v = 1
  <2>1. Dir(v) = {"RIGHT"}  BY <1>3 DEF Dir
  <2>2. r = IF "RIGHT" \in p.is THEN p
            ELSE LET q == Press(p, {"RIGHT"}) IN IF "LEFT" \in q.is THEN Release(q, {"LEFT"}) ELSE q
    BY <1>3 DEF PAD_setAnalog
  <2> HIDE DEF r
  <2>3. "RIGHT" \in Sticks /\ "LEFT" \in Sticks /\ "RIGHT" # "LEFT"  OBVIOUS
  <2> QED BY <2>1, <2>2, <2>3, <1>2
<1>4. CASE v = -1
  <2>1. Dir(v) = {"LEFT"}  BY <1>4 DEF Dir
  <2>2. r = IF "LEFT" \in p.is THEN p
            ELSE LET q == Press(p, {"LEFT"}) IN IF "RIGHT" \in q.is THEN Release(q, {"RIGHT"}) ELSE q
    BY <1>4 DEF PAD_setAnalog
  <2> HIDE DEF r
  <2>3. "RIGHT" \in Sticks /\ "LEFT" \in Sticks /\ "RIGHT" # "LEFT"  OBVIOUS
  <2> QED BY <2>1, <2>2, <2>3, <1>2
<1> QED BY <1>1, <1>3, <1>4

(* What an event makes of the buttons. *)
Taking(p, r, e) ==
  /\ Typed(r)
  /\ e.key = "stick" => Moved(p, r, e.value)
  /\ e.key # "stick" /\ e.value = 1 =>
       /\ r.is = p.is \cup dev.keys[e.key] /\ r.pressed \subseteq p.pressed \cup dev.keys[e.key]
       /\ r.released = p.released
  /\ e.key # "stick" /\ e.value # 1 =>
       /\ r.is = p.is \ dev.keys[e.key] /\ r.pressed = p.pressed
       /\ p.released \subseteq r.released /\ r.released \subseteq p.released \cup dev.keys[e.key]
       /\ e.key \notin dev.triggers => dev.keys[e.key] \subseteq r.released

LEMMA TakeTakes ==
  ASSUME NEW p, Typed(p), NEW e \in Event, dev \in Devices
  PROVE  Taking(p, Take(p, e), e)
<1>0. p \in Pads
  BY DEF Typed
<1>1. CASE e.key = "stick"
  <2>1. e.value \in -1..1  BY DEF Event
  <2>2. Take(p, e) = PAD_setAnalog(p, "LEFT", "RIGHT", e.value)  BY <1>1 DEF Take
  <2>3. Moved(p, Take(p, e), e.value)  BY <2>1, <2>2, AnalogMoves
  <2> QED BY <1>1, <2>3 DEF Taking, Moved
<1>2. CASE e.key # "stick"
  <2> DEFINE bs == dev.keys[e.key]
  <2>1. e.key \in Keys  BY <1>2 DEF Event
  <2>2. bs \in SUBSET Buttons
    BY <2>1, DevicesAssumption DEF Keys
  <2> HIDE DEF bs
  <2>3. CASE e.value = 1
    <3> DEFINE r == Press(p, bs)
    <3>1. Take(p, e) = r  BY <1>2, <2>3 DEF Take, bs
    <3>2. /\ r \in Pads /\ r.is = p.is \cup bs /\ r.pressed = p.pressed \cup (bs \ p.is)
          /\ r.released = p.released /\ r.repeated = p.repeated \cup (bs \ p.is)
      BY <1>0, <2>2, PressFields
    <3> HIDE DEF r
    <3>3. Typed(r)  BY <3>2 DEF Typed
    <3> QED BY <3>1, <3>2, <3>3, <1>2, <2>3 DEF Taking, bs
  <2>4. CASE e.value # 1 /\ e.key \in dev.triggers /\ bs \cap p.is = {}
    <3>1. Take(p, e) = p  BY <1>2, <2>4 DEF Take, bs
    <3> QED BY <3>1, <1>2, <2>4 DEF Taking, bs
  <2>5. CASE e.value # 1 /\ ~(e.key \in dev.triggers /\ bs \cap p.is = {})
    <3> DEFINE r == Release(p, bs)
    <3>1. Take(p, e) = r  BY <1>2, <2>5 DEF Take, bs
    <3>2. /\ r \in Pads /\ r.is = p.is \ bs /\ r.pressed = p.pressed
          /\ r.released = p.released \cup bs /\ r.repeated = p.repeated \ bs
      BY <1>0, <2>2, ReleaseFields
    <3> HIDE DEF r
    <3>3. Typed(r)  BY <3>2 DEF Typed
    <3> QED BY <3>1, <3>2, <3>3, <1>2, <2>5 DEF Taking, bs
  <2> QED BY <2>3, <2>4, <2>5
<1> QED BY <1>1, <1>2

-----------------------------------------------------------------------------
(* The events that press `b', and those that let go of it. *)
Pressing(i, b) == queue[i].key # "stick" /\ queue[i].value = 1 /\ b \in dev.keys[queue[i].key]
LettingGo(i, b) == queue[i].key # "stick" /\ queue[i].value # 1 /\ b \in dev.keys[queue[i].key]

(* What the first `n' events make of the buttons `p'. *)
StillPressed(n, p, b) == b \in p.is /\ \A j \in 1..n : ~LettingGo(j, b)
WasPressed(n, b) == \E j \in 1..n : Pressing(j, b) /\ \A l \in (j + 1)..n : ~LettingGo(l, b)
Unmoved(n, p, r) == (\A j \in 1..n : queue[j].key # "stick") /\ r.is \cap Sticks = p.is \cap Sticks
WasMoved(n, r) ==
  \E j \in 1..n : /\ queue[j].key = "stick" /\ r.is \cap Sticks = Dir(queue[j].value)
                  /\ \A l \in (j + 1)..n : queue[l].key # "stick"
ByKeys(n, p, r) ==
  /\ \A b \in r.is \ Sticks : StillPressed(n, p, b) \/ WasPressed(n, b)
  /\ \A b \in r.pressed \ Sticks : \E j \in 1..n : Pressing(j, b)
  /\ \A b \in r.released \ Sticks : \E j \in 1..n : LettingGo(j, b)
  /\ \A j \in 1..n : queue[j].key # "stick" /\ queue[j].value # 1 /\ queue[j].key \notin dev.triggers
                       => dev.keys[queue[j].key] \subseteq r.released
Tally(n, p, r) ==
  /\ Typed(r) /\ ByKeys(n, p, r)
  /\ ~(Sticks \subseteq r.is) /\ (Unmoved(n, p, r) \/ WasMoved(n, r))

Fresh(p) == Typed(p) /\ p.pressed = {} /\ p.released = {} /\ ~(Sticks \subseteq p.is)
Events == queue \in Seq(Event) /\ dev \in Devices

LEMMA EventsAre ==
  ASSUME Events
  PROVE  /\ Len(queue) \in Nat /\ \A i \in 1..Len(queue) : queue[i] \in Event
         /\ \A i \in 1..Len(queue) : queue[i].key # "stick" =>
              queue[i].key \in Keys /\ dev.keys[queue[i].key] \subseteq Buttons \ Sticks
<1>1. Len(queue) \in Nat /\ \A i \in 1..Len(queue) : queue[i] \in Event
  BY DEF Events
<1>2. \A i \in 1..Len(queue) : queue[i].key # "stick" => queue[i].key \in Keys
  BY <1>1 DEF Event
<1>3. \A k \in Keys : dev.keys[k] \subseteq Buttons \ Sticks
  BY DevicesAssumption DEF Events, Keys, Sticks
<1> QED BY <1>1, <1>2, <1>3

LEMMA TallyNext ==
  ASSUME NEW p, Fresh(p), Events, NEW n \in 1..Len(queue), NEW q, NEW r, Tally(n - 1, p, q), Taking(q, r, queue[n])
  PROVE  Tally(n, p, r)
<1> DEFINE e == queue[n]
<1>0. /\ n \in Nat /\ n - 1 \in Nat /\ n \in 1..n
      /\ \A i \in 1..n : i \in 1..(n - 1) \/ i = n
      /\ \A i \in 1..(n - 1) : i \in 1..n /\ n \in (i + 1)..n
      /\ \A i \in 1..(n - 1) : \A l \in (i + 1)..n : l \in (i + 1)..(n - 1) \/ l = n
      /\ \A l \in (n + 1)..n : FALSE
  BY EventsAre
<1>1. Typed(r)
  BY DEF Taking
<1>2. CASE e.key = "stick"
  <2>1. Moved(q, r, e.value)  BY <1>2 DEF Taking
  <2>2. r.is \cap Sticks = Dir(e.value) /\ ~(Sticks \subseteq r.is)
    <3>1. r.is \cap Sticks = Dir(e.value)  BY <2>1 DEF Moved, Tally
    <3>2. Dir(e.value) \in {{}, {"LEFT"}, {"RIGHT"}}  BY DEF Dir
    <3> QED BY <3>1, <3>2 DEF Sticks
  <2>3. WasMoved(n, r)
    BY <2>2, <1>2, <1>0 DEF WasMoved
  <2>4. r.is \ Sticks = q.is \ Sticks /\ r.pressed \ Sticks \subseteq q.pressed \ Sticks
        /\ q.released \subseteq r.released /\ r.released \ Sticks \subseteq q.released \ Sticks
    BY <2>1 DEF Moved
  <2>5. \A b : ~LettingGo(n, b) /\ ~Pressing(n, b)
    BY <1>2 DEF LettingGo, Pressing
  <2>6. \A b \in r.is \ Sticks : StillPressed(n, p, b) \/ WasPressed(n, b)
    <3> TAKE b \in r.is \ Sticks
    <3>1. StillPressed(n - 1, p, b) \/ WasPressed(n - 1, b)  BY <2>4 DEF Tally, ByKeys
    <3> QED BY <3>1, <2>5, <1>0 DEF StillPressed, WasPressed
  <2>7. ByKeys(n, p, r)
    <3>1. \A b \in r.pressed \ Sticks : \E j \in 1..n : Pressing(j, b)
      BY <2>4, <1>0 DEF Tally, ByKeys
    <3>2. \A b \in r.released \ Sticks : \E j \in 1..n : LettingGo(j, b)
      BY <2>4, <1>0 DEF Tally, ByKeys
    <3>3. \A j \in 1..n : queue[j].key # "stick" /\ queue[j].value # 1 /\ queue[j].key \notin dev.triggers
                            => dev.keys[queue[j].key] \subseteq r.released
      BY <2>4, <1>0, <1>2 DEF Tally, ByKeys
    <3> QED BY <2>6, <3>1, <3>2, <3>3 DEF ByKeys
  <2> QED BY <1>1, <2>2, <2>3, <2>7 DEF Tally
<1>3. CASE e.key # "stick"
  <2> DEFINE bs == dev.keys[e.key]
  <2>0. bs \cap Sticks = {}
    BY <1>3, EventsAre
  <2>1. r.is \cap Sticks = q.is \cap Sticks
    BY <1>3, <2>0 DEF Taking
  <2>2. Unmoved(n, p, r) \/ WasMoved(n, r)
    <3>1. CASE Unmoved(n - 1, p, q)
      BY <3>1, <2>1, <1>0, <1>3 DEF Unmoved
    <3>2. CASE WasMoved(n - 1, q)
      BY <3>2, <2>1, <1>0, <1>3 DEF WasMoved
    <3> QED BY <3>1, <3>2 DEF Tally
  <2>3. ~(Sticks \subseteq r.is)
    BY <2>1 DEF Tally
  <2>4. CASE e.value = 1
    <3>1. r.is = q.is \cup bs /\ r.pressed \subseteq q.pressed \cup bs /\ r.released = q.released
      BY <1>3, <2>4 DEF Taking
    <3>2. \A b : ~LettingGo(n, b)
      BY <2>4 DEF LettingGo
    <3>3. \A b \in bs : Pressing(n, b)
      BY <1>3, <2>4 DEF Pressing
    <3>4. \A b \in r.is \ Sticks : StillPressed(n, p, b) \/ WasPressed(n, b)
      <4> TAKE b \in r.is \ Sticks
      <4>1. CASE b \in bs
        BY <3>3, <4>1, <1>0 DEF WasPressed
      <4>2. CASE b \notin bs
        <5>1. StillPressed(n - 1, p, b) \/ WasPressed(n - 1, b)  BY <3>1, <4>2 DEF Tally, ByKeys
        <5> QED BY <5>1, <3>2, <1>0 DEF StillPressed, WasPressed
      <4> QED BY <4>1, <4>2
    <3>5. ByKeys(n, p, r)
      <4>1. \A b \in r.pressed \ Sticks : \E j \in 1..n : Pressing(j, b)
        BY <3>1, <3>3, <1>0 DEF Tally, ByKeys
      <4>2. \A b \in r.released \ Sticks : \E j \in 1..n : LettingGo(j, b)
        BY <3>1, <1>0 DEF Tally, ByKeys
      <4>3. \A j \in 1..n : queue[j].key # "stick" /\ queue[j].value # 1 /\ queue[j].key \notin dev.triggers
                              => dev.keys[queue[j].key] \subseteq r.released
        BY <3>1, <1>0, <2>4 DEF Tally, ByKeys
      <4> QED BY <3>4, <4>1, <4>2, <4>3 DEF ByKeys
    <3> QED BY <1>1, <2>2, <2>3, <3>5 DEF Tally
  <2>5. CASE e.value # 1
    <3>1. /\ r.is = q.is \ bs /\ r.pressed = q.pressed
          /\ q.released \subseteq r.released /\ r.released \subseteq q.released \cup bs
          /\ e.key \notin dev.triggers => bs \subseteq r.released
      BY <1>3, <2>5 DEF Taking
    <3>2. \A b : LettingGo(n, b) <=> b \in bs
      BY <1>3, <2>5 DEF LettingGo
    <3>4. \A b \in r.is \ Sticks : StillPressed(n, p, b) \/ WasPressed(n, b)
      <4> TAKE b \in r.is \ Sticks
      <4>1. StillPressed(n - 1, p, b) \/ WasPressed(n - 1, b)  BY <3>1 DEF Tally, ByKeys
      <4>2. ~LettingGo(n, b)  BY <3>1, <3>2
      <4> QED BY <4>1, <4>2, <1>0 DEF StillPressed, WasPressed
    <3>5. ByKeys(n, p, r)
      <4>1. \A b \in r.pressed \ Sticks : \E j \in 1..n : Pressing(j, b)
        BY <3>1, <1>0 DEF Tally, ByKeys
      <4>2. \A b \in r.released \ Sticks : \E j \in 1..n : LettingGo(j, b)
        BY <3>1, <3>2, <1>0 DEF Tally, ByKeys
      <4>3. \A j \in 1..n : queue[j].key # "stick" /\ queue[j].value # 1 /\ queue[j].key \notin dev.triggers
                              => dev.keys[queue[j].key] \subseteq r.released
        BY <3>1, <1>0 DEF Tally, ByKeys
      <4> QED BY <3>4, <4>1, <4>2, <4>3 DEF ByKeys
    <3> QED BY <1>1, <2>2, <2>3, <3>5 DEF Tally
  <2> QED BY <2>4, <2>5
<1> QED BY <1>2, <1>3

(* A poll's buttons, by its events and the stick. *)
LEMMA PollTallies ==
  ASSUME NEW p, Fresh(p), Events, stick \in -1..1
  PROVE  LET r == Taken(p)
             n == Len(queue)
         IN /\ Typed(r) /\ ByKeys(n, p, r) /\ ~(Sticks \subseteq r.is)
            /\ IF dev.stick = "sampled" THEN r.is \cap Sticks = Dir(stick)
               ELSE Unmoved(n, p, r) \/ WasMoved(n, r)
<1> DEFINE n == Len(queue)
<1>0. n \in Nat
  BY EventsAre
<1>1. PICK f : /\ Steps(f, p)
               /\ Taken(p) = IF dev.stick = "sampled" THEN PAD_setAnalog(f[n], "LEFT", "RIGHT", stick) ELSE f[n]
  BY <1>0, PollSteps
<1> DEFINE S == {i \in 0..n : Tally(i, p, f[i])}
<1>2. 0 \in S
  <2>1. f[0] = p  BY <1>1 DEF Steps
  <2>2. \A b : StillPressed(0, p, b) <=> b \in p.is
    BY DEF StillPressed
  <2>3. ByKeys(0, p, p)
    BY <2>2 DEF ByKeys, Fresh
  <2>4. Unmoved(0, p, p)
    BY DEF Unmoved
  <2> QED BY <1>0, <2>1, <2>3, <2>4 DEF Tally, Fresh
<1>3. ASSUME NEW i \in 1..n, i - 1 \in S  PROVE i \in S
  <2>1. Tally(i - 1, p, f[i - 1])  BY <1>3
  <2>2. f[i] = Take(f[i - 1], queue[i])  BY <1>1, <1>3 DEF Steps
  <2>3. Taking(f[i - 1], f[i], queue[i])
    <3>1. queue[i] \in Event /\ dev \in Devices  BY EventsAre DEF Events
    <3>2. Typed(f[i - 1])  BY <2>1 DEF Tally
    <3> QED BY <2>2, <3>1, <3>2, TakeTakes
  <2>4. Tally(i, p, f[i])  BY <2>1, <2>3, TallyNext
  <2> QED BY <2>4, <1>0
<1>4. Tally(n, p, f[n])
  <2>1. \A i \in 0..n : i \in S
    <3> HIDE DEF S
    <3> QED BY <1>0, <1>2, <1>3, UpTo
  <2> QED BY <2>1, <1>0
<1>5. CASE dev.stick # "sampled"
  BY <1>1, <1>4, <1>5 DEF Tally
<1>6. CASE dev.stick = "sampled"
  <2> DEFINE r == Taken(p)
             q == f[n]
  <2>1. Moved(q, r, stick)
    BY <1>1, <1>4, <1>6, AnalogMoves DEF Tally
  <2>2. Typed(q) /\ ByKeys(n, p, q) /\ ~(Sticks \subseteq q.is)
    BY <1>4 DEF Tally
  <2> HIDE DEF r, q
  <2>3. r.is \cap Sticks = Dir(stick) /\ ~(Sticks \subseteq r.is)
    <3>1. r.is \cap Sticks = Dir(stick)  BY <2>1, <2>2 DEF Moved
    <3>2. Dir(stick) \in {{}, {"LEFT"}, {"RIGHT"}}  BY DEF Dir
    <3> QED BY <3>1, <3>2 DEF Sticks
  <2>4. ByKeys(n, p, r)
    <3>1. /\ r.is \ Sticks = q.is \ Sticks /\ r.pressed \ Sticks \subseteq q.pressed \ Sticks
          /\ q.released \subseteq r.released /\ r.released \ Sticks \subseteq q.released \ Sticks
      BY <2>1 DEF Moved
    <3> QED BY <3>1, <2>2 DEF ByKeys
  <2>5. Typed(r)  BY <2>1 DEF Moved
  <2> QED BY <2>3, <2>4, <2>5, <1>6 DEF r
<1> QED BY <1>5, <1>6

-----------------------------------------------------------------------------
(* The first `n' events without those of the keys, where each was, in order. *)
Kept(q, h, n, keys) ==
  /\ q \in Seq(Event) /\ Len(q) <= n
  /\ h \in [1..Len(q) -> 1..n]
  /\ \A i \in 1..Len(q) : q[i] = queue[h[i]] /\ queue[h[i]].key \notin keys
  /\ \A i, j \in 1..Len(q) : i < j => h[i] < h[j]
  /\ \A j \in 1..n : queue[j].key \notin keys => \E i \in 1..Len(q) : h[i] = j

LEMMA KeptNext ==
  ASSUME Events, NEW keys, NEW n \in 1..Len(queue), NEW q, NEW h, Kept(q, h, n - 1, keys), queue[n].key \notin keys
  PROVE  \E g : Kept(Append(q, queue[n]), g, n, keys)
<1> DEFINE m == Len(q)
           r == Append(q, queue[n])
           g == [i \in 1..(m + 1) |-> IF i = m + 1 THEN n ELSE h[i]]
<1>1. m \in Nat /\ n \in Nat /\ n - 1 \in Nat /\ m <= n - 1 /\ q \in Seq(Event) /\ queue[n] \in Event
  BY EventsAre DEF Kept
<1>2. r \in Seq(Event) /\ Len(r) = m + 1 /\ r[m + 1] = queue[n] /\ \A i \in 1..m : r[i] = q[i]
  BY <1>1
<1>3. /\ \A i \in 1..(m + 1) : i \in 1..m \/ i = m + 1
      /\ \A i \in 1..m : i \in 1..(m + 1) /\ i # m + 1
      /\ m + 1 \in 1..(m + 1) /\ n \in 1..n
      /\ \A i \in 1..(n - 1) : i \in 1..n /\ i < n
      /\ \A i \in 1..n : i \in 1..(n - 1) \/ i = n
  BY <1>1
<1>4. g[m + 1] = n /\ \A i \in 1..m : g[i] = h[i]
  BY <1>3
<1>5. g \in [1..(m + 1) -> 1..n]
  BY <1>3 DEF Kept
<1> HIDE DEF r, g
<1>6. \A i \in 1..m : h[i] \in 1..(n - 1) /\ q[i] = queue[h[i]] /\ queue[h[i]].key \notin keys
  BY DEF Kept
<1>7. \A i \in 1..(m + 1) : r[i] = queue[g[i]] /\ queue[g[i]].key \notin keys
  BY <1>2, <1>3, <1>4, <1>6
<1>8. \A i, j \in 1..(m + 1) : i < j => g[i] < g[j]
  <2> TAKE i, j \in 1..(m + 1)
  <2> HAVE i < j
  <2>1. i \in 1..m  BY <1>1, <1>3
  <2>2. CASE j = m + 1
    BY <2>1, <2>2, <1>3, <1>4, <1>6
  <2>3. CASE j \in 1..m
    BY <2>1, <2>3, <1>4 DEF Kept
  <2> QED BY <2>2, <2>3, <1>3
<1>9. \A j \in 1..n : queue[j].key \notin keys => \E i \in 1..(m + 1) : g[i] = j
  <2> TAKE j \in 1..n
  <2> HAVE queue[j].key \notin keys
  <2>1. CASE j = n
    BY <2>1, <1>3, <1>4
  <2>2. CASE j \in 1..(n - 1)
    <3>1. PICK i \in 1..m : h[i] = j  BY <2>2 DEF Kept
    <3> QED BY <3>1, <1>3, <1>4
  <2> QED BY <2>1, <2>2, <1>3
<1>10. Kept(r, g, n, keys)
  <2>1. m + 1 <= n  BY <1>1
  <2> HIDE DEF m
  <2> QED BY <1>2, <1>5, <1>7, <1>8, <1>9, <2>1 DEF Kept
<1> QED BY <1>10 DEF r

LEMMA WithoutKeeps ==
  ASSUME Events, NEW keys
  PROVE  \E h : Kept(Without(keys), h, Len(queue), keys)
<1> DEFINE N == Len(queue)
           Fold(n, g) == g = [i \in 0..n |-> IF i = 0 THEN <<>> ELSE IF queue[i].key \in keys THEN g[i - 1] ELSE Append(g[i - 1], queue[i])]
           S == {n \in 0..N : \E g : Fold(n, g)}
<1>0. N \in Nat
  BY EventsAre
<1>1. 0 \in S
  <2>1. Fold(0, [i \in 0..0 |-> <<>>])
    OBVIOUS
  <2> HIDE DEF Fold
  <2> QED BY <2>1, <1>0
<1>2. ASSUME NEW n \in 1..N, n - 1 \in S  PROVE n \in S
  <2>1. PICK g : Fold(n - 1, g)
    <3> HIDE DEF Fold
    <3> QED BY <1>2
  <2> DEFINE next(i, x) == IF queue[i].key \in keys THEN x ELSE Append(x, queue[i])
             h == [i \in 0..n |-> IF i = n THEN next(n, g[n - 1]) ELSE g[i]]
  <2>0. n \in Nat  BY <1>0
  <2>2. ASSUME NEW i \in 0..n, i # 0  PROVE h[i] = next(i, h[i - 1])
    <3>1. i - 1 \in 0..n /\ i - 1 # n  BY <2>2, <2>0
    <3>2. h[i - 1] = g[i - 1]  BY <3>1
    <3>3. CASE i = n  BY <3>2, <3>3
    <3>4. CASE i # n
      <4>1. i \in 0..(n - 1)  BY <3>4, <2>0
      <4>2. g[i] = next(i, g[i - 1])  BY <2>1, <4>1, <2>2
      <4> QED BY <3>2, <4>2, <3>4
    <3> QED BY <3>3, <3>4
  <2>3. h[0] = <<>>
    <3>1. 0 \in 0..n /\ 0 # n /\ 0 \in 0..(n - 1)  BY <2>0
    <3> QED BY <3>1, <2>1
  <2>4. Fold(n, h)
    <3> HIDE DEF h
    <3>1. h = [i \in 0..n |-> h[i]]  BY DEF h
    <3> QED BY <3>1, <2>2, <2>3
  <2> HIDE DEF Fold, h
  <2> QED BY <2>4, <1>0
<1>3. \E g : Fold(N, g)
  <2> HIDE DEF Fold
  <2>1. \A i \in 0..N : i \in S
    <3> HIDE DEF S
    <3> QED BY <1>0, <1>1, <1>2, UpTo
  <2> QED BY <2>1, <1>0
<1> DEFINE f == CHOOSE g : Fold(N, g)
<1>4. Fold(N, f)
  <2> HIDE DEF Fold
  <2> QED BY <1>3
<1>5. Without(keys) = f[N]
  BY DEF Without
<1>6. f[0] = <<>> /\ \A i \in 1..N : f[i] = IF queue[i].key \in keys THEN f[i - 1] ELSE Append(f[i - 1], queue[i])
  <2> HIDE DEF f
  <2>1. 0 \in 0..N /\ \A i \in 1..N : i \in 0..N /\ i # 0  BY <1>0
  <2> QED BY <1>4, <2>1
<1> HIDE DEF f, Fold, S
<1> DEFINE R == {i \in 0..N : \E h : Kept(f[i], h, i, keys)}
<1>7. 0 \in R
  <2>1. Kept(<<>>, <<>>, 0, keys)
    BY DEF Kept
  <2> QED BY <2>1, <1>6, <1>0
<1>8. ASSUME NEW i \in 1..N, i - 1 \in R  PROVE i \in R
  <2>1. PICK h : Kept(f[i - 1], h, i - 1, keys)
    BY <1>8
  <2>2. CASE queue[i].key \notin keys
    <3>1. \E g : Kept(Append(f[i - 1], queue[i]), g, i, keys)
      BY <2>1, <2>2, KeptNext
    <3>2. f[i] = Append(f[i - 1], queue[i])
      BY <1>6, <2>2
    <3>3. \E g : Kept(f[i], g, i, keys)
      BY ONLY <3>1, <3>2
    <3>4. i \in 0..N
      BY <1>0
    <3> QED BY <3>3, <3>4
  <2>3. CASE queue[i].key \in keys
    <3>1. f[i] = f[i - 1]  BY <1>6, <2>3
    <3>2. i \in Nat /\ i - 1 \in Nat /\ \A j \in 1..i : j \in 1..(i - 1) \/ j = i
      BY <1>0
    <3>3. Kept(f[i - 1], h, i, keys)
      <4> DEFINE q == f[i - 1]
      <4>1. q \in Seq(Event) /\ Len(q) <= i - 1 /\ h \in [1..Len(q) -> 1..(i - 1)]
        BY <2>1 DEF Kept
      <4>2. Len(q) <= i /\ h \in [1..Len(q) -> 1..i]
        <5>1. Len(q) \in Nat  BY <4>1
        <5> HIDE DEF q
        <5>2. 1..(i - 1) \subseteq 1..i  BY <3>2
        <5> QED BY <5>1, <5>2, <4>1, <3>2
      <4>3. \A j \in 1..i : queue[j].key \notin keys => \E l \in 1..Len(q) : h[l] = j
        BY <2>1, <2>3, <3>2 DEF Kept
      <4> QED BY <2>1, <4>1, <4>2, <4>3 DEF Kept
    <3> QED BY <3>1, <3>3, <1>0
  <2> QED BY <2>2, <2>3
<1>9. \A i \in 0..N : i \in R
  <2> HIDE DEF R
  <2> QED BY <1>0, <1>7, <1>8, UpTo
<1> QED BY <1>5, <1>9, <1>0

-----------------------------------------------------------------------------
(* The kinds of steps: a look at what was polled, and the hands.             *)
Looks ==
  /\ pc = "look" /\ \E to \in Modes : PWR_update(to) \/ NoUpdate(to)
  /\ EndOfFrame
  /\ menu' \in {menu, 0} /\ tapping' \in BOOLEAN /\ ignore' \in BOOLEAN /\ defer' \in BOOLEAN
Hands ==
  /\ Unread /\ SameProgram
  /\ \/ \E k \in Keys : Key(k) \/ Touch(k)
     \/ \E v \in -1..1 : Stick(v)
     \/ Lid \/ Charger \/ Gamepad

Flags == {plugged, open, charging, lid, defer, was_charging, tapping, ignore, missed, read} \subseteq BOOLEAN
Ages == idle \in 0..SLEEP_DELAY /\ power \in None..HOLD_DELAY /\ menu \in None..MENU_DELAY /\ slept \in 0..OFF_DELAY
(* What was polled is looked at before more comes; a sleep forgets.          *)
Phases ==
  /\ mode \in Modes /\ pc \in {"poll", "look", "asleep", "off"}
  /\ pc = "look" => queue = <<>>
  /\ pc = "asleep" => power = None /\ pad = PAD_reset
Types ==
  /\ Events /\ Len(queue) <= MaxQueue /\ down \subseteq Keys /\ stick \in -1..1
  /\ Typed(pad) /\ ~(Sticks \subseteq pad.is)
  /\ Flags /\ Ages /\ Phases

LEMMA InModes ==
  \A s \in {"top", "version", "game", "menu", "options", "bind"} : s \in Modes
  BY DEF Modes

LEMMA LooksLook ==
  ASSUME Types, Launcher \/ Game \/ InGameMenu \/ Options \/ Bind
  PROVE  Looks
<1>0. Flags /\ mode \in Modes
  BY DEF Types, Phases
<1>1. CASE Launcher
  <2>1. pc = "look" /\ EndOfFrame /\ defer' = defer /\ ignore' = ignore
    BY <1>1 DEF Launcher
  <2>2. (\E to \in Modes : PWR_update(to)) /\ (NotAsked \/ PAD_tappedMenu)
    <3>1. CASE sleeps  BY <1>0, <1>1, <3>1 DEF Launcher
    <3>2. CASE ~sleeps /\ mode = "version" /\ "A" \in pad.pressed
      BY <1>1, <3>2, InModes DEF Launcher
    <3>3. CASE ~sleeps /\ ~(mode = "version" /\ "A" \in pad.pressed)
      <4>1. PAD_tappedMenu /\ PWR_update(IF ~Tapped THEN mode ELSE IF mode = "top" THEN "version" ELSE "top")
        BY <1>1, <3>3 DEF Launcher
      <4>2. (IF ~Tapped THEN mode ELSE IF mode = "top" THEN "version" ELSE "top") \in Modes
        BY <1>0, InModes
      <4> QED BY <4>1, <4>2
    <3> QED BY <3>1, <3>2, <3>3
  <2> QED BY <2>1, <2>2, <1>0 DEF Looks, NotAsked, PAD_tappedMenu, Flags
<1>2. CASE Game
  <2>1. pc = "look" /\ EndOfFrame /\ defer' = defer /\ NotAsked
    BY <1>2 DEF Game
  <2>2. (\E to \in Modes : PWR_update(to)) /\ ignore' \in BOOLEAN
    BY <1>2, <1>0, InModes DEF Game, Flags
  <2> QED BY <2>1, <2>2, <1>0 DEF Looks, NotAsked, Flags
<1>3. CASE InGameMenu
  <2>1. pc = "look" /\ EndOfFrame /\ defer' = FALSE /\ ignore' = ignore
    BY <1>3 DEF InGameMenu
  <2>2. (\E to \in Modes : PWR_update(to) \/ NoUpdate(to)) /\ (NotAsked \/ PAD_tappedMenu)
    <3> HIDE DEF NotAsked, PAD_tappedMenu
    <3> QED BY <1>3, InModes DEF InGameMenu
  <2> QED BY <2>1, <2>2, <1>0 DEF Looks, NotAsked, PAD_tappedMenu, Flags
<1>4. CASE Options
  <2>1. pc = "look" /\ EndOfFrame /\ NotAsked /\ ignore' = ignore
    BY <1>4 DEF Options
  <2>2. \E to \in Modes : PWR_update(to) \/ NoUpdate(to)
    BY <1>4, InModes DEF Options
  <2>3. defer' \in BOOLEAN  BY <1>4 DEF Options
  <2> QED BY <2>1, <2>2, <2>3, <1>0 DEF Looks, NotAsked, Flags
<1>5. CASE Bind
  <2>1. pc = "look" /\ EndOfFrame /\ NotAsked /\ ignore' = ignore /\ defer' \in {defer, TRUE}
    BY <1>5 DEF Bind
  <2>2. \E to \in Modes : NoUpdate(to)
    BY <1>5, InModes DEF Bind
  <2> QED BY <2>1, <2>2, <1>0 DEF Looks, NotAsked, Flags
<1> QED BY <1>1, <1>2, <1>3, <1>4, <1>5

LEMMA HandsMove ==
  ASSUME (\E k \in Keys : Key(k) \/ Touch(k)) \/ (\E v \in -1..1 : Stick(v)) \/ Lid \/ Charger \/ Gamepad
  PROVE  Hands
<1>1. CASE \E k \in Keys : Key(k) \/ Touch(k)
  BY <1>1 DEF Hands, Key, Touch
<1>2. CASE \E v \in -1..1 : Stick(v)
  BY <1>2 DEF Hands, Stick
<1>3. CASE Lid \/ Charger \/ Gamepad
  BY <1>3 DEF Hands, Lid, Charger, Gamepad
<1> QED BY <1>1, <1>2, <1>3

LEMMA StepsAre ==
  ASSUME Types, Next
  PROVE  \/ PLAT_pollInput \/ PWR_waitForWake \/ Looks \/ Launch \/ VIB_thread
         \/ (\E s \in 0..1 : VIB_setStrength(s)) \/ Hands
  BY HandsMove, LooksLook DEF Next

-----------------------------------------------------------------------------
LEMMA OlderAges ==
  ASSUME NEW most \in Nat, NEW age \in None..most, NEW by \in Nat
  PROVE  /\ Older(age, most, by) \in None..most /\ (age # None => Older(age, most, by) \in 0..most)
         /\ (Older(age, most, by) = None <=> age = None)
  BY DEF Older, None

(* What a poll starts from.                                                  *)
LEMMA PollStarts ==
  ASSUME Typed(pad), NEW due \in SUBSET pad.is
  PROVE  LET p == [PAD_reset EXCEPT !.is = pad.is, !.repeated = due]
         IN Typed(p) /\ p.is = pad.is /\ p.pressed = {} /\ p.released = {}
<1> DEFINE p == [PAD_reset EXCEPT !.is = pad.is, !.repeated = due]
<1>1. pad.is \in SUBSET Buttons /\ due \in SUBSET Buttons
  BY DEF Typed, Pads
<1>2. p.is = pad.is /\ p.repeated = due /\ p.pressed = {} /\ p.released = {}
  BY DEF PAD_reset
<1>3. p \in Pads
  BY <1>1 DEF PAD_reset, Pads
<1> HIDE DEF p
<1>4. Typed(p)
  BY <1>2, <1>3 DEF Typed
<1> QED BY <1>2, <1>4 DEF p

LEMMA ResetTyped ==
  /\ Typed(PAD_reset) /\ PAD_reset.is = {} /\ PAD_reset.pressed = {} /\ PAD_reset.released = {}
<1>1. PAD_reset \in Pads
  BY DEF PAD_reset, Pads
<1> QED BY <1>1 DEF PAD_reset, Typed

LEMMA LeftTyped ==
  ASSUME Typed(pad), NEW to
  PROVE  /\ Typed(Left(to)) /\ Left(to).is \subseteq pad.is
         /\ Left(to).pressed = {} /\ Left(to).released = {}
<1>1. pad.is \in SUBSET Buttons
  BY DEF Typed, Pads
<1> DEFINE r == [PAD_reset EXCEPT !.is = pad.is]
<1>2. r \in Pads /\ r.is = pad.is /\ r.pressed = {} /\ r.released = {} /\ r.repeated = {}
  BY <1>1 DEF PAD_reset, Pads
<1> HIDE DEF r
<1>3. Typed(r)
  BY <1>2 DEF Typed
<1>4. Left(to) = PAD_reset \/ Left(to) = r
  BY DEF Left, r
<1> QED BY <1>2, <1>3, <1>4, ResetTyped

(* A look leaves nothing pressed or let go of, and of the held what was.     *)
LEMMA LookLeaves ==
  ASSUME Typed(pad), Looks
  PROVE  /\ Typed(pad') /\ pad'.is \subseteq pad.is /\ pad'.pressed = {} /\ pad'.released = {}
         /\ pc' \in {"poll", "asleep", "off"} /\ mode' \in Modes
         /\ pc' = "asleep" => power' = None /\ pad' = PAD_reset /\ sleeps
         /\ missed' \in BOOLEAN \/ missed \notin BOOLEAN
<1>1. PICK to \in Modes : PWR_update(to) \/ NoUpdate(to)
  BY DEF Looks
<1>2. /\ pad' \in {PAD_reset, Left(to)} /\ mode' = to
      /\ pc' \in {"poll", "asleep", "off"}
      /\ pc' = "asleep" => sleeps /\ pad' = PAD_reset /\ power' = None
      /\ missed' \in BOOLEAN \/ missed \notin BOOLEAN
  <2>1. CASE NoUpdate(to)
    BY <2>1 DEF NoUpdate
  <2>2. CASE PWR_update(to)
    <3>1. pad' = IF sleeps THEN PAD_reset ELSE Left(to)
      BY <2>2 DEF PWR_update, Forgotten
    <3>2. pc' = IF power >= HOLD_DELAY THEN "off" ELSE IF sleeps THEN "asleep" ELSE "poll"
      BY <2>2 DEF PWR_update
    <3>3. power' = power_pressed_at /\ mode' = to /\ missed' = (missed /\ ~sleeps)
      BY <2>2 DEF PWR_update
    <3>4. sleeps => power_pressed_at = None
      BY DEF power_pressed_at
    <3> QED BY <3>1, <3>2, <3>3, <3>4
  <2> QED BY <1>1, <2>1, <2>2
<1> QED BY <1>1, <1>2, LeftTyped, ResetTyped

LEMMA DelaysAre ==
  /\ SLEEP_DELAY \in Nat /\ SLEEP_DELAY # 0 /\ HOLD_DELAY \in Nat /\ HOLD_DELAY # 0
  /\ MENU_DELAY \in Nat /\ MENU_DELAY # 0 /\ OFF_DELAY \in Nat /\ OFF_DELAY # 0
  /\ DEFER_FRAMES \in Nat /\ MaxQueue \in Nat /\ None \notin Nat
  BY DelaysAssumption DEF None

LEMMA AgesAre ==
  ASSUME Ages
  PROVE  /\ 0 \in 0..SLEEP_DELAY /\ 0 \in None..HOLD_DELAY /\ None \in None..HOLD_DELAY
         /\ 0 \in None..MENU_DELAY /\ 0 \in 0..OFF_DELAY
         /\ \A by \in Nat : /\ Older(idle, SLEEP_DELAY, by) \in 0..SLEEP_DELAY
                            /\ Older(power, HOLD_DELAY, by) \in None..HOLD_DELAY
                            /\ Older(power, HOLD_DELAY, by) = None <=> power = None
                            /\ Older(menu, MENU_DELAY, by) \in None..MENU_DELAY
<1>1. /\ 0 \in 0..SLEEP_DELAY /\ 0 \in None..HOLD_DELAY /\ None \in None..HOLD_DELAY
      /\ 0 \in None..MENU_DELAY /\ 0 \in 0..OFF_DELAY
  BY DelaysAre DEF None
<1>2. idle \in None..SLEEP_DELAY /\ idle # None /\ power \in None..HOLD_DELAY /\ menu \in None..MENU_DELAY
  BY DelaysAre DEF Ages, None
<1>3. \A by \in Nat : Older(idle, SLEEP_DELAY, by) \in 0..SLEEP_DELAY
  BY <1>2, DelaysAre, OlderAges
<1>4. \A by \in Nat : Older(power, HOLD_DELAY, by) \in None..HOLD_DELAY /\ (Older(power, HOLD_DELAY, by) = None <=> power = None)
  BY <1>2, DelaysAre, OlderAges
<1>5. \A by \in Nat : Older(menu, MENU_DELAY, by) \in None..MENU_DELAY
  BY <1>2, DelaysAre, OlderAges
<1> QED BY <1>1, <1>3, <1>4, <1>5

LEMMA PollTypes ==
  ASSUME Types, PLAT_pollInput
  PROVE  Types'
<1> USE DelaysAre
<1>1. PICK due \in SUBSET pad.is, by \in Frames :
        /\ LET p == Taken([PAD_reset EXCEPT !.is = pad.is, !.repeated = due]) IN
           pad' = IF PLAT_lidChanged THEN [p EXCEPT !.released = @ \cup {dev.sleep}] ELSE p
        /\ idle' = Older(idle, SLEEP_DELAY, by) /\ power' = Older(power, HOLD_DELAY, by)
        /\ menu' = Older(menu, MENU_DELAY, by)
  BY DEF PLAT_pollInput
<1> DEFINE p0 == [PAD_reset EXCEPT !.is = pad.is, !.repeated = due]
           p == Taken(p0)
<1>2. Fresh(p0)
  BY PollStarts DEF Types, Fresh
<1> HIDE DEF p0
<1>3. Typed(p) /\ ~(Sticks \subseteq p.is)
  BY <1>2, PollTallies DEF Types
<1>4. pad' = p \/ pad' = [p EXCEPT !.released = @ \cup {dev.sleep}]
  BY <1>1 DEF p0
<1>5. dev.sleep \in Buttons
  BY DevicesAssumption DEF Types, Events, Buttons
<1>6. Typed(pad)' /\ ~(Sticks \subseteq pad.is)'
  <2> HIDE DEF p
  <2> DEFINE r == [p EXCEPT !.released = @ \cup {dev.sleep}]
  <2>1. r \in Pads
    BY <1>3, <1>5 DEF Typed, Pads
  <2>2. r.is = p.is /\ r.pressed = p.pressed /\ r.repeated = p.repeated /\ r.released = p.released \cup {dev.sleep}
    BY <1>3 DEF Typed, Pads
  <2> HIDE DEF r
  <2>3. Typed(r)
    BY <1>3, <2>1, <2>2 DEF Typed
  <2> QED BY <1>3, <1>4, <2>2, <2>3 DEF r, Typed, Pads
<1>7. /\ pc = "poll" /\ pc' = "look" /\ queue' = <<>> /\ lid' = (IF dev.lid THEN open ELSE lid)
      /\ dev' = dev /\ down' = down /\ stick' = stick /\ plugged' = plugged /\ open' = open
      /\ charging' = charging /\ mode' = mode /\ defer' = defer /\ slept' = slept /\ was_charging' = was_charging
      /\ tapping' = tapping /\ ignore' = ignore /\ vib' = vib /\ missed' = missed /\ why' = why /\ asked' = asked
  BY DEF PLAT_pollInput
<1>8. read' \in BOOLEAN
  BY DEF PLAT_pollInput
<1>9. Flags'
  BY <1>7, <1>8 DEF Flags, Types
<1>10. Ages'
  <2>1. by \in Nat  BY DelaysAssumption
  <2> QED BY <2>1, <1>1, <1>7, AgesAre DEF Ages, Types
<1>11. (Events /\ Len(queue) <= MaxQueue)'
  BY <1>7 DEF Types, Events
<1>12. (down \subseteq Keys /\ stick \in -1..1)'
  BY <1>7 DEF Types, Keys
<1>13. Phases'
  BY <1>7 DEF Types, Phases
<1> QED BY <1>6, <1>9, <1>10, <1>11, <1>12, <1>13 DEF Types

LEMMA WakeTypes ==
  ASSUME Types, PWR_waitForWake
  PROVE  Types'
<1> USE DelaysAre
<1> DEFINE opened == dev.lid /\ open /\ ~lid
           ups == {i \in 1..Len(queue) : PAD_wake(i)}
           first == CHOOSE i \in ups : \A j \in ups : i <= j
           wakes == opened \/ (ups # {} /\ lid')
           long == slept + 1 >= OFF_DELAY
<1>1. /\ pc = "asleep" /\ lid' = (IF dev.lid THEN open ELSE lid)
      /\ dev' = dev /\ down' = down /\ stick' = stick /\ plugged' = plugged /\ open' = open
      /\ charging' = charging /\ pad' = pad /\ mode' = mode /\ defer' = defer /\ idle' = idle /\ power' = power
      /\ was_charging' = was_charging /\ tapping' = tapping /\ ignore' = ignore /\ vib' = vib
      /\ missed' = missed /\ asked' = asked /\ menu' = Older(menu, MENU_DELAY, MENU_DELAY)
  BY DEF PWR_waitForWake
<1>2. /\ queue' = IF opened THEN queue ELSE IF ups = {} THEN <<>> ELSE SubSeq(queue, first + 1, Len(queue))
      /\ pc' \in {"poll", "off", "asleep"}
      /\ slept' = IF wakes THEN 0 ELSE sleep_ticks(long)
      /\ read' = (read /\ ~wakes)
  BY DEF PWR_waitForWake
<1>3. queue' \in Seq(Event) /\ Len(queue') <= MaxQueue
  <2>1. queue \in Seq(Event) /\ Len(queue) \in Nat /\ Len(queue) <= MaxQueue
    BY EventsAre DEF Types, Events
  <2>2. CASE queue' = queue
    BY <2>1, <2>2
  <2>3. CASE queue' = <<>>
    BY <2>3
  <2>4. CASE ups # {} /\ queue' = SubSeq(queue, first + 1, Len(queue))
    <3>1. first \in ups
      <4>1. ups \subseteq Nat  OBVIOUS
      <4>2. \E i \in ups : \A j \in ups : i <= j  BY <4>1, <2>4, FirstOf
      <4> HIDE DEF ups
      <4> QED BY <4>2
    <3>2. first \in 1..Len(queue)  BY <3>1
    <3> HIDE DEF first, ups
    <3>3. Len(queue') <= Len(queue) /\ queue' \in Seq(Event)  BY <2>4, <3>2, <2>1
    <3>4. Len(queue') \in Nat  BY <3>3
    <3> QED BY <3>3, <3>4, <2>1
  <2> QED BY <1>2, <2>2, <2>3, <2>4
<1>4. Flags'
  <2>1. read' \in BOOLEAN  BY <1>2
  <2> QED BY <2>1, <1>1 DEF Flags, Types
<1>5. Ages'
  <2>1. menu' \in None..MENU_DELAY  BY <1>1, AgesAre DEF Types
  <2>2. slept' \in 0..OFF_DELAY
    <3>1. slept \in 0..OFF_DELAY  BY DEF Types, Ages
    <3>2. OFF_DELAY \div 2 \in 0..OFF_DELAY  OBVIOUS
    <3>3. slept' \in {0, OFF_DELAY \div 2, slept + 1} /\ (slept' = slept + 1 => ~long \/ slept' \in {0, OFF_DELAY \div 2})
      BY <1>2 DEF sleep_ticks
    <3> QED BY <3>1, <3>2, <3>3
  <2> QED BY <2>1, <2>2, <1>1 DEF Ages, Types
<1>6. (Events /\ Len(queue) <= MaxQueue)'
  BY <1>1, <1>3 DEF Types, Events, Event, Keys
<1>7. (down \subseteq Keys /\ stick \in -1..1)'
  BY <1>1 DEF Types, Keys
<1>8. Phases'
  <2> HIDE DEF opened, ups, first, wakes, long
  <2> QED BY <1>1, <1>2 DEF Types, Phases
<1>9. Typed(pad)' /\ ~(Sticks \subseteq pad.is)'
  BY <1>1 DEF Types, Typed, Pads
<1> QED BY <1>4, <1>5, <1>6, <1>7, <1>8, <1>9 DEF Types

LEMMA LookTypes ==
  ASSUME Types, Looks
  PROVE  Types'
<1> USE DelaysAre
<1>1. /\ pc = "look" /\ dev' = dev /\ down' = down /\ stick' = stick /\ plugged' = plugged /\ queue' = queue
      /\ open' = open /\ charging' = charging /\ lid' = lid /\ read' = read
      /\ menu' \in {menu, 0} /\ tapping' \in BOOLEAN /\ ignore' \in BOOLEAN /\ defer' \in BOOLEAN
  BY DEF Looks, EndOfFrame, world
<1>2. PICK to \in Modes : PWR_update(to) \/ NoUpdate(to)
  BY DEF Looks
<1>3. /\ was_charging' \in BOOLEAN /\ missed' \in BOOLEAN
      /\ idle' \in {idle, 0} /\ power' \in {power, 0, None} /\ slept' \in {slept, 0}
  <2>1. was_charging \in BOOLEAN /\ charging \in BOOLEAN
    BY DEF Types, Flags
  <2>2. last_input_at \in {idle, 0} /\ power_pressed_at \in {power, 0, None}
    BY DEF last_input_at, power_pressed_at
  <2>3. CASE PWR_update(to)
    <3>1. idle' \in {idle, 0} /\ power' \in {power, 0, None} /\ slept' = 0 /\ missed' = (missed /\ ~sleeps)
      BY <2>2, <2>3 DEF PWR_update
    <3>2. was_charging' \in {charging, was_charging}
      BY <2>3 DEF PWR_update
    <3> QED BY <2>1, <3>1, <3>2
  <2>4. CASE NoUpdate(to)
    <3>1. idle' = idle /\ power' = power /\ slept' = slept /\ was_charging' = was_charging
          /\ missed' = (missed \/ dev.sleep \in pad.released)
      BY <2>4 DEF NoUpdate
    <3> QED BY <2>1, <3>1
  <2> QED BY <1>2, <2>3, <2>4
<1>4. Flags'
  BY <1>1, <1>3 DEF Types, Flags
<1>5. Ages'
  <2>1. Ages  BY DEF Types
  <2> QED BY <1>1, <1>3, <2>1, AgesAre DEF Ages
<1>6. (Events /\ Len(queue) <= MaxQueue)'
  BY <1>1 DEF Types, Events, Event, Keys
<1>7. (down \subseteq Keys /\ stick \in -1..1)'
  BY <1>1 DEF Types, Keys
<1>8. /\ Typed(pad') /\ pad'.is \subseteq pad.is
      /\ pc' \in {"poll", "asleep", "off"} /\ mode' \in Modes
      /\ pc' = "asleep" => power' = None /\ pad' = PAD_reset
  BY LookLeaves DEF Types
<1>9. Phases'
  BY <1>8 DEF Phases
<1>10. Typed(pad)' /\ ~(Sticks \subseteq pad.is)'
  BY <1>8 DEF Types, Typed, Pads
<1> QED BY <1>4, <1>5, <1>6, <1>7, <1>9, <1>10 DEF Types

LEMMA LaunchTypes ==
  ASSUME Types, Launch
  PROVE  Types'
<1> USE DelaysAre
<1>1. /\ pc = "poll" /\ mode' = "game" /\ pad' = PAD_reset
      /\ idle' = 0 /\ power' = None /\ menu' = None /\ tapping' = TRUE /\ ignore' = FALSE /\ was_charging' = charging
      /\ dev' = dev /\ down' = down /\ stick' = stick /\ plugged' = plugged /\ queue' = <<>>
      /\ open' = open /\ charging' = charging /\ lid' = TRUE /\ pc' = pc /\ defer' = defer /\ slept' = slept
      /\ missed' = FALSE /\ read' \in BOOLEAN
  BY DEF Launch, Types, Flags
<1>2. Flags'
  BY <1>1 DEF Types, Flags
<1>3. Ages'
  <2>1. Ages  BY DEF Types
  <2>2. None \in None..MENU_DELAY  BY DEF None
  <2> QED BY <1>1, <2>1, <2>2, AgesAre DEF Ages
<1>4. (Events /\ Len(queue) <= MaxQueue)'
  BY <1>1 DEF Types, Events, Event, Keys
<1>5. (down \subseteq Keys /\ stick \in -1..1)'
  BY <1>1 DEF Types, Keys
<1>6. Phases'
  BY <1>1, InModes DEF Types, Phases
<1>7. Typed(pad)' /\ ~(Sticks \subseteq pad.is)'
  BY <1>1, ResetTyped DEF Typed, Pads, Sticks
<1> QED BY <1>2, <1>3, <1>4, <1>5, <1>6, <1>7 DEF Types

LEMMA SameTypes ==
  ASSUME Types, UNCHANGED <<world, pad, lid, mode, pc, defer, ages, was_charging, tapping, ignore, missed, read>>
  PROVE  Types'
  BY DEF Types, Events, Event, Keys, Flags, Ages, Phases, Typed, Pads, world, ages

-----------------------------------------------------------------------------
(* What the hands do to the queue: one more event, or those without some of  *)
(* the keys, or nothing.                                                     *)
HandTypes == queue' \in Seq(Event) /\ Len(queue') <= MaxQueue /\ down' \subseteq Keys /\ stick' \in -1..1
             /\ {plugged', open', charging'} \subseteq BOOLEAN

LEMMA AddTypes ==
  ASSUME Types, NEW k \in Keys \cup {"stick"}, NEW v \in -1..1, Queue(k, v), k # "stick" => v \in 0..1
  PROVE  queue' \in Seq(Event) /\ Len(queue') <= MaxQueue
<1>1. queue \in Seq(Event) /\ Len(queue) \in Nat
  BY EventsAre DEF Types, Events
<1>2. [key |-> k, value |-> v] \in Event
  BY DEF Event
<1>3. Len(queue) < MaxQueue /\ queue' = Append(queue, [key |-> k, value |-> v])
  BY DEF Queue
<1> QED BY <1>1, <1>2, <1>3, DelaysAre

LEMMA HandsType ==
  ASSUME Types, Hands
  PROVE  HandTypes
<1>0. /\ down \subseteq Keys /\ stick \in -1..1 /\ queue \in Seq(Event) /\ Len(queue) <= MaxQueue
      /\ plugged \in BOOLEAN /\ open \in BOOLEAN /\ charging \in BOOLEAN
  BY DEF Types, Events, Flags
<1>1. ASSUME NEW k \in Keys, Key(k)  PROVE HandTypes
  <2>1. /\ (down' = down \ {k} /\ Queue(k, 0)) \/ (down' = down \cup {k} /\ Queue(k, 1))
        /\ stick' = stick /\ plugged' = plugged /\ open' = open /\ charging' = charging
    BY <1>1 DEF Key
  <2>2. queue' \in Seq(Event) /\ Len(queue') <= MaxQueue
    BY <2>1, AddTypes
  <2> QED BY <1>0, <2>1, <2>2 DEF HandTypes
<1>2. ASSUME NEW k \in Keys, Touch(k)  PROVE HandTypes
  <2>1. Queue(k, 0) /\ down' = down /\ stick' = stick /\ plugged' = plugged /\ open' = open /\ charging' = charging
    BY <1>2 DEF Touch
  <2>2. queue' \in Seq(Event) /\ Len(queue') <= MaxQueue
    BY <2>1, AddTypes
  <2> QED BY <1>0, <2>1, <2>2 DEF HandTypes
<1>3. ASSUME NEW v \in -1..1, Stick(v)  PROVE HandTypes
  <2>1. /\ Queue("stick", v) \/ queue' = queue
        /\ stick' = v /\ down' = down /\ plugged' = plugged /\ open' = open /\ charging' = charging
    BY <1>3 DEF Stick
  <2>2. queue' \in Seq(Event) /\ Len(queue') <= MaxQueue
    BY <2>1, <1>0, AddTypes
  <2> QED BY <1>0, <2>1, <2>2 DEF HandTypes
<1>4. CASE Lid
  <2>1. open' \in BOOLEAN  BY <1>4 DEF Lid
  <2> QED BY <1>0, <1>4, <2>1 DEF HandTypes, Lid
<1>5. CASE Charger
  <2>1. charging' \in BOOLEAN  BY <1>5 DEF Charger
  <2> QED BY <1>0, <1>5, <2>1 DEF HandTypes, Charger
<1>6. CASE Gamepad
  <2>1. PICK h : Kept(Without(dev.pad), h, Len(queue), dev.pad)
    BY WithoutKeeps DEF Types
  <2>2. queue' = Without(dev.pad) /\ down' = down \ dev.pad /\ stick' = stick /\ open' = open /\ charging' = charging
    BY <1>6 DEF Gamepad
  <2>3. plugged' \in BOOLEAN
    BY <1>6 DEF Gamepad
  <2>4. queue' \in Seq(Event) /\ Len(queue') <= Len(queue)
    BY <2>1, <2>2 DEF Kept
  <2>5. Len(queue') <= MaxQueue
    <3>1. Len(queue') \in Nat /\ Len(queue) \in Nat  BY <2>4, <1>0
    <3> QED BY <3>1, <2>4, <1>0, DelaysAre
  <2> QED BY <1>0, <2>2, <2>3, <2>4, <2>5 DEF HandTypes
<1> QED BY <1>1, <1>2, <1>3, <1>4, <1>5, <1>6 DEF Hands

LEMMA HandsTypes ==
  ASSUME Types, Hands
  PROVE  Types'
<1>1. /\ dev' = dev /\ pad' = pad /\ lid' = lid /\ mode' = mode /\ pc' = pc /\ defer' = defer
      /\ idle' = idle /\ power' = power /\ menu' = menu /\ slept' = slept
      /\ was_charging' = was_charging /\ tapping' = tapping /\ ignore' = ignore /\ missed' = missed /\ read' = read
      /\ pc # "look"
  BY DEF Hands, SameProgram, ages, Unread
<1>2. HandTypes
  BY HandsType
<1>3. (Events /\ Len(queue) <= MaxQueue /\ down \subseteq Keys /\ stick \in -1..1)'
  BY <1>1, <1>2 DEF HandTypes, Types, Events, Event, Keys
<1>4. Flags'
  BY <1>1, <1>2 DEF HandTypes, Types, Flags
<1>5. (Ages /\ Phases)'
  BY <1>1 DEF Types, Ages, Phases
<1>6. Typed(pad)' /\ ~(Sticks \subseteq pad.is)'
  BY <1>1 DEF Types, Typed, Pads
<1> QED BY <1>3, <1>4, <1>5, <1>6 DEF Types

LEMMA TypesNext ==
  ASSUME Types, [Next]_vars
  PROVE  Types'
<1>1. CASE Next
  <2>1. CASE VIB_thread
    BY <2>1, SameTypes DEF VIB_thread, history
  <2>2. CASE \E s \in 0..1 : VIB_setStrength(s)
    BY <2>2, SameTypes DEF VIB_setStrength
  <2> QED BY <1>1, <2>1, <2>2, StepsAre, PollTypes, WakeTypes, LookTypes, LaunchTypes, HandsTypes
<1>2. CASE UNCHANGED vars
  BY <1>2, SameTypes DEF vars, history
<1> QED BY <1>1, <1>2

LEMMA TypesInit ==
  ASSUME Init
  PROVE  Types
<1>1. Flags /\ Phases
  <2>1. /\ plugged = TRUE /\ open = TRUE /\ charging = FALSE /\ lid = TRUE /\ defer = FALSE
        /\ was_charging = FALSE /\ tapping = TRUE /\ ignore = FALSE /\ missed = FALSE /\ read = FALSE
        /\ mode = "top" /\ pc = "poll"
    BY DEF Init
  <2> QED BY <2>1, InModes DEF Flags, Phases
<1>2. Ages
  <2>1. idle = 0 /\ power = None /\ menu = None /\ slept = 0
    BY DEF Init
  <2> QED BY <2>1, DelaysAre DEF Ages, None
<1>3. Events /\ Len(queue) <= MaxQueue /\ down \subseteq Keys /\ stick \in -1..1
  <2>1. dev \in Devices /\ queue = <<>> /\ down = {} /\ stick = 0
    BY DEF Init
  <2> QED BY <2>1, DelaysAre DEF Events
<1>4. Typed(pad) /\ ~(Sticks \subseteq pad.is)
  BY ResetTyped DEF Init, Sticks
<1> QED BY <1>1, <1>2, <1>3, <1>4 DEF Types

-----------------------------------------------------------------------------
(* The motor.                                                                *)
Motor ==
  /\ vib \in [queued : 0..1, strength : 0..1, defer : 0..DEFER_FRAMES, saved : 0..1]
  /\ asked \in [strength : 0..1, behind : BOOLEAN]
(* Without a game the motor is asked for nothing; a menu keeps for the game  *)
(* what the core asked for last.                                             *)
Strength ==
  /\ mode \in {"top", "version"} => vib.queued = 0 /\ asked.strength = 0 /\ ~asked.behind
  /\ mode \in {"menu", "options", "bind"} => vib.queued = 0 /\ (~asked.behind => vib.saved = asked.strength)
  /\ mode = "game" /\ ~asked.behind => vib.queued = asked.strength

LEMMA MotorNext ==
  ASSUME Types, Motor, Strength, [Next]_vars
  PROVE  Motor' /\ Strength'
<1>0. /\ vib.queued \in 0..1 /\ vib.strength \in 0..1 /\ vib.saved \in 0..1 /\ vib.defer \in 0..DEFER_FRAMES
      /\ asked.strength \in 0..1 /\ asked.behind \in BOOLEAN /\ DEFER_FRAMES \in Nat
  BY DelaysAre DEF Motor
<1>m. \A to : PWR_update(to) \/ NoUpdate(to) => mode' = to
  BY DEF PWR_update, NoUpdate
<1>1. CASE vib' = vib /\ asked' = asked /\ mode' = mode
  BY <1>1 DEF Motor, Strength
<1>2. CASE Launcher
  <2>1. vib' = vib /\ asked' = asked /\ mode \in {"top", "version"}
    BY <1>2 DEF Launcher
  <2>2. mode' \in {"top", "version"}
    <3>1. CASE sleeps
      BY <1>m, <2>1, <1>2, <3>1 DEF Launcher
    <3>2. CASE ~sleeps
      BY <1>m, <2>1, <1>2, <3>2 DEF Launcher
    <3> QED BY <3>1, <3>2
  <2> QED BY <2>1, <2>2 DEF Motor, Strength
<1>3. CASE Launch
  BY <1>3, <1>0 DEF Launch, Motor, Strength
<1>4. CASE Game
  <2> DEFINE used == "MENU" \in pad.is /\ "PLUS" \in pad.is
             ignored == used \/ (ignore /\ "MENU" \notin pad.pressed)
             opens == ~sleeps /\ ~ignored /\ "MENU" \in pad.released
  <2>1. /\ mode = "game" /\ PWR_update(IF opens THEN "menu" ELSE "game")
        /\ vib' = IF opens THEN [vib EXCEPT !.saved = vib.strength, !.queued = 0] ELSE vib
        /\ asked' = IF opens THEN [asked EXCEPT !.behind = @ \/ vib.strength # vib.queued] ELSE asked
    BY <1>4 DEF Game
  <2>2. mode' = IF opens THEN "menu" ELSE "game"
    BY <2>1, <1>m
  <2> HIDE DEF opens
  <2>3. CASE opens
    <3>1. mode' = "menu" /\ vib' = [vib EXCEPT !.saved = vib.strength, !.queued = 0]
          /\ asked' = [asked EXCEPT !.behind = @ \/ vib.strength # vib.queued]
      BY <2>1, <2>2, <2>3
    <3>2. Motor'
      <4>1. vib' \in [queued : 0..1, strength : 0..1, defer : 0..DEFER_FRAMES, saved : 0..1]
        <5>1. vib' = [vib EXCEPT !.saved = vib.strength, !.queued = 0]  BY <3>1
        <5>2. vib \in [queued : 0..1, strength : 0..1, defer : 0..DEFER_FRAMES, saved : 0..1]  BY DEF Motor
        <5>3. vib.strength \in 0..1 /\ 0 \in 0..1  BY <1>0
        <5> QED BY ONLY <5>1, <5>2, <5>3
      <4>2. (asked.behind \/ vib.strength # vib.queued) \in BOOLEAN
        OBVIOUS
      <4>3. asked' \in [strength : 0..1, behind : BOOLEAN]
        BY <3>1, <1>0, <4>2 DEF Motor
      <4> QED BY <4>1, <4>3 DEF Motor
    <3>3. /\ vib'.queued = 0 /\ vib'.saved = vib.strength /\ asked'.strength = asked.strength
          /\ asked'.behind = (asked.behind \/ vib.strength # vib.queued)
      BY <3>1 DEF Motor
    <3>4. ~asked'.behind => vib'.saved = asked'.strength
      BY <3>3, <2>1 DEF Strength
    <3> QED BY <3>1, <3>2, <3>3, <3>4 DEF Strength
  <2>4. CASE ~opens
    BY <2>1, <2>2, <2>4, <1>1
  <2> QED BY <2>3, <2>4
<1>5. CASE InGameMenu
  <2>1. mode = "menu" /\ asked' = asked /\ vib' = IF mode' = "game" THEN GivenBack ELSE vib
    BY <1>5 DEF InGameMenu
  <2>2. mode' \in {"game", "options", "menu"}
    <3>1. \E to \in {"game", "options", "menu"} : PWR_update(to) \/ NoUpdate(to)
      BY <1>5 DEF InGameMenu
    <3> QED BY <3>1, <1>m
  <2>3. CASE mode' = "game"
    <3>1. vib' = IF vib.saved # 0 THEN [vib EXCEPT !.queued = vib.saved] ELSE vib
      BY <2>1, <2>3 DEF GivenBack
    <3>2. vib'.queued = vib.saved
      BY <3>1, <2>1 DEF Strength, Motor
    <3>3. Motor'
      BY <3>1, <2>1, <1>0 DEF Motor
    <3> QED BY <3>2, <3>3, <2>1, <2>3 DEF Strength
  <2>4. CASE mode' # "game"
    BY <2>1, <2>2, <2>4 DEF Motor, Strength
  <2> QED BY <2>3, <2>4
<1>6. CASE Options
  <2>1. mode = "options" /\ vib' = vib /\ asked' = asked
    BY <1>6 DEF Options
  <2>2. mode' \in {"menu", "options", "bind"}
    <3>1. \E to \in {"menu", "options", "bind"} : PWR_update(to) \/ NoUpdate(to)
      BY <1>6 DEF Options
    <3> QED BY <3>1, <1>m
  <2> QED BY <2>1, <2>2 DEF Motor, Strength
<1>7. CASE Bind
  <2>1. mode = "bind" /\ vib' = vib /\ asked' = asked
    BY <1>7 DEF Bind
  <2>2. mode' \in {"options", "bind"}
    BY <1>7, <1>m DEF Bind
  <2> QED BY <2>1, <2>2 DEF Motor, Strength
<1>8. CASE VIB_thread
  <2>1. mode' = mode /\ asked' = asked
    BY <1>8 DEF VIB_thread, history
  <2>2. \/ vib' = [vib EXCEPT !.defer = @ + 1] /\ vib.defer < DEFER_FRAMES
        \/ vib' = [vib EXCEPT !.strength = vib.queued, !.defer = 0]
    BY <1>8 DEF VIB_thread
  <2>3. Motor' /\ vib'.queued = vib.queued /\ vib'.saved = vib.saved
    <3>1. CASE vib' = [vib EXCEPT !.defer = @ + 1] /\ vib.defer < DEFER_FRAMES
      BY <3>1, <2>1, <1>0 DEF Motor
    <3>2. CASE vib' = [vib EXCEPT !.strength = vib.queued, !.defer = 0]
      <4>1. 0 \in 0..DEFER_FRAMES  BY <1>0
      <4>2. vib' \in [queued : 0..1, strength : 0..1, defer : 0..DEFER_FRAMES, saved : 0..1]
        BY <3>2, <4>1, <1>0 DEF Motor
      <4>3. vib'.queued = vib.queued /\ vib'.saved = vib.saved
        BY <3>2 DEF Motor
      <4> QED BY <4>2, <4>3, <2>1 DEF Motor
    <3> QED BY <2>2, <3>1, <3>2
  <2> QED BY <2>1, <2>3 DEF Strength
<1>9. ASSUME NEW s \in 0..1, VIB_setStrength(s)  PROVE Motor' /\ Strength'
  <2>1. mode = "game" /\ mode' = mode /\ vib' = [vib EXCEPT !.queued = s] /\ asked' = [strength |-> s, behind |-> FALSE]
    BY <1>9 DEF VIB_setStrength
  <2>2. Motor'
    BY <2>1, <1>0 DEF Motor
  <2>3. vib'.queued = s /\ asked'.strength = s
    BY <2>1 DEF Motor
  <2> QED BY <2>1, <2>2, <2>3 DEF Strength
<1>10. CASE PLAT_pollInput \/ PWR_waitForWake
  BY <1>1, <1>10 DEF PLAT_pollInput, PWR_waitForWake
<1>11. CASE Hands
  BY <1>1, <1>11 DEF Hands, SameProgram
<1>12. CASE UNCHANGED vars
  BY <1>1, <1>12 DEF vars, history
<1>13. CASE Next
  BY <1>2, <1>3, <1>4, <1>5, <1>6, <1>7, <1>8, <1>9, <1>10, <1>11, <1>13, HandsMove DEF Next
<1> QED BY <1>12, <1>13

-----------------------------------------------------------------------------
(* What a poll makes of the pad: the events and the stick, then the lid.     *)
Polled(r) ==
  /\ Typed(r) /\ ByKeys(Len(queue), pad, r)
  /\ IF dev.stick = "sampled" THEN r.is \cap Sticks = Dir(stick)
     ELSE Unmoved(Len(queue), pad, r) \/ WasMoved(Len(queue), r)
  /\ pad'.is = r.is /\ pad'.pressed = r.pressed
  /\ pad'.released = IF PLAT_lidChanged THEN r.released \cup {dev.sleep} ELSE r.released

LEMMA PollMakes ==
  ASSUME Types, PLAT_pollInput
  PROVE  \E r : Polled(r)
<1>1. PICK due \in SUBSET pad.is :
        LET p == Taken([PAD_reset EXCEPT !.is = pad.is, !.repeated = due]) IN
        pad' = IF PLAT_lidChanged THEN [p EXCEPT !.released = @ \cup {dev.sleep}] ELSE p
  BY DEF PLAT_pollInput
<1> DEFINE p0 == [PAD_reset EXCEPT !.is = pad.is, !.repeated = due]
           r == Taken(p0)
           n == Len(queue)
<1>2. Fresh(p0) /\ p0.is = pad.is
  BY PollStarts DEF Types, Fresh
<1> HIDE DEF p0
<1>3. /\ Typed(r) /\ ByKeys(n, p0, r)
      /\ IF dev.stick = "sampled" THEN r.is \cap Sticks = Dir(stick) ELSE Unmoved(n, p0, r) \/ WasMoved(n, r)
  BY <1>2, PollTallies DEF Types
<1>4. ByKeys(n, pad, r) /\ (Unmoved(n, p0, r) => Unmoved(n, pad, r))
  BY <1>2, <1>3 DEF ByKeys, StillPressed, Unmoved
<1>5. pad' = IF PLAT_lidChanged THEN [r EXCEPT !.released = @ \cup {dev.sleep}] ELSE r
  BY <1>1 DEF p0
<1> HIDE DEF r
<1>6. /\ pad'.is = r.is /\ pad'.pressed = r.pressed
      /\ pad'.released = IF PLAT_lidChanged THEN r.released \cup {dev.sleep} ELSE r.released
  <2>1. CASE PLAT_lidChanged
    BY <1>3, <1>5, <2>1 DEF Typed, Pads
  <2>2. CASE ~PLAT_lidChanged
    BY <1>5, <2>2
  <2> QED BY <2>1, <2>2
<1>7. Polled(r)
  BY <1>3, <1>4, <1>6 DEF Polled
<1> QED BY <1>7

LEMMA PollKeeps ==
  ASSUME PLAT_pollInput
  PROVE  /\ pc = "poll" /\ pc' = "look" /\ queue' = <<>> /\ lid' = (IF dev.lid THEN open ELSE lid)
         /\ dev' = dev /\ down' = down /\ stick' = stick /\ missed' = missed /\ why' = why
         /\ orphans' = orphans \cap pad'.is
         /\ read' = (read \/ \E i \in 1..Len(queue) : Pressing(i, dev.sleep))
<1>1. /\ pc = "poll" /\ pc' = "look" /\ queue' = <<>> /\ lid' = (IF dev.lid THEN open ELSE lid)
      /\ dev' = dev /\ down' = down /\ stick' = stick /\ missed' = missed /\ why' = why
      /\ orphans' = orphans \cap pad'.is
  BY DEF PLAT_pollInput
<1>2. read' = (read \/ \E i \in 1..Len(queue) : Pressing(i, dev.sleep))
  BY DEF PLAT_pollInput, SleepPressed, Pressing
<1> QED BY <1>1, <1>2

(* A look that does not sleep either leaves the loop to PWR_update or notes  *)
(* the release it drops.                                                     *)
LEMMA LookOutcome ==
  ASSUME Looks
  PROVE  /\ dev' = dev /\ down' = down /\ stick' = stick /\ queue' = queue /\ lid' = lid /\ read' = read
         /\ orphans' = orphans \cap pad'.is
         /\ \/ /\ pc' # "poll" \/ ~sleeps
               /\ pc' = "asleep" => sleeps
               /\ power' = power_pressed_at
               /\ missed' = (missed /\ ~sleeps)
               /\ why' = IF ~sleeps THEN "" ELSE IF asked_to_sleep THEN "button" ELSE "idle"
            \/ /\ pc' = "poll" /\ power' = power /\ missed' = (missed \/ dev.sleep \in pad.released) /\ why' = why
<1>1. PICK to \in Modes : PWR_update(to) \/ NoUpdate(to)
  BY DEF Looks
<1>2. /\ dev' = dev /\ down' = down /\ stick' = stick /\ queue' = queue /\ lid' = lid /\ read' = read
      /\ orphans' = orphans \cap pad'.is
  BY DEF Looks, EndOfFrame, world
<1>3. CASE NoUpdate(to)
  BY <1>2, <1>3 DEF NoUpdate
<1>4. CASE PWR_update(to)
  <2>1. pc' = IF power >= HOLD_DELAY THEN "off" ELSE IF sleeps THEN "asleep" ELSE "poll"
    BY <1>4 DEF PWR_update
  <2>2. /\ power' = power_pressed_at /\ missed' = (missed /\ ~sleeps)
        /\ why' = IF ~sleeps THEN "" ELSE IF asked_to_sleep THEN "button" ELSE "idle"
    BY <1>4 DEF PWR_update
  <2>3. (pc' # "poll" \/ ~sleeps) /\ (pc' = "asleep" => sleeps)
    BY <2>1
  <2> QED BY <1>2, <2>2, <2>3
<1> QED BY <1>1, <1>3, <1>4

-----------------------------------------------------------------------------
(* A lid seen closed has let go of the button that sleeps, for the look to   *)
(* act upon.                                                                 *)
LidSeen ==
  dev.lid /\ ~lid /\ ~missed => pc # "poll" /\ (pc = "look" => dev.sleep \in pad.released)

LEMMA LidNext ==
  ASSUME Types, LidSeen, [Next]_vars
  PROVE  LidSeen'
<1>d. /\ dev \in Devices /\ (dev.lid => dev.sleep = "POWER") /\ missed \in BOOLEAN /\ lid \in BOOLEAN /\ open \in BOOLEAN
      /\ dev.lid \in BOOLEAN
  BY DevicesAssumption DEF Types, Events, Flags
<1>1. CASE PLAT_pollInput
  <2>1. PICK r : Polled(r)
    BY <1>1, PollMakes
  <2>2. PLAT_lidChanged => dev.sleep \in pad'.released
    BY <2>1 DEF Polled
  <2>3. dev.lid /\ ~lid' /\ ~missed => PLAT_lidChanged
    BY <1>1, <1>d, PollKeeps DEF LidSeen, PLAT_lidChanged
  <2> QED BY <1>1, <2>2, <2>3, PollKeeps DEF LidSeen
<1>2. CASE PWR_waitForWake
  <2>1. pc = "asleep" /\ lid' = (IF dev.lid THEN open ELSE lid) /\ dev' = dev /\ missed' = missed
    BY <1>2 DEF PWR_waitForWake
  <2>2. pc' # "look" /\ (pc' = "poll" => (dev.lid /\ open /\ ~lid) \/ lid')
    BY <1>2 DEF PWR_waitForWake
  <2> QED BY <2>1, <2>2 DEF LidSeen
<1>3. CASE Looks
  <2>1. pc = "look" /\ dev' = dev /\ lid' = lid /\ pc' # "look"
    BY <1>3, LookOutcome, LookLeaves DEF Looks, Types
  <2> SUFFICES ASSUME dev.lid, ~lid, ~missed', pc' = "poll"  PROVE FALSE
    BY <2>1 DEF LidSeen
  <2>2. ~missed => dev.sleep \in pad.released
    BY <2>1 DEF LidSeen
  <2>3. dev.sleep \in pad.released => sleeps
    BY <1>d DEF sleeps, asked_to_sleep, can_sleep, HasPower
  <2>4. CASE missed' = (missed \/ dev.sleep \in pad.released)
    BY <2>2, <2>4
  <2>5. CASE missed' = (missed /\ ~sleeps) /\ (pc' # "poll" \/ ~sleeps)
    BY <2>2, <2>3, <2>5
  <2> QED BY <1>3, <2>4, <2>5, LookOutcome
<1>4. CASE UNCHANGED <<dev, lid, missed, pc, pad>>
  BY <1>4 DEF LidSeen
<1>5. CASE Launch
  BY <1>5 DEF Launch, LidSeen
<1>6. CASE Next
  <2>1. CASE VIB_thread
    BY <2>1, <1>4 DEF VIB_thread, world, history
  <2>2. CASE \E s \in 0..1 : VIB_setStrength(s)
    BY <2>2, <1>4 DEF VIB_setStrength, world
  <2>3. CASE Hands
    BY <2>3, <1>4 DEF Hands, SameProgram
  <2> QED BY <1>6, <2>1, <2>2, <2>3, <1>1, <1>2, <1>3, <1>5, StepsAre
<1>7. CASE UNCHANGED vars
  BY <1>7, <1>4 DEF vars, world, history
<1> QED BY <1>6, <1>7

-----------------------------------------------------------------------------
(* What is left of the queue by a wait: its last events.                     *)
Suffix(m) ==
  /\ m \in 0..Len(queue) /\ Len(queue') = Len(queue) - m
  /\ \A i \in 1..Len(queue') : m + i \in 1..Len(queue) /\ queue'[i] = queue[m + i]

LEMMA WakeKeeps ==
  ASSUME Types, PWR_waitForWake
  PROVE  /\ pc = "asleep" /\ dev' = dev /\ down' = down /\ stick' = stick /\ pad' = pad
         /\ power' = power /\ orphans' = orphans /\ missed' = missed /\ why' = why
         /\ pc' \in {"poll", "off", "asleep"}
         /\ IF pc' = "poll" THEN read' = FALSE ELSE read' = read
         /\ \E m \in 0..Len(queue) : Suffix(m) /\ (pc' = "poll" /\ dev.lid # TRUE => m # 0 /\ PAD_wake(m))
<1> DEFINE opened == dev.lid /\ open /\ ~lid
           ups == {i \in 1..Len(queue) : PAD_wake(i)}
           first == CHOOSE i \in ups : \A j \in ups : i <= j
           wakes == opened \/ (ups # {} /\ lid')
<1>1. /\ pc = "asleep" /\ dev' = dev /\ down' = down /\ stick' = stick /\ pad' = pad
      /\ power' = power /\ orphans' = orphans /\ missed' = missed /\ why' = why
  BY DEF PWR_waitForWake
<1>2. /\ queue' = IF opened THEN queue ELSE IF ups = {} THEN <<>> ELSE SubSeq(queue, first + 1, Len(queue))
      /\ pc' \in {"poll", "off", "asleep"} /\ (pc' = "poll" <=> wakes)
      /\ read' = (read /\ ~wakes)
  BY DEF PWR_waitForWake
<1>3. queue \in Seq(Event) /\ Len(queue) \in Nat /\ read \in BOOLEAN /\ dev.lid \in BOOLEAN
  BY EventsAre, DevicesAssumption DEF Types, Events, Flags
<1>4. IF pc' = "poll" THEN read' = FALSE ELSE read' = read
  BY <1>2, <1>3
<1>5. CASE opened
  <2>1. Suffix(0)  BY <1>2, <1>3, <1>5 DEF Suffix
  <2> QED BY <1>1, <1>2, <1>3, <1>4, <1>5, <2>1
<1>6. CASE ~opened /\ ups = {}
  <2>1. Suffix(Len(queue))  BY <1>2, <1>3, <1>6 DEF Suffix
  <2>2. pc' # "poll"  BY <1>2, <1>6
  <2>3. Len(queue) \in 0..Len(queue)  BY <1>3
  <2> QED BY <1>1, <1>2, <1>4, <2>1, <2>2, <2>3
<1>7. CASE ~opened /\ ups # {}
  <2>1. first \in ups
    <3>1. ups \subseteq Nat
      OBVIOUS
    <3>2. \E i \in ups : \A j \in ups : i <= j
      BY <3>1, <1>7, FirstOf
    <3> HIDE DEF ups
    <3> QED BY <3>2
  <2>2. first \in 1..Len(queue) /\ PAD_wake(first)
    BY <2>1
  <2>3. queue' = SubSeq(queue, first + 1, Len(queue))
    BY <1>2, <1>7
  <2> HIDE DEF first, ups, opened
  <2>4. Suffix(first)
    <3>1. first + 1 \in 1..(Len(queue) + 1) /\ first \in Nat  BY <2>2, <1>3
    <3>2. Len(queue') = Len(queue) - first
      BY <2>2, <2>3, <1>3, <3>1
    <3>3. \A i \in 1..(Len(queue) - first) : queue'[i] = queue[first + i]
      BY <2>2, <2>3, <1>3, <3>1
    <3>4. \A i \in 1..(Len(queue) - first) : first + i \in 1..Len(queue)
      BY <2>2, <1>3
    <3> QED BY <3>2, <3>3, <3>4, <2>2, <1>3 DEF Suffix
  <2>5. first \in 0..Len(queue) /\ first # 0  BY <2>2, <1>3
  <2> QED BY <1>1, <1>2, <1>4, <2>2, <2>4, <2>5
<1> QED BY <1>5, <1>6, <1>7

-----------------------------------------------------------------------------
(* What the hands do to the keys, the stick and the queue.                   *)
Adds(k, v) ==
  LET n == Len(queue) IN
  /\ Len(queue') = n + 1 /\ \A i \in 1..n : queue'[i] = queue[i]
  /\ queue'[n + 1].key = k /\ queue'[n + 1].value = v
LetGo(k) == k \in down /\ down' = down \ {k} /\ Adds(k, 0) /\ stick' = stick /\ orphans' = orphans
Presses(k) == k \notin down /\ down' = down \cup {k} /\ Adds(k, 1) /\ stick' = stick /\ orphans' = orphans
Touches(k) == k \in dev.triggers \ down /\ down' = down /\ Adds(k, 0) /\ stick' = stick /\ orphans' = orphans
Points == /\ dev.stick # "none" /\ down' = down /\ orphans' = orphans
          /\ (dev.stick = "events" /\ Adds("stick", stick')) \/ (dev.stick = "sampled" /\ queue' = queue)
Pulls ==
  /\ \E h : Kept(queue', h, Len(queue), dev.pad)
  /\ down' = down \ dev.pad /\ stick' = stick
  /\ orphans' = orphans \cup UNION {dev.keys[k] \cap pad.is : k \in dev.pad}
Idles == down' = down /\ stick' = stick /\ queue' = queue /\ orphans' = orphans

LEMMA AddAdds ==
  ASSUME Types, NEW k, NEW v, Queue(k, v), k \in Keys \cup {"stick"}, v \in -1..1, k # "stick" => v \in 0..1
  PROVE  Adds(k, v)
<1> DEFINE e == [key |-> k, value |-> v]
           n == Len(queue)
<1>1. queue \in Seq(Event) /\ n \in Nat /\ e \in Event
  BY EventsAre DEF Types, Events, Event
<1>2. queue' = Append(queue, e)
  BY DEF Queue
<1>3. e.key = k /\ e.value = v
  OBVIOUS
<1> HIDE DEF e
<1>4. Len(queue') = n + 1 /\ \A i \in 1..n : queue'[i] = queue[i]
  BY <1>1, <1>2
<1>5. queue'[n + 1] = e
  BY <1>1, <1>2
<1> QED BY <1>3, <1>4, <1>5 DEF Adds

LEMMA HandsDo ==
  ASSUME Types, Hands
  PROVE  /\ pc # "look" /\ dev' = dev /\ pad' = pad /\ lid' = lid /\ pc' = pc /\ power' = power
         /\ missed' = missed /\ read' = read /\ why' = why
         /\ (\E k \in Keys : LetGo(k) \/ Presses(k) \/ Touches(k)) \/ Points \/ Pulls \/ Idles
<1>1. /\ pc # "look" /\ dev' = dev /\ pad' = pad /\ lid' = lid /\ pc' = pc /\ power' = power
      /\ missed' = missed /\ read' = read /\ why' = why
  BY DEF Hands, Unread, SameProgram, ages
<1>2. ASSUME NEW k \in Keys, Key(k)  PROVE LetGo(k) \/ Presses(k)
  <2>1. CASE k \in down
    <3>1. down' = down \ {k} /\ Queue(k, 0) /\ stick' = stick /\ orphans' = orphans  BY <1>2, <2>1 DEF Key
    <3>2. Adds(k, 0)  BY <3>1, AddAdds
    <3> QED BY <2>1, <3>1, <3>2 DEF LetGo
  <2>2. CASE k \notin down
    <3>1. down' = down \cup {k} /\ Queue(k, 1) /\ stick' = stick /\ orphans' = orphans  BY <1>2, <2>2 DEF Key
    <3>2. Adds(k, 1)  BY <3>1, AddAdds
    <3> QED BY <2>2, <3>1, <3>2 DEF Presses
  <2> QED BY <2>1, <2>2
<1>3. ASSUME NEW k \in Keys, Touch(k)  PROVE Touches(k)
  <2>1. k \in dev.triggers \ down /\ Queue(k, 0) /\ down' = down /\ stick' = stick /\ orphans' = orphans
    BY <1>3 DEF Touch
  <2>2. Adds(k, 0)  BY <2>1, AddAdds
  <2> QED BY <2>1, <2>2 DEF Touches
<1>4. ASSUME NEW v \in -1..1, Stick(v)  PROVE Points
  <2>1. /\ dev.stick # "none" /\ stick' = v /\ down' = down /\ orphans' = orphans
        /\ IF dev.stick = "events" THEN Queue("stick", v) ELSE queue' = queue
    BY <1>4 DEF Stick
  <2>2. dev.stick \in {"none", "sampled", "events"}
    BY DevicesAssumption DEF Types, Events
  <2>3. CASE dev.stick = "events"
    <3>1. Adds("stick", stick')  BY <2>1, <2>3, AddAdds
    <3> QED BY <2>1, <2>3, <3>1 DEF Points
  <2> QED BY <2>1, <2>2, <2>3 DEF Points
<1>5. ASSUME Lid \/ Charger  PROVE Idles
  BY <1>5 DEF Lid, Charger, Idles
<1>6. ASSUME Gamepad  PROVE Pulls
  <2>1. /\ down' = down \ dev.pad /\ queue' = Without(dev.pad) /\ stick' = stick
        /\ orphans' = orphans \cup UNION {dev.keys[k] \cap pad.is : k \in dev.pad}
    BY <1>6 DEF Gamepad
  <2>2. \E h : Kept(queue', h, Len(queue), dev.pad)
    BY <2>1, WithoutKeeps DEF Types
  <2> QED BY <2>1, <2>2 DEF Pulls
<1> QED BY <1>1, <1>2, <1>3, <1>4, <1>5, <1>6 DEF Hands

-----------------------------------------------------------------------------
(* A key whose press is not followed by its release is down.                 *)
KeysDown ==
  \A i \in 1..Len(queue) :
    /\ queue[i].key # "stick" /\ queue[i].value = 1
    /\ \A j \in (i + 1)..Len(queue) : queue[j].key = queue[i].key => queue[j].value = 1
    => queue[i].key \in down
(* What is pressed, and no event lets go of it, is held.                     *)
ButtonsHeld ==
  \A b \in (pad.is \ orphans) \ Sticks :
    (\A i \in 1..Len(queue) : ~LettingGo(i, b)) => \E k \in down : b \in dev.keys[k]
(* The stick points where its last event says; without an event, a direction *)
(* that is pressed is the stick's.                                           *)
NoStickEvent == \A i \in 1..Len(queue) : queue[i].key # "stick"
StickPoints ==
  /\ dev.stick # "events" => NoStickEvent
  /\ dev.stick = "none" => stick = 0
  /\ \A i \in 1..Len(queue) : queue[i].key = "stick" /\ (\A j \in (i + 1)..Len(queue) : queue[j].key # "stick")
       => queue[i].value = stick
  /\ dev.stick # "sampled" /\ NoStickEvent => pad.is \cap Sticks \subseteq Dir(stick)
  /\ pc = "look" => pad.is \cap Sticks \subseteq Dir(stick)

Held == KeysDown /\ ButtonsHeld /\ StickPoints

LEMMA Lengths ==
  ASSUME Types
  PROVE  /\ Len(queue) \in Nat
         /\ \A i \in 1..Len(queue) : i \in 1..(Len(queue) + 1) /\ i # Len(queue) + 1
         /\ \A i \in 1..(Len(queue) + 1) : i \in 1..Len(queue) \/ i = Len(queue) + 1
         /\ \A i \in 1..Len(queue) : /\ Len(queue) + 1 \in (i + 1)..(Len(queue) + 1)
                                     /\ \A j \in (i + 1)..Len(queue) : j \in (i + 1)..(Len(queue) + 1) /\ j \in 1..Len(queue)
         /\ Len(queue) + 1 \in 1..(Len(queue) + 1) /\ \A j \in (Len(queue) + 2)..(Len(queue) + 1) : FALSE
  BY EventsAre DEF Types

(* An event more, which keeps the keys true.                                 *)
LEMMA AddHeld ==
  ASSUME Types, Held, dev' = dev, pad' = pad, pc' = pc, pc # "look", orphans' = orphans,
         NEW k \in Keys \cup {"stick"}, NEW v, Adds(k, v),
         k # "stick" => stick' = stick,
         k = "stick" => stick' = v /\ down' = down /\ dev.stick = "events",
         k # "stick" /\ v = 1 => down' = down \cup {k},
         k # "stick" /\ v # 1 => down' = down \/ down' = down \ {k}
  PROVE  Held'
<1> DEFINE n == Len(queue)
<1>0. /\ n \in Nat
      /\ \A i \in 1..n : i \in 1..(n + 1) /\ i # n + 1
      /\ \A i \in 1..(n + 1) : i \in 1..n \/ i = n + 1
      /\ \A i \in 1..n : n + 1 \in (i + 1)..(n + 1) /\ \A j \in (i + 1)..n : j \in (i + 1)..(n + 1) /\ j \in 1..n
      /\ n + 1 \in 1..(n + 1)
  BY Lengths
<1>1. /\ Len(queue') = n + 1 /\ \A i \in 1..n : queue'[i] = queue[i]
      /\ queue'[n + 1].key = k /\ queue'[n + 1].value = v
  BY DEF Adds
<1>2. down \subseteq Keys /\ "stick" \notin Keys
  BY DevicesAssumption DEF Types, Events, Keys
<1> HIDE DEF n
<1>3. ASSUME NEW i \in 1..(n + 1), queue'[i].key # "stick", queue'[i].value = 1,
             \A j \in (i + 1)..(n + 1) : queue'[j].key = queue'[i].key => queue'[j].value = 1
      PROVE  queue'[i].key \in down'
  <2>1. CASE i = n + 1
    BY <2>1, <1>1, <1>3
  <2>2. CASE i \in 1..n
    <3>1. queue[i].key # "stick" /\ queue[i].value = 1
      BY <2>2, <1>1, <1>3
    <3>2. \A j \in (i + 1)..n : queue[j].key = queue[i].key => queue[j].value = 1
      BY <2>2, <1>0, <1>1, <1>3
    <3>3. queue[i].key \in down
      BY <3>1, <3>2, <2>2 DEF Held, KeysDown, n
    <3>4. k = queue[i].key => v = 1
      BY <2>2, <1>0, <1>1, <1>3
    <3>5. queue'[i].key = queue[i].key
      BY <2>2, <1>1
    <3> QED BY <3>1, <3>3, <3>4, <3>5
  <2> QED BY <2>1, <2>2, <1>0
<1>4. KeysDown'
  BY <1>1, <1>3 DEF KeysDown
<1>5. ButtonsHeld'
  <2> SUFFICES ASSUME NEW b \in (pad.is \ orphans) \ Sticks, \A i \in 1..(n + 1) : ~LettingGo(i, b)'
               PROVE  \E d \in down' : b \in dev.keys[d]
    BY <1>1 DEF ButtonsHeld
  <2>1. \A i \in 1..n : ~LettingGo(i, b)
    BY <1>0, <1>1 DEF LettingGo
  <2>2. PICK d \in down : b \in dev.keys[d]
    BY <2>1 DEF Held, ButtonsHeld, n
  <2>4. k # "stick" /\ v # 1 => b \notin dev.keys[k]
    <3>1. n + 1 \in 1..(n + 1)  BY <1>0
    <3> QED BY <3>1, <1>1 DEF LettingGo
  <2>5. d \in down'
    BY <2>2, <2>4
  <2> QED BY <2>2, <2>5
<1>6. StickPoints'
  <2>1. NoStickEvent' <=> NoStickEvent /\ k # "stick"
    BY <1>0, <1>1 DEF NoStickEvent, n
  <2>0. /\ k = "stick" => dev.stick = "events"
        /\ k # "stick" => stick' = stick
        /\ dev.stick # "events" => NoStickEvent
        /\ dev.stick = "none" => stick = 0
    BY DEF Held, StickPoints
  <2>2. (dev.stick # "events" => NoStickEvent)'
    BY <2>0, <2>1
  <2>3. (dev.stick = "none" => stick = 0)'
    BY <2>0
  <2>4. ASSUME NEW i \in 1..(n + 1), queue'[i].key = "stick", \A j \in (i + 1)..(n + 1) : queue'[j].key # "stick"
        PROVE  queue'[i].value = stick'
    <3>1. CASE i = n + 1
      BY <3>1, <1>1, <2>4
    <3>2. CASE i \in 1..n
      <4>1. k # "stick"  BY <3>2, <1>0, <1>1, <2>4
      <4>2. queue[i].key = "stick" /\ queue'[i].value = queue[i].value  BY <3>2, <1>1, <2>4
      <4>3. \A j \in (i + 1)..n : queue[j].key # "stick"  BY <3>2, <1>0, <1>1, <2>4
      <4> QED BY <3>2, <4>1, <4>2, <4>3 DEF Held, StickPoints, n
    <3> QED BY <3>1, <3>2, <1>0
  <2>5. (\A i \in 1..Len(queue) : queue[i].key = "stick" /\ (\A j \in (i + 1)..Len(queue) : queue[j].key # "stick")
           => queue[i].value = stick)'
    BY <1>1, <2>4
  <2>6. (dev.stick # "sampled" /\ NoStickEvent => pad.is \cap Sticks \subseteq Dir(stick))'
    BY <2>1 DEF Held, StickPoints, Dir
  <2> QED BY <2>2, <2>3, <2>5, <2>6 DEF StickPoints
<1> QED BY <1>4, <1>5, <1>6 DEF Held

(* A gamepad's events gone, and its keys.                                    *)
LEMMA PullHeld ==
  ASSUME Types, Held, dev' = dev, pad' = pad, pc' = pc, pc # "look", Pulls
  PROVE  Held'
<1> DEFINE n == Len(queue)
           m == Len(queue')
<1>1. PICK h : Kept(queue', h, n, dev.pad)
  BY DEF Pulls
<1>2. /\ h \in [1..m -> 1..n] /\ m \in Nat /\ n \in Nat
      /\ \A i \in 1..m : queue'[i] = queue[h[i]] /\ queue[h[i]].key \notin dev.pad
      /\ \A i, j \in 1..m : i < j => h[i] < h[j]
      /\ \A j \in 1..n : queue[j].key \notin dev.pad => \E i \in 1..m : h[i] = j
  BY <1>1, Lengths DEF Kept
<1>3. dev.pad \subseteq Keys /\ "stick" \notin Keys /\ down' = down \ dev.pad /\ stick' = stick
      /\ orphans' = orphans \cup UNION {dev.keys[k] \cap pad.is : k \in dev.pad}
  BY DevicesAssumption DEF Types, Events, Keys, Pulls
<1> HIDE DEF n, m
(* What follows in the queue, and stays, follows in what is left.            *)
<1>4. ASSUME NEW i \in 1..m, NEW j \in (h[i] + 1)..n, queue[j].key \notin dev.pad
      PROVE  \E l \in (i + 1)..m : h[l] = j
  <2>1. h[i] \in 1..n /\ j \in 1..n /\ h[i] < j  BY <1>2
  <2>2. PICK l \in 1..m : h[l] = j  BY <1>2, <1>4, <2>1
  <2>3. ~(l < i) /\ l # i
    BY <1>2, <2>1, <2>2
  <2>4. l \in (i + 1)..m
    BY <2>2, <2>3, <1>2
  <2> QED BY <2>2, <2>4
<1>5. ASSUME NEW i \in 1..m, queue'[i].key # "stick", queue'[i].value = 1,
             \A j \in (i + 1)..m : queue'[j].key = queue'[i].key => queue'[j].value = 1
      PROVE  queue'[i].key \in down'
  <2>1. h[i] \in 1..n /\ queue'[i] = queue[h[i]] /\ queue[h[i]].key \notin dev.pad
    BY <1>2
  <2>2. ASSUME NEW j \in (h[i] + 1)..n, queue[j].key = queue[h[i]].key  PROVE queue[j].value = 1
    <3>1. PICK l \in (i + 1)..m : h[l] = j  BY <1>4, <2>1, <2>2
    <3>2. l \in 1..m  BY <3>1, <1>2
    <3>3. queue'[l] = queue[j]  BY <3>1, <3>2, <1>2
    <3> QED BY <3>1, <3>3, <2>1, <2>2, <1>5
  <2>3. queue[h[i]].key \in down
    BY <2>1, <2>2, <1>5 DEF Held, KeysDown, n
  <2> QED BY <2>1, <2>3, <1>3
<1>6. KeysDown'
  BY <1>5 DEF KeysDown, m
<1>7. ButtonsHeld'
  <2> SUFFICES ASSUME NEW b \in (pad.is \ orphans') \ Sticks, \A i \in 1..m : ~LettingGo(i, b)'
               PROVE  \E d \in down' : b \in dev.keys[d]
    BY DEF ButtonsHeld, m
  <2>1. \A k \in dev.pad : b \notin dev.keys[k]
    BY <1>3
  <2>2. ASSUME NEW j \in 1..n, LettingGo(j, b)  PROVE FALSE
    <3>1. queue[j].key # "stick" /\ queue[j].value # 1 /\ b \in dev.keys[queue[j].key]
      BY <2>2 DEF LettingGo
    <3>2. queue[j].key \notin dev.pad  BY <3>1, <2>1
    <3>3. PICK i \in 1..m : h[i] = j  BY <3>2, <1>2
    <3>4. queue'[i] = queue[j]  BY <3>3, <1>2
    <3>5. LettingGo(i, b)'  BY <3>1, <3>4 DEF LettingGo
    <3> QED BY <3>5
  <2>3. b \in (pad.is \ orphans) \ Sticks  BY <1>3
  <2>4. PICK d \in down : b \in dev.keys[d]
    BY <2>2, <2>3 DEF Held, ButtonsHeld, n
  <2> QED BY <2>1, <2>4, <1>3
<1>8. StickPoints'
  <2>1. NoStickEvent' <=> NoStickEvent
    <3>1. ASSUME NoStickEvent  PROVE NoStickEvent'
      BY <1>2, <3>1 DEF NoStickEvent, m, n
    <3>2. ASSUME NoStickEvent', NEW j \in 1..n, queue[j].key = "stick"  PROVE FALSE
      <4>1. PICK i \in 1..m : h[i] = j  BY <3>2, <1>2, <1>3
      <4>2. queue'[i].key = "stick"  BY <4>1, <3>2, <1>2
      <4> QED BY <4>2, <3>2 DEF NoStickEvent, m
    <3> QED BY <3>1, <3>2 DEF NoStickEvent, n
  <2>2. ASSUME NEW i \in 1..m, queue'[i].key = "stick", \A j \in (i + 1)..m : queue'[j].key # "stick"
        PROVE  queue'[i].value = stick'
    <3>1. h[i] \in 1..n /\ queue'[i] = queue[h[i]]
      BY <1>2
    <3>2. ASSUME NEW j \in (h[i] + 1)..n, queue[j].key = "stick"  PROVE FALSE
      <4>1. PICK l \in (i + 1)..m : h[l] = j  BY <1>3, <1>4, <3>2
      <4>2. l \in 1..m  BY <4>1, <1>2
      <4>3. queue'[l] = queue[j]  BY <4>1, <4>2, <1>2
      <4> QED BY <4>1, <4>3, <3>2, <2>2
    <3> QED BY <3>1, <3>2, <2>2, <1>3 DEF Held, StickPoints, n
  <2>3. (\A i \in 1..Len(queue) : queue[i].key = "stick" /\ (\A j \in (i + 1)..Len(queue) : queue[j].key # "stick")
           => queue[i].value = stick)'
    BY <2>2 DEF m
  <2> QED BY <2>1, <2>3, <1>3 DEF Held, StickPoints
<1> QED BY <1>6, <1>7, <1>8 DEF Held

(* A wait ends with the last events, and with nothing pressed.               *)
LEMMA WaitHeld ==
  ASSUME Types, Held, dev' = dev, down' = down, stick' = stick, pad' = PAD_reset, pc' # "look",
         NEW s \in 0..Len(queue), Suffix(s)
  PROVE  Held'
<1> DEFINE n == Len(queue)
           m == Len(queue')
<1>1. /\ n \in Nat /\ m = n - s /\ m \in Nat /\ s \in Nat
      /\ \A i \in 1..m : s + i \in 1..n /\ queue'[i] = queue[s + i]
  BY Lengths DEF Suffix
<1> HIDE DEF n, m
<1>2. ASSUME NEW i \in 1..m, NEW j \in (s + i + 1)..n
      PROVE  j - s \in (i + 1)..m /\ j - s \in 1..m /\ queue'[j - s] = queue[j]
  <2>1. j - s \in (i + 1)..m /\ j - s \in 1..m /\ s + (j - s) = j  BY <1>1
  <2> QED BY <2>1, <1>1
<1>3. pad'.is = {}
  BY ResetTyped
<1>4. ASSUME NEW i \in 1..m, queue'[i].key # "stick", queue'[i].value = 1,
             \A j \in (i + 1)..m : queue'[j].key = queue'[i].key => queue'[j].value = 1
      PROVE  queue'[i].key \in down'
  <2>1. s + i \in 1..n /\ queue'[i] = queue[s + i]  BY <1>1
  <2>2. \A j \in (s + i + 1)..n : queue[j].key = queue[s + i].key => queue[j].value = 1
    BY <1>2, <1>4, <2>1
  <2> QED BY <2>1, <2>2, <1>4 DEF Held, KeysDown, n
<1>5. KeysDown'
  BY <1>4 DEF KeysDown, m
<1>6. ButtonsHeld'
  BY <1>3 DEF ButtonsHeld
<1>7. ASSUME NEW i \in 1..m, queue'[i].key = "stick", \A j \in (i + 1)..m : queue'[j].key # "stick"
      PROVE  queue'[i].value = stick'
  <2>1. s + i \in 1..n /\ queue'[i] = queue[s + i]  BY <1>1
  <2>2. \A j \in (s + i + 1)..n : queue[j].key # "stick"
    BY <1>2, <1>7, <2>1
  <2> QED BY <2>1, <2>2, <1>7 DEF Held, StickPoints, n
<1>8. NoStickEvent => NoStickEvent'
  BY <1>1 DEF NoStickEvent, m, n
<1>9. StickPoints'
  <2>1. (\A i \in 1..Len(queue) : queue[i].key = "stick" /\ (\A j \in (i + 1)..Len(queue) : queue[j].key # "stick")
           => queue[i].value = stick)'
    BY <1>7 DEF m
  <2> QED BY <2>1, <1>3, <1>8 DEF Held, StickPoints
<1> QED BY <1>5, <1>6, <1>9 DEF Held

LEMMA PollHeld ==
  ASSUME Types, Held, PLAT_pollInput
  PROVE  Held'
<1> DEFINE n == Len(queue)
<1>1. PICK r : Polled(r)
  BY PollMakes
<1>2. /\ pc' = "look" /\ queue' = <<>> /\ dev' = dev /\ down' = down /\ stick' = stick /\ orphans' = orphans \cap pad'.is
      /\ Len(queue') = 0 /\ n \in Nat
  BY PollKeeps, Lengths
<1>3. pad'.is = r.is /\ ByKeys(n, pad, r)
  BY <1>1 DEF Polled
<1>4. KeysDown'
  BY <1>2 DEF KeysDown
<1>5. ButtonsHeld'
  <2> SUFFICES ASSUME NEW b \in (r.is \ orphans) \ Sticks  PROVE \E k \in down : b \in dev.keys[k]
    BY <1>2, <1>3 DEF ButtonsHeld
  <2>1. CASE StillPressed(n, pad, b)
    BY <2>1 DEF StillPressed, Held, ButtonsHeld
  <2>2. CASE WasPressed(n, b)
    <3>1. PICK j \in 1..n : Pressing(j, b) /\ \A l \in (j + 1)..n : ~LettingGo(l, b)
      BY <2>2 DEF WasPressed
    <3>2. queue[j].key # "stick" /\ queue[j].value = 1 /\ b \in dev.keys[queue[j].key]
      BY <3>1 DEF Pressing
    <3>3. \A l \in (j + 1)..n : queue[l].key = queue[j].key => queue[l].value = 1
      BY <3>1, <3>2 DEF LettingGo
    <3>4. queue[j].key \in down
      BY <3>2, <3>3 DEF Held, KeysDown
    <3> QED BY <3>2, <3>4
  <2> QED BY <2>1, <2>2, <1>3 DEF ByKeys
<1>6. pad'.is \cap Sticks \subseteq Dir(stick)
  <2>1. CASE dev.stick = "sampled"
    BY <2>1, <1>1, <1>3 DEF Polled
  <2>2. CASE dev.stick # "sampled" /\ Unmoved(n, pad, r)
    BY <2>2, <1>3 DEF Unmoved, Held, StickPoints, NoStickEvent
  <2>3. CASE WasMoved(n, r)
    <3>1. PICK j \in 1..n : /\ queue[j].key = "stick" /\ r.is \cap Sticks = Dir(queue[j].value)
                            /\ \A l \in (j + 1)..n : queue[l].key # "stick"
      BY <2>3 DEF WasMoved
    <3>2. queue[j].value = stick
      BY <3>1 DEF Held, StickPoints
    <3> QED BY <3>1, <3>2, <1>3
  <2> QED BY <2>1, <2>2, <2>3, <1>1 DEF Polled
<1>7. NoStickEvent'
  BY <1>2 DEF NoStickEvent
<1>8. StickPoints'
  <2>1. (\A i \in 1..Len(queue) : queue[i].key = "stick" /\ (\A j \in (i + 1)..Len(queue) : queue[j].key # "stick")
           => queue[i].value = stick)'
    BY <1>2
  <2> QED BY <2>1, <1>2, <1>6, <1>7 DEF Held, StickPoints
<1> QED BY <1>4, <1>5, <1>8 DEF Held

LEMMA SmallerHeld ==
  ASSUME Held, dev' = dev, down' = down, stick' = stick, queue' = queue,
         pad'.is \subseteq pad.is, pad'.is \ orphans' \subseteq pad.is \ orphans, pc' = pc \/ pc' # "look"
  PROVE  Held'
<1>1. KeysDown'
  BY DEF Held, KeysDown
<1>2. ButtonsHeld'
  <2>1. \A b \in (pad'.is \ orphans') \ Sticks : b \in (pad.is \ orphans) \ Sticks
    OBVIOUS
  <2> QED BY <2>1 DEF Held, ButtonsHeld, LettingGo
<1>3. StickPoints'
  BY DEF Held, StickPoints, NoStickEvent
<1> QED BY <1>1, <1>2, <1>3 DEF Held

LEMMA HeldNext ==
  ASSUME Types, Held, [Next]_vars
  PROVE  Held'
<1>1. CASE PLAT_pollInput
  BY <1>1, PollHeld
<1>2. CASE PWR_waitForWake
  <2>1. PICK m \in 0..Len(queue) : Suffix(m)
    BY <1>2, WakeKeeps
  <2>2. dev' = dev /\ down' = down /\ stick' = stick /\ pad' = PAD_reset /\ pc' # "look"
    BY <1>2, WakeKeeps DEF Types, Phases
  <2> QED BY <2>1, <2>2, WaitHeld
<1>3. CASE Looks
  <2>1. /\ dev' = dev /\ down' = down /\ stick' = stick /\ queue' = queue /\ orphans' = orphans \cap pad'.is
        /\ pad'.is \subseteq pad.is /\ pc' # "look"
    BY <1>3, LookOutcome, LookLeaves DEF Types
  <2> QED BY <2>1, SmallerHeld
<1>4. CASE Launch
  <2>1. /\ dev' = dev /\ down' = down /\ stick' = stick /\ queue' = <<>> /\ pad'.is = {}
        /\ \A i \in 1..Len(queue') : FALSE
    BY <1>4, ResetTyped DEF Launch
  <2> QED BY <2>1 DEF Held, KeysDown, ButtonsHeld, StickPoints, NoStickEvent
<1>5. CASE UNCHANGED <<dev, down, stick, queue, pad, orphans, pc>>
  BY <1>5, SmallerHeld
<1>6. CASE Hands
  <2>0. /\ pc # "look" /\ dev' = dev /\ pad' = pad /\ pc' = pc
        /\ (\E k \in Keys : LetGo(k) \/ Presses(k) \/ Touches(k)) \/ Points \/ Pulls \/ Idles
    BY <1>6, HandsDo
  <2>k. "stick" \notin Keys
    BY DevicesAssumption DEF Types, Events, Keys
  <2>1. ASSUME NEW k \in Keys, LetGo(k)  PROVE Held'
    BY <2>0, <2>1, <2>k, AddHeld DEF LetGo
  <2>2. ASSUME NEW k \in Keys, Presses(k)  PROVE Held'
    BY <2>0, <2>2, <2>k, AddHeld DEF Presses
  <2>3. ASSUME NEW k \in Keys, Touches(k)  PROVE Held'
    BY <2>0, <2>3, <2>k, AddHeld DEF Touches
  <2>4. CASE Points
    <3>1. CASE dev.stick = "events" /\ Adds("stick", stick')
      BY <2>0, <2>4, <3>1, AddHeld DEF Points
    <3>2. CASE dev.stick = "sampled" /\ queue' = queue
      <4>1. down' = down /\ orphans' = orphans
        BY <2>4 DEF Points
      <4>2. KeysDown'
        BY <2>0, <3>2, <4>1 DEF Held, KeysDown
      <4>3. ButtonsHeld'
        BY <2>0, <3>2, <4>1 DEF Held, ButtonsHeld, LettingGo
      <4>4. StickPoints'
        BY <2>0, <3>2 DEF Held, StickPoints, NoStickEvent
      <4> QED BY <4>2, <4>3, <4>4 DEF Held
    <3> QED BY <2>4, <3>1, <3>2 DEF Points
  <2>5. CASE Pulls
    BY <2>0, <2>5, PullHeld
  <2>6. CASE Idles
    BY <2>0, <2>6, <1>5 DEF Idles
  <2> QED BY <2>0, <2>1, <2>2, <2>3, <2>4, <2>5, <2>6
<1>7. CASE Next
  <2>1. CASE VIB_thread
    BY <2>1, <1>5 DEF VIB_thread, world, history
  <2>2. CASE \E s \in 0..1 : VIB_setStrength(s)
    BY <2>2, <1>5 DEF VIB_setStrength, world
  <2> QED BY <1>7, <2>1, <2>2, <1>1, <1>2, <1>3, <1>4, <1>6, StepsAre
<1>8. CASE UNCHANGED vars
  BY <1>8, <1>5 DEF vars, world, history
<1> QED BY <1>7, <1>8

-----------------------------------------------------------------------------
(* The time since POWER was pressed, and POWER.                              *)
PowerDown == \E k \in down : "POWER" \in dev.keys[k]
ReleaseWaits == \E i \in 1..Len(queue) : Release1(queue[i])
PowerHeld ==
  /\ power # None \/ "POWER" \in pad.pressed => dev.sleep = "POWER"
  /\ pc \in {"poll", "off"} /\ power # None /\ ~missed => PowerDown \/ ReleaseWaits
  /\ pc = "look" /\ ~missed /\ (power # None \/ "POWER" \in pad.pressed) /\ "POWER" \notin pad.released => PowerDown

LEMMA SleepKeys ==
  ASSUME Types
  PROVE  /\ \A k \in Keys : "POWER" \in dev.keys[k] => dev.sleep = "POWER"
         /\ \A k \in Keys : dev.sleep \in dev.keys[k] => k \notin dev.pad /\ k \notin dev.triggers
         /\ dev.sleep \in {"POWER", "MENU"} /\ dev.sleep \notin Sticks /\ "POWER" \notin Sticks
         /\ "stick" \notin Keys /\ dev.pad \subseteq Keys /\ dev.triggers \subseteq Keys
         /\ dev.lid \in BOOLEAN /\ (dev.lid => dev.sleep = "POWER")
  BY DevicesAssumption DEF Types, Events, Keys, Sticks

LEMMA PowerPolled ==
  ASSUME Types, Held, PowerHeld, PLAT_pollInput
  PROVE  PowerHeld'
<1> DEFINE n == Len(queue)
<1>1. PICK r : Polled(r)
  BY PollMakes
<1>2. /\ pc = "poll" /\ pc' = "look" /\ dev' = dev /\ down' = down /\ missed' = missed /\ queue' = <<>>
  BY PollKeeps
<1>3. power' = None <=> power = None
  <2>1. PICK by \in Frames : power' = Older(power, HOLD_DELAY, by)
    BY DEF PLAT_pollInput
  <2>2. by \in Nat  BY DelaysAssumption
  <2> QED BY <2>1, <2>2, AgesAre DEF Types
<1>4. pad'.pressed = r.pressed /\ r.released \subseteq pad'.released /\ ByKeys(n, pad, r)
  BY <1>1 DEF Polled
<1>5. "POWER" \in pad'.pressed => \E j \in 1..n : Pressing(j, "POWER")
  BY <1>4, SleepKeys DEF ByKeys
<1>6. \A j \in 1..n : Pressing(j, "POWER") => dev.sleep = "POWER"
  BY EventsAre, SleepKeys DEF Pressing, Types
<1>7. power' # None \/ "POWER" \in pad'.pressed => dev.sleep = "POWER"
  BY <1>3, <1>5, <1>6 DEF PowerHeld
<1>8. ASSUME ~missed, power' # None \/ "POWER" \in pad'.pressed, "POWER" \notin pad'.released
      PROVE  PowerDown
  <2>1. dev.sleep = "POWER"
    BY <1>7, <1>8
  <2>2. ASSUME NEW j \in 1..n, LettingGo(j, "POWER")  PROVE FALSE
    <3>1. queue[j].key # "stick" /\ queue[j].value # 1 /\ "POWER" \in dev.keys[queue[j].key]
      BY <2>2 DEF LettingGo
    <3>2. queue[j].key \in Keys
      BY <3>1, EventsAre DEF Types
    <3>3. queue[j].key \notin dev.triggers
      BY <2>1, <3>1, <3>2, SleepKeys
    <3> QED BY <3>1, <3>3, <1>4, <1>8 DEF ByKeys
  <2>3. CASE power # None
    <3>1. PowerDown \/ ReleaseWaits
      BY <2>3, <1>2, <1>8 DEF PowerHeld
    <3>2. ~ReleaseWaits
      BY <2>1, <2>2 DEF ReleaseWaits, Release1, LettingGo
    <3> QED BY <3>1, <3>2
  <2>4. CASE "POWER" \in pad'.pressed
    <3>1. PICK j \in 1..n : Pressing(j, "POWER")
      BY <2>4, <1>5
    <3>2. queue[j].key # "stick" /\ queue[j].value = 1 /\ "POWER" \in dev.keys[queue[j].key]
      BY <3>1 DEF Pressing
    <3>3. \A l \in (j + 1)..n : queue[l].key = queue[j].key => queue[l].value = 1
      <4>1. n \in Nat /\ \A l \in (j + 1)..n : l \in 1..n
        BY Lengths
      <4> QED BY <4>1, <2>2, <3>2 DEF LettingGo
    <3>4. queue[j].key \in down
      BY <3>2, <3>3 DEF Held, KeysDown
    <3> QED BY <3>2, <3>4 DEF PowerDown
  <2> QED BY <2>3, <2>4, <1>3, <1>8
<1>9. PowerDown' <=> PowerDown
  BY <1>2 DEF PowerDown
<1> QED BY <1>2, <1>7, <1>8, <1>9 DEF PowerHeld

LEMMA PowerLooked ==
  ASSUME Types, PowerHeld, Looks
  PROVE  PowerHeld'
<1>1. /\ pc = "look" /\ dev' = dev /\ down' = down /\ queue' = queue /\ pad'.pressed = {} /\ pc' # "look"
  BY LookOutcome, LookLeaves DEF Types, Looks
<1>2. CASE pc' = "poll" /\ power' = power /\ missed' = (missed \/ dev.sleep \in pad.released)
  <2>1. ~missed' /\ power # None => PowerDown
    BY <1>1, <1>2 DEF PowerHeld
  <2>2. power' # None => dev.sleep = "POWER"
    BY <1>2 DEF PowerHeld
  <2> QED BY <1>1, <1>2, <2>1, <2>2 DEF PowerHeld, PowerDown
<1>3. CASE power' = power_pressed_at /\ missed' = (missed /\ ~sleeps)
  <2>1. power' # None => ~sleeps /\ (power # None \/ "POWER" \in pad.pressed)
    BY <1>3 DEF power_pressed_at
  <2>2. power' # None => dev.sleep = "POWER"
    BY <2>1 DEF PowerHeld
  <2>3. power' # None => "POWER" \notin pad.released
    BY <2>1, <2>2 DEF sleeps, asked_to_sleep, can_sleep, HasPower
  <2>4. power' # None /\ ~missed' => PowerDown
    BY <2>1, <2>3, <1>1, <1>3 DEF PowerHeld
  <2> QED BY <1>1, <2>2, <2>4 DEF PowerHeld, PowerDown
<1> QED BY <1>2, <1>3, LookOutcome

LEMMA PowerHands ==
  ASSUME Types, PowerHeld, Hands
  PROVE  PowerHeld'
<1>0. /\ pc # "look" /\ dev' = dev /\ pad' = pad /\ pc' = pc /\ power' = power /\ missed' = missed
      /\ (\E k \in Keys : LetGo(k) \/ Presses(k) \/ Touches(k)) \/ Points \/ Pulls \/ Idles
  BY HandsDo
<1> SUFFICES ASSUME dev.sleep = "POWER", PowerDown \/ ReleaseWaits  PROVE PowerDown' \/ ReleaseWaits'
  BY <1>0 DEF PowerHeld
<1>1. ASSUME NEW k, NEW v, Adds(k, v)
      PROVE  /\ ReleaseWaits => ReleaseWaits'
             /\ k # "stick" /\ v = 0 /\ "POWER" \in dev.keys[k] => ReleaseWaits'
  <2> DEFINE n == Len(queue)
  <2>1. /\ Len(queue') = n + 1 /\ \A i \in 1..n : queue'[i] = queue[i] /\ i \in 1..(n + 1)
        /\ queue'[n + 1].key = k /\ queue'[n + 1].value = v /\ n + 1 \in 1..(n + 1)
    BY <1>1, Lengths DEF Adds
  <2> HIDE DEF n
  <2>2. ASSUME NEW i \in 1..n, Release1(queue[i])  PROVE ReleaseWaits'
    BY <2>1, <2>2, <1>0 DEF ReleaseWaits, Release1
  <2>3. ASSUME k # "stick", v = 0, "POWER" \in dev.keys[k]  PROVE ReleaseWaits'
    BY <2>1, <2>3, <1>0 DEF ReleaseWaits, Release1
  <2> QED BY <2>2, <2>3 DEF ReleaseWaits, n
<1>2. ASSUME NEW k \in Keys, LetGo(k)  PROVE PowerDown' \/ ReleaseWaits'
  <2>1. down' = down \ {k} /\ Adds(k, 0) /\ k # "stick"
    BY <1>2, SleepKeys DEF LetGo
  <2>2. CASE "POWER" \in dev.keys[k]
    BY <2>1, <2>2, <1>1
  <2>3. CASE "POWER" \notin dev.keys[k]
    BY <2>1, <2>3, <1>0, <1>1 DEF PowerDown
  <2> QED BY <2>2, <2>3
<1>3. ASSUME NEW k \in Keys, Presses(k) \/ Touches(k)  PROVE PowerDown' \/ ReleaseWaits'
  <2>1. down \subseteq down' /\ (Adds(k, 1) \/ Adds(k, 0))
    BY <1>3 DEF Presses, Touches
  <2> QED BY <2>1, <1>0, <1>1 DEF PowerDown
<1>4. CASE Points
  <2>1. down' = down /\ (queue' = queue \/ Adds("stick", stick'))
    BY <1>4 DEF Points
  <2> QED BY <2>1, <1>0, <1>1 DEF PowerDown, ReleaseWaits, Release1
<1>5. CASE Pulls
  <2>1. PICK h : Kept(queue', h, Len(queue), dev.pad)
    BY <1>5 DEF Pulls
  <2>2. down' = down \ dev.pad /\ down \subseteq Keys
    BY <1>5 DEF Pulls, Types
  <2>3. PowerDown => PowerDown'
    BY <2>2, <1>0, SleepKeys DEF PowerDown
  <2>4. ReleaseWaits => ReleaseWaits'
    <3> SUFFICES ASSUME NEW i \in 1..Len(queue), Release1(queue[i])  PROVE ReleaseWaits'
      BY DEF ReleaseWaits
    <3>1. queue[i].key \in Keys /\ queue[i].key \notin dev.pad
      BY EventsAre, SleepKeys DEF Release1, Types
    <3>2. PICK l \in 1..Len(queue') : queue'[l] = queue[i]
      BY <3>1, <2>1 DEF Kept
    <3> QED BY <3>2, <1>0 DEF ReleaseWaits, Release1
  <2> QED BY <2>3, <2>4
<1>6. CASE Idles
  BY <1>0, <1>6 DEF Idles, PowerDown, ReleaseWaits, Release1
<1> QED BY <1>0, <1>2, <1>3, <1>4, <1>5, <1>6

LEMMA PowerNext ==
  ASSUME Types, Held, PowerHeld, [Next]_vars
  PROVE  PowerHeld'
<1>1. CASE PWR_waitForWake
  <2>1. /\ power' = None /\ pad' = PAD_reset /\ pc' # "look"
    BY <1>1, WakeKeeps DEF Types, Phases
  <2> QED BY <2>1, ResetTyped DEF PowerHeld
<1>2. CASE Launch
  <2>1. /\ power' = None /\ pad' = PAD_reset /\ pc' # "look"
    BY <1>2 DEF Launch
  <2> QED BY <2>1, ResetTyped DEF PowerHeld
<1>3. CASE UNCHANGED <<dev, down, queue, pad, pc, power, missed>>
  BY <1>3 DEF PowerHeld, PowerDown, ReleaseWaits, Release1
<1>4. CASE Next
  <2>1. CASE VIB_thread
    BY <2>1, <1>3 DEF VIB_thread, world, ages, history
  <2>2. CASE \E s \in 0..1 : VIB_setStrength(s)
    BY <2>2, <1>3 DEF VIB_setStrength, world, ages
  <2> QED BY <1>4, <2>1, <2>2, <1>1, <1>2, PowerPolled, PowerLooked, PowerHands, StepsAre
<1>5. CASE UNCHANGED vars
  BY <1>5, <1>3 DEF vars, world, ages, history
<1> QED BY <1>4, <1>5

-----------------------------------------------------------------------------
(* One key sleeps, and no lid: the presses and the releases of that key      *)
(* alternate in the queue, and its last event tells whether it is down.      *)
Sole == ~dev.lid /\ \A j, k \in Keys : dev.sleep \in dev.keys[j] \cap dev.keys[k] => j = k
SleepKey(k) == dev.sleep \in dev.keys[k]
Ups == {i \in 1..Len(queue) : Release1(queue[i])}
Downs == {i \in 1..Len(queue) : Pressing(i, dev.sleep)}
Alternates ==
  Sole =>
    /\ \A i, j \in Ups : i < j => \E l \in Downs : i < l /\ l < j
    /\ \A k \in down : SleepKey(k) => \A i \in Ups : \E l \in Downs : i < l
(* As long as no press of it was read, every release waits behind a press,   *)
(* and the key is only down by a press that waits.                           *)
PressWaits ==
  /\ \A i \in Ups : \E l \in Downs : l < i
  /\ \A k \in down : SleepKey(k) => Downs # {}
SleepRead ==
  Sole =>
    /\ pc \in {"poll", "look"} /\ ~read => PressWaits
    /\ pc = "look" /\ ~read => dev.sleep \notin pad.released
    /\ pc = "asleep" /\ why = "button" => read
Wakes == Alternates /\ SleepRead

LEMMA NoEvents ==
  ASSUME queue = <<>>
  PROVE  Ups = {} /\ Downs = {}
  BY DEF Ups, Downs

LEMMA SoleSame ==
  ASSUME dev' = dev
  PROVE  (Sole' <=> Sole) /\ \A k : SleepKey(k)' <=> SleepKey(k)
  BY DEF Sole, SleepKey, Keys

LEMMA PollWakes ==
  ASSUME Types, Wakes, PLAT_pollInput
  PROVE  Wakes'
<1> DEFINE n == Len(queue)
<1>1. PICK r : Polled(r)
  BY PollMakes
<1>2. /\ pc = "poll" /\ pc' = "look" /\ dev' = dev /\ down' = down /\ queue' = <<>>
      /\ read' = (read \/ \E i \in 1..n : Pressing(i, dev.sleep))
  BY PollKeeps
<1>3. (queue = <<>> => Ups = {} /\ Downs = {})'
  BY NoEvents, PTL
<1>4. Ups' = {} /\ Downs' = {}
  BY <1>2, <1>3
<1>5. Alternates'
  BY <1>4 DEF Alternates
<1>6. ASSUME Sole, ~read'  PROVE PressWaits' /\ dev.sleep \notin pad'.released
  <2>1. ~read /\ Downs = {}
    BY <1>2, <1>6 DEF Downs
  <2>2. Ups = {} /\ \A k \in down : ~SleepKey(k)
    BY <2>1, <1>2, <1>6 DEF Wakes, SleepRead, PressWaits
  <2>3. PressWaits'
    BY <2>2, <1>2, <1>4, SoleSame DEF PressWaits
  <2>4. pad'.released = r.released /\ ByKeys(n, pad, r)
    BY <1>1, <1>6 DEF Polled, PLAT_lidChanged, Sole
  <2>5. ASSUME NEW j \in 1..n, LettingGo(j, dev.sleep)  PROVE FALSE
    <3>1. queue[j] \in Event /\ queue[j].key # "stick" /\ queue[j].value # 1 /\ dev.sleep \in dev.keys[queue[j].key]
      BY <2>5, EventsAre DEF LettingGo, Types
    <3>2. queue[j].value = 0
      BY <3>1 DEF Event
    <3> QED BY <3>1, <3>2, <2>2 DEF Ups, Release1
  <2>6. dev.sleep \notin r.released
    BY <2>4, <2>5, SleepKeys DEF ByKeys
  <2> QED BY <2>3, <2>4, <2>6
<1>7. SleepRead'
  BY <1>2, <1>6, SoleSame DEF SleepRead
<1> QED BY <1>5, <1>7 DEF Wakes

LEMMA LookWakes ==
  ASSUME Types, Wakes, Looks
  PROVE  Wakes'
<1>1. /\ pc = "look" /\ dev' = dev /\ down' = down /\ queue' = queue /\ read' = read /\ pc' \in {"poll", "asleep", "off"}
  BY LookOutcome, LookLeaves DEF Types, Looks
<1>2. Ups' = Ups /\ Downs' = Downs
  BY <1>1 DEF Ups, Downs, Release1, Pressing
<1>3. Alternates'
  BY <1>1, <1>2, SoleSame DEF Wakes, Alternates
<1>4. PressWaits => PressWaits'
  BY <1>1, <1>2, SoleSame DEF PressWaits
<1>5. pc' = "asleep" /\ why' = "button" => dev.sleep \in pad.released
  BY LookOutcome DEF asked_to_sleep
<1>6. SleepRead'
  BY <1>1, <1>4, <1>5, SoleSame DEF Wakes, SleepRead
<1> QED BY <1>3, <1>6 DEF Wakes

LEMMA SameWakes ==
  ASSUME Wakes, UNCHANGED <<dev, down, queue, read, pc, pad, why>>
  PROVE  Wakes'
<1>1. Ups' = Ups /\ Downs' = Downs
  BY DEF Ups, Downs, Release1, Pressing
<1>2. Alternates'
  BY <1>1, SoleSame DEF Wakes, Alternates
<1>3. PressWaits => PressWaits'
  BY <1>1, SoleSame DEF PressWaits
<1>4. SleepRead'
  BY <1>3, SoleSame DEF Wakes, SleepRead
<1> QED BY <1>2, <1>4 DEF Wakes

(* The release that wakes leaves behind it what begins with a press.         *)
LEMMA WaitWakes ==
  ASSUME Types, Wakes, PWR_waitForWake
  PROVE  Wakes'
<1> DEFINE n == Len(queue)
<1>1. /\ pc = "asleep" /\ dev' = dev /\ down' = down /\ why' = why
      /\ pc' \in {"poll", "off", "asleep"}
      /\ IF pc' = "poll" THEN read' = FALSE ELSE read' = read
  BY WakeKeeps
<1>2. PICK m \in 0..n : Suffix(m) /\ (pc' = "poll" /\ dev.lid # TRUE => m # 0 /\ PAD_wake(m))
  BY WakeKeeps
<1>3. /\ n \in Nat /\ m \in Nat /\ Len(queue') = n - m
      /\ \A i \in 1..(n - m) : m + i \in 1..n /\ queue'[i] = queue[m + i]
      /\ \A l \in 1..n : m < l => l - m \in 1..(n - m) /\ m + (l - m) = l
  BY <1>2, Lengths DEF Suffix
<1> HIDE DEF n
<1>4. /\ \A i \in Ups' : i \in 1..(n - m) /\ m + i \in Ups
      /\ \A l \in Downs : l \in 1..n /\ (m < l => l - m \in Downs')
      /\ Ups \subseteq 1..n
  <2>1. \A i \in Ups' : i \in 1..(n - m) /\ m + i \in Ups
    BY <1>1, <1>3 DEF Ups, Release1, n
  <2>2. ASSUME NEW l \in Downs  PROVE l \in 1..n /\ (m < l => l - m \in Downs')
    <3>1. l \in 1..n /\ Pressing(l, dev.sleep)
      BY DEF Downs, n
    <3>2. m < l => l - m \in 1..Len(queue') /\ queue'[l - m] = queue[l]
      BY <1>3, <3>1
    <3> QED BY <3>1, <3>2, <1>1 DEF Downs, Pressing
  <2> QED BY <2>1, <2>2 DEF Ups, n
<1>5. Alternates'
  <2> SUFFICES ASSUME Sole
               PROVE  /\ \A i, j \in Ups' : i < j => \E l \in Downs' : i < l /\ l < j
                      /\ \A k \in down : SleepKey(k) => \A i \in Ups' : \E l \in Downs' : i < l
    BY <1>1, SoleSame DEF Alternates
  <2>1. ASSUME NEW i \in Ups', NEW j \in Ups', i < j  PROVE \E l \in Downs' : i < l /\ l < j
    <3>1. m + i \in Ups /\ m + j \in Ups /\ m + i < m + j /\ i \in Nat /\ j \in Nat
      BY <2>1, <1>3, <1>4
    <3>2. PICK l \in Downs : m + i < l /\ l < m + j
      BY <3>1 DEF Wakes, Alternates
    <3>3. l \in 1..n /\ m < l  BY <3>1, <3>2, <1>3, <1>4
    <3>4. l - m \in Downs'  BY <3>3, <1>4
    <3>5. i < l - m /\ l - m < j  BY <3>1, <3>2, <3>3, <1>3
    <3> QED BY <3>4, <3>5
  <2>2. ASSUME NEW k \in down, SleepKey(k), NEW i \in Ups'  PROVE \E l \in Downs' : i < l
    <3>1. m + i \in Ups /\ i \in Nat
      BY <1>3, <1>4
    <3>2. PICK l \in Downs : m + i < l
      BY <3>1, <2>2 DEF Wakes, Alternates
    <3>3. l \in 1..n /\ m < l  BY <3>1, <3>2, <1>3, <1>4
    <3>4. l - m \in Downs'  BY <3>3, <1>4
    <3>5. i < l - m  BY <3>1, <3>2, <3>3, <1>3
    <3> QED BY <3>4, <3>5
  <2> QED BY <2>1, <2>2
<1>6. ASSUME Sole, pc' = "poll"  PROVE PressWaits'
  <2>1. m \in Ups
    <3>1. m # 0 /\ PAD_wake(m)  BY <1>2, <1>6 DEF Sole
    <3>2. m \in 1..n  BY <3>1, <1>3
    <3> QED BY <3>1, <3>2 DEF Ups, PAD_wake, n
  <2>2. ASSUME NEW i \in Ups'  PROVE \E l \in Downs' : l < i
    <3>1. m + i \in Ups /\ m < m + i /\ i \in Nat
      BY <1>3, <1>4
    <3>2. PICK l \in Downs : m < l /\ l < m + i
      BY <2>1, <3>1, <1>6 DEF Wakes, Alternates
    <3>3. l \in 1..n  BY <1>4
    <3>4. l - m \in Downs' /\ l - m < i  BY <3>1, <3>2, <3>3, <1>3, <1>4
    <3> QED BY <3>4
  <2>3. ASSUME NEW k \in down, SleepKey(k)  PROVE Downs' # {}
    <3>1. PICK l \in Downs : m < l
      BY <2>1, <2>3, <1>6 DEF Wakes, Alternates
    <3>2. l - m \in Downs'  BY <3>1, <1>4
    <3> QED BY <3>2
  <2> QED BY <2>2, <2>3, <1>1, SoleSame DEF PressWaits
<1>7. SleepRead'
  BY <1>1, <1>6, SoleSame DEF Wakes, SleepRead
<1> QED BY <1>5, <1>7 DEF Wakes

(* An event more: of another key or of the stick, a press, or the release of *)
(* a key that was down.                                                      *)
LEMMA AddWakes ==
  ASSUME Types, Wakes, dev' = dev, pad' = pad, pc' = pc, pc # "look", read' = read, why' = why,
         NEW k \in Keys \cup {"stick"}, NEW v, Adds(k, v),
         k # "stick" /\ SleepKey(k) => \/ v = 1 /\ down' = down \cup {k}
                                       \/ v = 0 /\ k \in down /\ down' = down \ {k},
         k = "stick" \/ ~SleepKey(k) => \A d \in down' \ down : d = k /\ k # "stick"
  PROVE  Wakes'
<1> DEFINE n == Len(queue)
<1>1. /\ n \in Nat /\ Len(queue') = n + 1 /\ n + 1 \in 1..(n + 1)
      /\ \A i \in 1..n : queue'[i] = queue[i] /\ i \in 1..(n + 1) /\ i < n + 1
      /\ \A i \in 1..(n + 1) : i \in 1..n \/ i = n + 1
      /\ queue'[n + 1].key = k /\ queue'[n + 1].value = v
  BY Lengths DEF Adds
<1>2. Ups \subseteq 1..n /\ Downs \subseteq 1..n /\ Ups' \subseteq 1..(n + 1) /\ Downs' \subseteq 1..(n + 1)
  BY <1>1 DEF Ups, Downs
<1>3. Ups \subseteq Ups' /\ Downs \subseteq Downs' /\ Ups' \subseteq Ups \cup {n + 1}
  BY <1>1 DEF Ups, Downs, Release1, Pressing
<1>4. n + 1 \in Ups' => k # "stick" /\ v = 0 /\ SleepKey(k)
  BY <1>1 DEF Ups, Release1, SleepKey
<1>5. k # "stick" /\ v = 1 /\ SleepKey(k) => n + 1 \in Downs'
  BY <1>1 DEF Downs, Pressing, SleepKey
<1>6. down \subseteq Keys
  BY DEF Types
<1> HIDE DEF n
<1> DEFINE release == n + 1 \in Ups'
<1>7. release => k \in down /\ down' = down \ {k} /\ SleepKey(k)
  BY <1>4
<1>8. \A d \in down' : SleepKey(d) => d \in down \/ n + 1 \in Downs'
  BY <1>5
<1>9. ASSUME Sole, release  PROVE \A d \in down' : ~SleepKey(d)
  <2> SUFFICES ASSUME NEW d \in down', SleepKey(d)  PROVE FALSE
    OBVIOUS
  <2>1. d \in down /\ d # k /\ d \in Keys /\ k \in Keys /\ SleepKey(k)
    BY <1>6, <1>7, <1>9
  <2> QED BY <2>1, <1>9 DEF Sole, SleepKey
<1>10. Alternates'
  <2> SUFFICES ASSUME Sole
               PROVE  /\ \A i, j \in Ups' : i < j => \E l \in Downs' : i < l /\ l < j
                      /\ \A d \in down' : SleepKey(d) => \A i \in Ups' : \E l \in Downs' : i < l
    BY SoleSame DEF Alternates
  <2>1. ASSUME NEW i \in Ups', NEW j \in Ups', i < j  PROVE \E l \in Downs' : i < l /\ l < j
    <3>1. i \in 1..(n + 1) /\ j \in 1..(n + 1) /\ i # n + 1
      BY <2>1, <1>1, <1>2
    <3>2. i \in Ups
      BY <3>1, <1>3
    <3>3. CASE j \in Ups
      BY <3>2, <3>3, <2>1, <1>3 DEF Wakes, Alternates
    <3>4. CASE j = n + 1
      <4>1. k \in down /\ SleepKey(k)  BY <3>4, <1>7
      <4>2. PICK l \in Downs : i < l  BY <4>1, <3>2 DEF Wakes, Alternates
      <4>3. l \in Downs' /\ l < n + 1  BY <1>1, <1>2, <1>3
      <4> QED BY <4>2, <4>3, <3>4
    <3> QED BY <3>3, <3>4, <1>3
  <2>2. ASSUME NEW d \in down', SleepKey(d), NEW i \in Ups'  PROVE \E l \in Downs' : i < l
    <3>1. i \in Ups
      BY <2>2, <1>3, <1>9
    <3>2. CASE d \in down
      BY <3>1, <3>2, <2>2, <1>3 DEF Wakes, Alternates
    <3>3. CASE n + 1 \in Downs'
      BY <3>1, <3>3, <1>1, <1>2
    <3> QED BY <3>2, <3>3, <2>2, <1>8
  <2> QED BY <2>1, <2>2
<1>11. ASSUME Sole, PressWaits  PROVE PressWaits'
  <2>1. ASSUME NEW i \in Ups'  PROVE \E l \in Downs' : l < i
    <3>1. CASE i \in Ups
      BY <3>1, <1>3, <1>11 DEF PressWaits
    <3>2. CASE i = n + 1
      <4>1. k \in down /\ SleepKey(k)  BY <3>2, <2>1, <1>7
      <4>2. PICK l \in Downs : TRUE  BY <4>1, <1>11 DEF PressWaits
      <4>3. l \in Downs' /\ l < n + 1  BY <1>1, <1>2, <1>3
      <4> QED BY <4>3, <3>2
    <3> QED BY <3>1, <3>2, <1>3
  <2>2. ASSUME NEW d \in down', SleepKey(d)  PROVE Downs' # {}
    BY <2>2, <1>3, <1>8, <1>11 DEF PressWaits
  <2> QED BY <2>1, <2>2, SoleSame DEF PressWaits
<1>12. SleepRead'
  BY <1>11, SoleSame DEF Wakes, SleepRead
<1> QED BY <1>10, <1>12 DEF Wakes

(* A gamepad's events gone: not those of the key that sleeps.                *)
LEMMA PullWakes ==
  ASSUME Types, Wakes, dev' = dev, pad' = pad, pc' = pc, pc # "look", read' = read, why' = why, Pulls
  PROVE  Wakes'
<1> DEFINE n == Len(queue)
           m == Len(queue')
<1>1. PICK h : Kept(queue', h, n, dev.pad)
  BY DEF Pulls
<1>2. /\ h \in [1..m -> 1..n] /\ m \in Nat /\ n \in Nat
      /\ \A i \in 1..m : queue'[i] = queue[h[i]]
      /\ \A i, j \in 1..m : i < j => h[i] < h[j]
      /\ \A j \in 1..n : queue[j].key \notin dev.pad => \E i \in 1..m : h[i] = j
  BY <1>1, Lengths DEF Kept
<1>3. down' \subseteq down
  BY DEF Pulls
<1> HIDE DEF n, m
<1>4. \A i \in Ups' : i \in 1..m /\ h[i] \in Ups
  BY <1>2 DEF Ups, Release1, m, n
<1>5. ASSUME NEW l \in Downs  PROVE \E x \in Downs' : x \in 1..m /\ h[x] = l
  <2>1. l \in 1..n /\ queue[l].key # "stick" /\ queue[l].value = 1 /\ dev.sleep \in dev.keys[queue[l].key]
    BY DEF Downs, Pressing, n
  <2>2. queue[l].key \notin dev.pad
    BY <2>1, EventsAre, SleepKeys DEF Types, n
  <2>3. PICK x \in 1..m : h[x] = l
    BY <2>1, <2>2, <1>2
  <2>4. queue'[x] = queue[l]
    BY <2>3, <1>2
  <2> QED BY <2>1, <2>3, <2>4 DEF Downs, Pressing, m
<1>6. ASSUME NEW i \in 1..m, NEW j \in 1..m, h[i] < h[j]  PROVE i < j
  <2>1. h[i] \in 1..n /\ h[j] \in 1..n  BY <1>2
  <2>2. i # j /\ ~(j < i)
    BY <1>2, <1>6, <2>1
  <2> QED BY <2>2, <1>2
<1>7. Alternates'
  <2> SUFFICES ASSUME Sole
               PROVE  /\ \A i, j \in Ups' : i < j => \E l \in Downs' : i < l /\ l < j
                      /\ \A k \in down' : SleepKey(k) => \A i \in Ups' : \E l \in Downs' : i < l
    BY SoleSame DEF Alternates
  <2>1. ASSUME NEW i \in Ups', NEW j \in Ups', i < j  PROVE \E l \in Downs' : i < l /\ l < j
    <3>1. h[i] \in Ups /\ h[j] \in Ups /\ h[i] < h[j] /\ i \in 1..m /\ j \in 1..m
      BY <2>1, <1>2, <1>4
    <3>2. PICK l \in Downs : h[i] < l /\ l < h[j]
      BY <3>1 DEF Wakes, Alternates
    <3>3. PICK x \in Downs' : x \in 1..m /\ h[x] = l
      BY <1>5
    <3> QED BY <3>1, <3>2, <3>3, <1>6
  <2>2. ASSUME NEW k \in down', SleepKey(k), NEW i \in Ups'  PROVE \E l \in Downs' : i < l
    <3>1. PICK l \in Downs : h[i] < l
      BY <2>2, <1>3, <1>4 DEF Wakes, Alternates
    <3>2. PICK x \in Downs' : x \in 1..m /\ h[x] = l
      BY <1>5
    <3> QED BY <3>1, <3>2, <1>4, <1>6
  <2> QED BY <2>1, <2>2
<1>8. PressWaits => PressWaits'
  <2> SUFFICES ASSUME PressWaits  PROVE PressWaits'
    OBVIOUS
  <2>1. ASSUME NEW i \in Ups'  PROVE \E l \in Downs' : l < i
    <3>1. PICK l \in Downs : l < h[i]
      BY <1>4 DEF PressWaits
    <3>2. PICK x \in Downs' : x \in 1..m /\ h[x] = l
      BY <1>5
    <3> QED BY <3>1, <3>2, <1>4, <1>6
  <2>2. ASSUME NEW k \in down', SleepKey(k)  PROVE Downs' # {}
    <3>1. PICK l \in Downs : TRUE
      BY <2>2, <1>3 DEF PressWaits
    <3> QED BY <3>1, <1>5
  <2> QED BY <2>1, <2>2, SoleSame DEF PressWaits
<1>9. SleepRead'
  BY <1>8, SoleSame DEF Wakes, SleepRead
<1> QED BY <1>7, <1>9 DEF Wakes

LEMMA HandWakes ==
  ASSUME Types, Wakes, Hands
  PROVE  Wakes'
<1>0. /\ pc # "look" /\ dev' = dev /\ pad' = pad /\ pc' = pc /\ read' = read /\ why' = why
      /\ (\E k \in Keys : LetGo(k) \/ Presses(k) \/ Touches(k)) \/ Points \/ Pulls \/ Idles
  BY HandsDo
<1>1. ASSUME NEW k \in Keys, LetGo(k)  PROVE Wakes'
  <2>1. k \in down /\ down' = down \ {k} /\ Adds(k, 0)  BY <1>1 DEF LetGo
  <2> QED BY <1>0, <2>1, AddWakes
<1>2. ASSUME NEW k \in Keys, Presses(k)  PROVE Wakes'
  <2>1. down' = down \cup {k} /\ Adds(k, 1) /\ k # "stick"  BY <1>2, SleepKeys DEF Presses
  <2> QED BY <1>0, <2>1, AddWakes
<1>3. ASSUME NEW k \in Keys, Touches(k)  PROVE Wakes'
  <2>1. down' = down /\ Adds(k, 0) /\ ~SleepKey(k)
    BY <1>3, SleepKeys DEF Touches, SleepKey
  <2> QED BY <1>0, <2>1, AddWakes
<1>4. CASE Points
  <2>1. CASE Adds("stick", stick')
    <3>1. down' = down  BY <1>4 DEF Points
    <3> QED BY <1>0, <2>1, <3>1, AddWakes
  <2>2. CASE queue' = queue
    BY <1>0, <1>4, <2>2, SameWakes DEF Points
  <2> QED BY <1>4, <2>1, <2>2 DEF Points
<1>5. CASE Pulls
  BY <1>0, <1>5, PullWakes
<1>6. CASE Idles
  BY <1>0, <1>6, SameWakes DEF Idles
<1> QED BY <1>0, <1>1, <1>2, <1>3, <1>4, <1>5, <1>6

LEMMA LaunchWakes ==
  ASSUME Types, Wakes, Launch
  PROVE  Wakes'
<1>1. /\ pc = "poll" /\ pc' = pc /\ dev' = dev /\ down' = down /\ why' = why
      /\ queue' = <<>> /\ pad' = PAD_reset
      /\ read' = (read \/ \E i \in 1..Len(queue) : Pressing(i, dev.sleep))
  BY DEF Launch, SleepPressed, Pressing
<1>2. Ups' = {} /\ Downs' = {}
  <2>1. (queue = <<>> => Ups = {} /\ Downs = {})'
    BY NoEvents, PTL
  <2> QED BY <1>1, <2>1
<1>3. Alternates'
  BY <1>2 DEF Alternates
<1>4. Sole /\ ~read' => PressWaits'
  <2> SUFFICES ASSUME Sole, ~read'  PROVE PressWaits'
    OBVIOUS
  <2>1. ~read /\ Downs = {}
    BY <1>1 DEF Downs
  <2>2. \A k \in down : ~SleepKey(k)
    BY <2>1, <1>1 DEF Wakes, SleepRead, PressWaits
  <2> QED BY <2>2, <1>1, <1>2, SoleSame DEF PressWaits
<1>5. SleepRead'
  BY <1>1, <1>4, SoleSame DEF SleepRead
<1> QED BY <1>3, <1>5 DEF Wakes

LEMMA WakesNext ==
  ASSUME Types, Wakes, [Next]_vars
  PROVE  Wakes'
<1>1. CASE Next
  <2>1. CASE VIB_thread
    BY <2>1, SameWakes DEF VIB_thread, world, history
  <2>2. CASE \E s \in 0..1 : VIB_setStrength(s)
    BY <2>2, SameWakes DEF VIB_setStrength, world
  <2> QED BY <1>1, <2>1, <2>2, PollWakes, WaitWakes, LookWakes, LaunchWakes, HandWakes, StepsAre
<1>2. CASE UNCHANGED vars
  BY <1>2, SameWakes DEF vars, world, history
<1> QED BY <1>1, <1>2

-----------------------------------------------------------------------------
(* The invariant.                                                            *)
Inv == Types /\ Motor /\ Strength /\ LidSeen /\ Held /\ PowerHeld /\ Wakes

LEMMA InvInit == Init => Inv
<1> SUFFICES ASSUME Init  PROVE Inv
  OBVIOUS
<1>1. /\ queue = <<>> /\ down = {} /\ stick = 0 /\ pad = PAD_reset /\ lid = TRUE /\ mode = "top" /\ pc = "poll"
      /\ power = None /\ vib = [queued |-> 0, strength |-> 0, defer |-> 0, saved |-> 0]
      /\ asked = [strength |-> 0, behind |-> FALSE]
  BY DEF Init
<1>2. Types
  BY TypesInit
<1>3. Motor /\ Strength
  BY <1>1, DelaysAre DEF Motor, Strength
<1>4. LidSeen
  BY <1>1 DEF LidSeen
<1>5. Held
  BY <1>1, ResetTyped DEF Held, KeysDown, ButtonsHeld, StickPoints, NoStickEvent
<1>6. PowerHeld
  BY <1>1, ResetTyped DEF PowerHeld
<1>7. Wakes
  <2>1. Ups = {} /\ Downs = {}  BY <1>1, NoEvents
  <2> QED BY <1>1, <2>1 DEF Wakes, Alternates, SleepRead, PressWaits
<1> QED BY <1>2, <1>3, <1>4, <1>5, <1>6, <1>7 DEF Inv

LEMMA InvNext == Inv /\ [Next]_vars => Inv'
  BY TypesNext, MotorNext, LidNext, HeldNext, PowerNext, WakesNext DEF Inv

LEMMA InvAlways == Spec => []Inv
<1> QED BY InvInit, InvNext, PTL DEF Spec

LEMMA InvTypeOK == Inv => TypeOK
<1> SUFFICES ASSUME Inv  PROVE TypeOK
  OBVIOUS
<1>1. \A i \in 1..Len(queue) : queue[i].key \in Keys \cup {"stick"} /\ queue[i].value \in -1..1
  <2> SUFFICES ASSUME NEW i \in 1..Len(queue)
               PROVE  queue[i].key \in Keys \cup {"stick"} /\ queue[i].value \in -1..1
    OBVIOUS
  <2>1. queue[i] \in Event  BY EventsAre DEF Inv, Types
  <2> QED BY <2>1 DEF Event
<1>2. /\ down \subseteq Keys /\ stick \in -1..1 /\ {plugged, open, charging, lid, defer} \subseteq BOOLEAN
      /\ {was_charging, tapping, ignore, missed, read} \subseteq BOOLEAN
  BY DEF Inv, Types, Flags
<1>3. /\ pad \in Pads /\ pad.repeated \subseteq pad.is \cup (pad.released \cap {"LEFT", "RIGHT"})
      /\ Len(queue) <= MaxQueue
  BY DEF Inv, Types, Typed
<1>4. Phases /\ Ages /\ Motor
  BY DEF Inv, Types
<1> QED BY <1>1, <1>2, <1>3, <1>4 DEF TypeOK, Pads, Phases, Ages, Motor

LEMMA InvNoStuckButton == Inv => NoStuckButton
<1> SUFFICES ASSUME Inv, pc = "look", NEW b \in pad.is \ orphans  PROVE Holds(b)
  BY DEF NoStuckButton
<1>1. Held /\ queue = <<>> /\ stick \in -1..1
  BY DEF Inv, Types, Phases
<1>2. CASE b \in Sticks
  <2>1. b \in Dir(stick)
    BY <1>1, <1>2 DEF Held, StickPoints
  <2>2. (stick = 1 /\ b = "RIGHT") \/ (stick = -1 /\ b = "LEFT")
    BY <1>1, <2>1 DEF Dir
  <2> QED BY <2>2 DEF Holds
<1>3. CASE b \notin Sticks
  <2>1. \E k \in down : b \in dev.keys[k]
    BY <1>1, <1>3 DEF Held, ButtonsHeld
  <2> QED BY <2>1 DEF Holds
<1> QED BY <1>2, <1>3

(* Every variable keeps its type, ages stay below their delays and the queue *)
(* within its bound; what repeats is pressed, but for a centred direction.   *)
THEOREM InputIsTyped == Spec => []TypeOK
<1> QED BY InvAlways, InvTypeOK, PTL

(* What a look takes for pressed is held by a key or the stick, whatever was *)
(* pressed, slept through, pulled out or thrown away before.                 *)
THEOREM NoButtonSticks == Spec => []NoStuckButton
<1> QED BY InvAlways, InvNoStuckButton, PTL

(* POWER's time only runs while POWER is held or its release waits, where no *)
(* frame without PWR_update took the release.                                *)
THEOREM PowerIsHeld == Spec => []HoldIsHeld
<1>1. Inv => HoldIsHeld
  BY DEF Inv, PowerHeld, PowerDown, ReleaseWaits, HoldIsHeld, Holds
<1> QED BY <1>1, InvAlways, PTL

(* A lid that was seen closed leaves no loop polling.                        *)
THEOREM LidSleeps == Spec => []ClosedLidSleeps
<1>1. Inv => ClosedLidSleeps
  BY DEF Inv, LidSeen, ClosedLidSleeps
<1> QED BY <1>1, InvAlways, PTL

(* A sleep by the button follows a press of it that was read while awake.    *)
THEOREM WakeDoesNotSleep == Spec => []NoSleepAfterWake
<1>1. Inv => NoSleepAfterWake
  BY DEF Inv, Wakes, SleepRead, Sole, NoSleepAfterWake
<1> QED BY <1>1, InvAlways, PTL

(* The motor does in the game what the core asked for last, menus or not.    *)
THEOREM RumbleReturns == Spec => []RumbleGivenBack
<1>1. Inv => RumbleGivenBack
  BY DEF Inv, Strength, RumbleGivenBack
<1> QED BY <1>1, InvAlways, PTL
=============================================================================
