-------------------------- MODULE Settings_proofs --------------------------
(* Every invariant of Settings, for every set of programs, of levels and of  *)
(* devices, however many keys, plugs and sleeps there are.                   *)
EXTENDS Settings, SequenceTheorems, WellFoundedInduction, TLAPS

(* A call's steps: what is read is written next if it is written at all, and *)
(* what is written is saved next.                                            *)
Levelled == {"volume", "brightness"}
Steps == [op : {"flag", "read", "write", "save"}, what : Ports \cup Levelled \cup {""}, by : Int]
Ordered(s, i) ==
  /\ s[i].op = "flag" => s[i].what \in Ports /\ s[i].by \in {0, 1}
  /\ s[i].op = "read" =>
       /\ s[i].what \in Levelled /\ i + 2 <= Len(s)
       /\ s[i + 1].op = "write" /\ s[i + 1].what = s[i].what /\ s[i + 2].op = "save"
  /\ s[i].op = "write" =>
       /\ s[i].what \in Levelled /\ i + 1 <= Len(s) /\ s[i + 1].op = "save"
       /\ i # 1 => s[i - 1].op = "read"
WellFormed(s) == s \in Seq(Steps) /\ \A i \in 1..Len(s) : Ordered(s, i)
Fresh(s) == WellFormed(s) /\ (s # <<>> => s[1].op # "write")
(* Every flag of w that a call stores is v, of one that is on its way in q too. *)
Told(s, w, v) == \A i \in 1..Len(s) : s[i].op = "flag" /\ s[i].what = w => s[i].by = v
Sent(s, w, v) == \A i \in 1..Len(s) : s[i].key = w => s[i].value = v

(* The variables' types, those of the calls among them. *)
Memory == [brightness : 0..BRIGHTNESS_MAX, headphones : 0..VOLUME_MAX, speaker : 0..VOLUME_MAX,
           jack : {0, 1}, hdmi : {0, 1}, mute : {0, 1}]
KeyEvents == [key : Keys \cup mon.switches, value : 0..2]
Typed ==
  /\ platform \in Platforms /\ shm \in Memory /\ file \in Memory
  /\ run \in [Procs -> {"off", "run", "asleep"}]
  /\ pressed \in [Keys -> 0..2] /\ just \in [Keys -> 0..2] /\ lr \in {0, 1}
  /\ kpc \in {"top", "read", "up", "down", "off"} /\ ignore \in BOOLEAN /\ slept \in BOOLEAN
  /\ held \subseteq Keys /\ ports \in [Ports -> {0, 1}] /\ had \in [Ports -> {0, 1}]
  /\ q \in Seq(KeyEvents) /\ \A i \in 1..Len(q) : q[i].key \in Ports => q[i].value \in {0, 1}
CallsTyped ==
  /\ todo \in [Procs -> Seq(Steps)] /\ val \in [Procs -> 0..VOLUME_MAX \cup 0..BRIGHTNESS_MAX]
  /\ \A p \in Procs :
       /\ WellFormed(todo[p])
       /\ Busy(p) /\ Now(p).op = "write" => val[p] \in 0..LevelMax(Now(p).what)
       /\ run[p] # "run" => ~Busy(p)
(* Whoever changed a level last has yet to save. *)
Pending ==
  run["keymon"] = "run" =>
    \/ \A l \in Levels : file[l] = shm[l]
    \/ \E p \in Procs : Busy(p) /\ Now(p).op = "save"
(* Every press that waits is of a key that is down, or of one whose release  *)
(* waits behind it; and where keys are read one by one, none is ignored.     *)
Released(k) == [key |-> k, value |-> 0]
Answered(h, s) ==
  \A i \in 1..Len(s) : s[i].key \in Keys /\ s[i].value # 0 =>
    s[i].key \in h \/ \E j \in (i + 1)..Len(s) : s[j] = Released(s[i].key)
Ended(h, s, k) == k \in h \/ \E i \in 1..Len(s) : s[i] = Released(k)
Waiting == Answered(held, q) /\ (mon.events => ~ignore /\ kpc \in {"read", "off"})
FlagOf(w, by) == [op |-> "flag", what |-> w, by |-> by]
(* The looks at a watched port are true: those of the others to the port,    *)
(* those of the watch thread to what it last saw; and when it has stored its *)
(* own, the memory has that, or already what the port has become.            *)
LooksTrue(w) ==
  /\ \A p \in Procs \ {"watch"} : Told(todo[p], w, ports[w])
  /\ Sent(q, w, ports[w])
  /\ Told(todo["watch"], w, had[w])
  /\ run["watch"] = "run" /\ ~Holds("watch", w) => shm[w] \in {had[w], ports[w]}
Owes ==
  /\ run["keymon"] = "off" => run["watch"] = "off"
  /\ \A w \in Ports \ doubted : Watched(w) => LooksTrue(w)
IInv == Typed /\ CallsTyped /\ Pending /\ Waiting /\ NoRunaway /\ Owes

USE DEF seen

-----------------------------------------------------------------------------
(* The steps of a call, put together and taken one after the other.          *)

LEMMA ConcatAt ==
  ASSUME NEW S, NEW s \in Seq(S), NEW t \in Seq(S)
  PROVE  /\ s \o t \in Seq(S) /\ Len(s \o t) = Len(s) + Len(t)
         /\ Len(s) \in Nat /\ Len(t) \in Nat
         /\ \A i \in 1..Len(s) : (s \o t)[i] = s[i]
         /\ \A i \in 1..Len(t) : (s \o t)[Len(s) + i] = t[i]
         /\ \A i \in 1..Len(s \o t) : i \in 1..Len(s) \/ i - Len(s) \in 1..Len(t)
         /\ \A i \in 1..Len(s \o t) : ~(i <= Len(s)) => (s \o t)[i] = t[i - Len(s)]
  OBVIOUS

LEMMA DropAt ==
  ASSUME NEW S, NEW s \in Seq(S), NEW n \in 0..Len(s)
  PROVE  /\ SubSeq(s, n + 1, Len(s)) \in Seq(S)
         /\ Len(SubSeq(s, n + 1, Len(s))) = Len(s) - n
         /\ Len(s) \in Nat
         /\ \A i \in 1..(Len(s) - n) : SubSeq(s, n + 1, Len(s))[i] = s[i + n] /\ i + n \in 1..Len(s)
  OBVIOUS

LEMMA OrderedMoved ==
  ASSUME NEW s, NEW c, Len(s) \in Nat, Len(c) \in Nat,
         NEW k \in Nat \ {0}, NEW i \in Nat \ {0}, c[i] = s[k], Ordered(s, k),
         k + 1 <= Len(s) => i + 1 <= Len(c) /\ c[i + 1] = s[k + 1],
         k + 2 <= Len(s) => i + 2 <= Len(c) /\ c[i + 2] = s[k + 2],
         s[k].op = "write" /\ i # 1 => k # 1 /\ c[i - 1] = s[k - 1]
  PROVE  Ordered(c, i)
<1>1. c[i].op = "flag" => c[i].what \in Ports /\ c[i].by \in {0, 1}
  BY DEF Ordered
<1>2. c[i].op = "read" =>
        /\ c[i].what \in Levelled /\ i + 2 <= Len(c)
        /\ c[i + 1].op = "write" /\ c[i + 1].what = c[i].what /\ c[i + 2].op = "save"
  BY DEF Ordered
<1>3. c[i].op = "write" =>
        /\ c[i].what \in Levelled /\ i + 1 <= Len(c) /\ c[i + 1].op = "save"
        /\ i # 1 => c[i - 1].op = "read"
  BY DEF Ordered
<1> QED BY <1>1, <1>2, <1>3 DEF Ordered

LEMMA FreshConcat ==
  ASSUME NEW s, Fresh(s), NEW t, Fresh(t)
  PROVE  Fresh(s \o t)
<1> DEFINE c == s \o t  a == Len(s)  b == Len(t)
<1>1. /\ c \in Seq(Steps) /\ Len(c) = a + b /\ a \in Nat /\ b \in Nat
      /\ \A i \in 1..a : c[i] = s[i]
      /\ \A i \in 1..(a + b) : ~(i <= a) => c[i] = t[i - a]
  BY ConcatAt DEF Fresh, WellFormed
<1>2. WellFormed(s) /\ WellFormed(t) /\ (t # <<>> => t[1].op # "write") /\ (s # <<>> => s[1].op # "write")
  BY DEF Fresh
<1>3. a = Len(s) /\ b = Len(t) /\ (b # 0 => t # <<>>) /\ (a # 0 => s # <<>>)
  OBVIOUS
<1>4. c = <<>> \/ (a # 0 /\ c[1] = s[1]) \/ (a = 0 /\ b # 0 /\ c[1] = t[1])
  <2>1. CASE a + b = 0
    <3>1. Len(c) = 0  BY <1>1, <2>1
    <3> HIDE DEF c
    <3> QED BY <3>1, <1>1, EmptySeq
  <2>2. CASE a # 0
    BY <1>1, <2>2
  <2>3. CASE a = 0 /\ b # 0
    BY <1>1, <2>3
  <2> HIDE DEF a, b
  <2> QED BY <2>1, <2>2, <2>3, <1>1
<1> HIDE DEF c, a, b
<1>5. ASSUME NEW i \in 1..Len(c)
      PROVE  Ordered(c, i)
  <2>1. CASE i <= a
    <3>1. i \in 1..Len(s) /\ c[i] = s[i] /\ Ordered(s, i)  BY <2>1, <1>1, <1>2, <1>3 DEF WellFormed
    <3>2. i + 1 <= a => i + 1 <= Len(c) /\ c[i + 1] = s[i + 1]  BY <1>1
    <3>3. i + 2 <= a => i + 2 <= Len(c) /\ c[i + 2] = s[i + 2]  BY <1>1
    <3>4. i # 1 => c[i - 1] = s[i - 1]  BY <2>1, <1>1
    <3>5. i \in Nat \ {0} /\ Len(s) \in Nat /\ Len(c) \in Nat  BY <1>1, <1>3
    <3> QED BY <3>1, <3>2, <3>3, <3>4, <3>5, <1>3, OrderedMoved
  <2>2. CASE ~(i <= a)
    <3> DEFINE k == i - a
    <3>1. k \in 1..Len(t) /\ c[i] = t[k]  BY <2>2, <1>1, <1>3
    <3>2. k + 1 <= b => i + 1 <= Len(c) /\ c[i + 1] = t[k + 1]  BY <2>2, <1>1, <1>3
    <3>3. k + 2 <= b => i + 2 <= Len(c) /\ c[i + 2] = t[k + 2]  BY <2>2, <1>1, <1>3
    <3>4. k # 1 => c[i - 1] = t[k - 1]  BY <2>2, <1>1, <1>3
    <3>5. k = 1 => t[k].op # "write"
      <4>1. t # <<>>  BY <3>1
      <4> QED BY <4>1, <1>2
    <3>6. k \in Nat \ {0} /\ i \in Nat \ {0} /\ Len(t) \in Nat /\ Len(c) \in Nat  BY <1>1, <1>3, <3>1
    <3> HIDE DEF k
    <3>7. Ordered(t, k)  BY <3>1, <1>2 DEF WellFormed
    <3> QED BY <3>1, <3>2, <3>3, <3>4, <3>5, <3>6, <3>7, <1>3, OrderedMoved
  <2> QED BY <2>1, <2>2
<1>6. WellFormed(c)
  BY <1>1, <1>5 DEF WellFormed
<1>7. c # <<>> => c[1].op # "write"
  BY <1>2, <1>3, <1>4
<1> QED BY <1>6, <1>7 DEF Fresh, c

LEMMA DropWellFormed ==
  ASSUME NEW s, WellFormed(s), NEW n \in 0..Len(s)
  PROVE  WellFormed(SubSeq(s, n + 1, Len(s)))
<1> DEFINE c == SubSeq(s, n + 1, Len(s))  b == Len(s) - n
<1>1. /\ c \in Seq(Steps) /\ Len(c) = b /\ Len(s) \in Nat /\ b \in Nat
      /\ \A i \in 1..b : c[i] = s[i + n] /\ i + n \in 1..Len(s)
  <2>1. s \in Seq(Steps)  BY DEF WellFormed
  <2> QED BY <2>1, DropAt
<1>2. b = Len(s) - n /\ n \in Nat
  OBVIOUS
<1> HIDE DEF c, b
<1>3. ASSUME NEW i \in 1..Len(c)
      PROVE  Ordered(c, i)
  <2> DEFINE k == i + n
  <2>1. k \in 1..Len(s) /\ c[i] = s[k] /\ Ordered(s, k)  BY <1>1 DEF WellFormed
  <2>2. k + 1 <= Len(s) => i + 1 <= Len(c) /\ c[i + 1] = s[k + 1]  BY <1>1, <1>2
  <2>3. k + 2 <= Len(s) => i + 2 <= Len(c) /\ c[i + 2] = s[k + 2]  BY <1>1, <1>2
  <2>4. i # 1 => c[i - 1] = s[k - 1] /\ k # 1  BY <1>1, <1>2
  <2>5. k \in Nat \ {0} /\ i \in Nat \ {0} /\ Len(c) \in Nat  BY <1>1, <1>2
  <2> HIDE DEF k
  <2> QED BY <2>1, <2>2, <2>3, <2>4, <2>5, <1>1, OrderedMoved
<1>4. WellFormed(c)
  BY <1>1, <1>3 DEF WellFormed
<1> QED BY <1>4 DEF c

LEMMA ToldConcat ==
  ASSUME NEW s \in Seq(Steps), NEW t \in Seq(Steps), NEW w, NEW v, Told(s, w, v), Told(t, w, v)
  PROVE  Told(s \o t, w, v)
<1> DEFINE c == s \o t
<1>1. /\ \A i \in 1..Len(s) : c[i] = s[i]
      /\ \A i \in 1..Len(c) : i \in 1..Len(s) \/ i - Len(s) \in 1..Len(t)
      /\ \A i \in 1..Len(c) : ~(i <= Len(s)) => c[i] = t[i - Len(s)]
  BY ConcatAt
<1> HIDE DEF c
<1>2. ASSUME NEW i \in 1..Len(c), c[i].op = "flag", c[i].what = w
      PROVE  c[i].by = v
  <2>1. CASE i \in 1..Len(s)
    BY <2>1, <1>1, <1>2 DEF Told
  <2>2. CASE ~(i \in 1..Len(s))
    <3>1. ~(i <= Len(s)) /\ i - Len(s) \in 1..Len(t)  BY <2>2, <1>1
    <3> QED BY <3>1, <1>1, <1>2 DEF Told
  <2> QED BY <2>1, <2>2
<1>3. Told(c, w, v)
  BY <1>2 DEF Told
<1> QED BY <1>3 DEF c

LEMMA StoresConcat ==
  ASSUME NEW s \in Seq(Steps), NEW t \in Seq(Steps), NEW w, Stores(s, w) \/ Stores(t, w)
  PROVE  Stores(s \o t, w)
<1> DEFINE c == s \o t
<1>1. /\ Len(c) = Len(s) + Len(t) /\ Len(s) \in Nat /\ Len(t) \in Nat
      /\ \A i \in 1..Len(s) : c[i] = s[i]
      /\ \A i \in 1..Len(t) : c[Len(s) + i] = t[i]
  BY ConcatAt
<1> HIDE DEF c
<1>2. CASE Stores(s, w)
  <2>1. PICK i \in 1..Len(s) : s[i].op = "flag" /\ s[i].what = w  BY <1>2 DEF Stores
  <2>2. i \in 1..Len(c) /\ c[i] = s[i]  BY <1>1
  <2> QED BY <2>1, <2>2 DEF Stores, c
<1>3. CASE Stores(t, w)
  <2>1. PICK i \in 1..Len(t) : t[i].op = "flag" /\ t[i].what = w  BY <1>3 DEF Stores
  <2>2. Len(s) + i \in 1..Len(c) /\ c[Len(s) + i] = t[i]  BY <1>1
  <2> QED BY <2>1, <2>2 DEF Stores, c
<1> QED BY <1>2, <1>3

(* A step, a level's read, write and save, and a port's call. *)
LEMMA Empty == Fresh(<<>>) /\ <<>> \in Seq(Steps) /\ Len(<<>>) = 0 /\ \A w, v : Told(<<>>, w, v)
  BY DEF Fresh, WellFormed, Told, Ordered

LEMMA AfterOne ==
  ASSUME NEW S, NEW s \in Seq(S), NEW t \in Seq(S), Len(s) = 1
  PROVE  /\ s \o t \in Seq(S) /\ Len(t) \in Nat /\ Len(s \o t) = 1 + Len(t) /\ (s \o t)[1] = s[1]
         /\ \A i \in 1..Len(s \o t) : ~(i <= 1) => (s \o t)[i] = t[i - 1]
<1> DEFINE c == s \o t
<1>1. c \in Seq(S) /\ Len(c) = Len(s) + Len(t) /\ Len(t) \in Nat  BY ConcatAt
<1>2. \A i \in 1..Len(s) : c[i] = s[i]  BY ConcatAt
<1>3. \A i \in 1..Len(c) : ~(i <= Len(s)) => c[i] = t[i - Len(s)]  BY ConcatAt
<1> HIDE DEF c
<1>4. c \in Seq(S) /\ Len(t) \in Nat /\ Len(c) = 1 + Len(t) /\ c[1] = s[1]
      /\ \A i \in 1..Len(c) : ~(i <= 1) => c[i] = t[i - 1]
  BY <1>1, <1>2, <1>3
<1> QED BY <1>4 DEF c

LEMMA ChainOfThree ==
  ASSUME NEW S, NEW a \in S, NEW b \in S, NEW d \in S
  PROVE  LET c == <<a>> \o (<<b>> \o <<d>>) IN c \in Seq(S) /\ Len(c) = 3 /\ c[1] = a /\ c[2] = b /\ c[3] = d
<1> DEFINE x == <<a>>  y == <<b>>  z == <<d>>  t == y \o z  c == x \o t
<1>1. /\ x \in Seq(S) /\ Len(x) = 1 /\ x[1] = a
      /\ y \in Seq(S) /\ Len(y) = 1 /\ y[1] = b
      /\ z \in Seq(S) /\ Len(z) = 1 /\ z[1] = d
  OBVIOUS
<1> HIDE DEF x, y, z
<1>2. t \in Seq(S) /\ Len(t) = 1 + Len(z) /\ t[1] = y[1] /\ \A i \in 1..Len(t) : ~(i <= 1) => t[i] = z[i - 1]
  BY <1>1, AfterOne
<1> HIDE DEF t
<1>3. t \in Seq(S) /\ Len(t) = 2 /\ t[1] = b /\ t[2] = d
  BY <1>1, <1>2
<1>4. x \in Seq(S) /\ t \in Seq(S) /\ Len(x) = 1  BY <1>1, <1>3
<1>5. /\ c \in Seq(S) /\ Len(c) = 1 + Len(t) /\ c[1] = x[1]
      /\ \A i \in 1..Len(c) : ~(i <= 1) => c[i] = t[i - 1]
  <2>1. c \in Seq(S)  BY <1>4, AfterOne
  <2>2. Len(c) = 1 + Len(t)  BY <1>4, AfterOne
  <2>3. c[1] = x[1]  BY <1>4, AfterOne
  <2>4. \A i \in 1..Len(c) : ~(i <= 1) => c[i] = t[i - 1]  BY <1>4, AfterOne
  <2> QED BY <2>1, <2>2, <2>3, <2>4
<1> HIDE DEF c
<1>6. c \in Seq(S) /\ Len(c) = 3 /\ c[1] = a /\ c[2] = b /\ c[3] = d
  BY <1>1, <1>3, <1>5
<1> QED BY <1>6 DEF c, t, x, y, z

LEMMA ZeroIn == 0 \in Int
  OBVIOUS
LEMMA StepIn ==
  ASSUME NEW op \in {"flag", "read", "write", "save"},
         NEW what \in Ports \cup Levelled \cup {""}, NEW by \in Int
  PROVE  [op |-> op, what |-> what, by |-> by] \in Steps
  BY DEF Steps
LEMMA StepOfNone ==
  ASSUME NEW op \in {"flag", "read", "write", "save"}, NEW what \in Ports \cup Levelled \cup {""}
  PROVE  [op |-> op, what |-> what, by |-> 0] \in Steps
  BY ZeroIn, StepIn

LEMMA ReadWriteSave ==
  ASSUME NEW what \in Levelled, NEW by \in Int
  PROVE  LET c == Step("read", what, by) \o (IF what = "volume" THEN SetVolume ELSE SetBrightness)
         IN Fresh(c) /\ Len(c) = 3 /\ \A i \in 1..3 : c[i].op # "flag"
<1> DEFINE c == Step("read", what, by) \o (IF what = "volume" THEN SetVolume ELSE SetBrightness)
           r == [op |-> "read", what |-> what, by |-> by]
           w == [op |-> "write", what |-> what, by |-> 0]
           s == [op |-> "save", what |-> "", by |-> 0]
<1>1. c = <<r>> \o (<<w>> \o <<s>>)
  <2>1. CASE what = "volume"  BY <2>1 DEF Step, SetVolume
  <2>2. CASE what = "brightness"  BY <2>2 DEF Step, SetBrightness
  <2> QED BY <2>1, <2>2 DEF Levelled
<1>2. r \in Steps /\ w \in Steps /\ s \in Steps
  <2>1. r \in Steps  BY StepIn
  <2>2. w \in Steps  BY StepOfNone
  <2>3. s \in Steps  BY StepOfNone
  <2> QED BY <2>1, <2>2, <2>3
<1>3. /\ r.op = "read" /\ w.op = "write" /\ s.op = "save"
      /\ r.what = what /\ w.what = what
  OBVIOUS
<1> HIDE DEF c, r, w, s
<1>4. c \in Seq(Steps) /\ Len(c) = 3 /\ c[1] = r /\ c[2] = w /\ c[3] = s /\ 1..Len(c) = {1, 2, 3}
  BY <1>1, <1>2, ChainOfThree
<1>5. c[1 + 1] = w /\ c[1 + 2] = s /\ c[2 + 1] = s /\ c[2 - 1] = r
  BY <1>4
<1>6. WellFormed(c)
  <2>1. Ordered(c, 1) /\ Ordered(c, 2) /\ Ordered(c, 3)
    BY <1>3, <1>4, <1>5 DEF Ordered
  <2> QED BY <1>4, <2>1 DEF WellFormed
<1>7. Fresh(c)
  BY <1>3, <1>4, <1>6 DEF Fresh
<1>8. \A i \in 1..3 : c[i].op # "flag"
  BY <1>3, <1>4
<1> QED BY <1>4, <1>7, <1>8 DEF c

LEMMA AgainFresh ==
  ASSUME NEW what \in Levelled
  PROVE  Fresh(Again(what)) /\ Len(Again(what)) = 3 /\ \A i \in 1..3 : Again(what)[i].op # "flag"
  BY ZeroIn, ReadWriteSave DEF Again

LEMMA OneStepFresh ==
  ASSUME NEW prs, NEW by \in Int
  PROVE  Fresh(OneStep(prs, by)) /\ \A w, v : Told(OneStep(prs, by), w, v)
<1> DEFINE R(what) == Step("read", what, by) \o (IF what = "volume" THEN SetVolume ELSE SetBrightness)
<1>1. \A what \in Levelled : Fresh(R(what)) /\ Len(R(what)) = 3 /\ \A i \in 1..3 : R(what)[i].op # "flag"
  BY ReadWriteSave
<1>2. OneStep(prs, by) \in {R("volume"), R("brightness"), <<>>}
  <2>1. CASE Means(prs) = "volume"  BY <2>1 DEF OneStep
  <2>2. CASE Means(prs) = "brightness"  BY <2>2 DEF OneStep
  <2>3. CASE Means(prs) \notin {"volume", "brightness"}  BY <2>3 DEF OneStep
  <2> QED BY <2>1, <2>2, <2>3
<1> HIDE DEF R
<1>3. ASSUME NEW what \in Levelled  PROVE Fresh(R(what)) /\ \A w, v : Told(R(what), w, v)
  BY <1>1 DEF Told
<1> QED BY <1>2, <1>3, Empty DEF Levelled

(* Of a port's call, only the first step stores the flag. *)
LEMMA SetPortFresh ==
  ASSUME NEW port \in Ports, NEW on \in {0, 1}
  PROVE  LET c == SetPort(port, on) IN
         /\ Fresh(c) /\ \A w, v : (w = port => v = on) => Told(c, w, v)
         /\ \A i \in 1..Len(c) : c[i].op = "flag" => i = 1 /\ c[i] = FlagOf(port, on)
         /\ port \in lib.sets => Stores(c, port)
<1> DEFINE g == FlagOf(port, on)
           s == <<g>>
           t == IF on = 1 /\ port # "jack" THEN <<>> ELSE Again("volume")
           c == s \o t
<1>1. SetPort(port, on) = IF port \notin lib.sets THEN <<>> ELSE c
  BY DEF SetPort, Step, FlagOf
<1>2. g \in Steps /\ g.op = "flag" /\ g.what = port /\ g.by = on
  <2>1. on \in Int  OBVIOUS
  <2> QED BY <2>1, StepIn DEF FlagOf
<1>3. Fresh(t) /\ \A i \in 1..Len(t) : t[i].op # "flag"
  <2>1. CASE on = 1 /\ port # "jack"  BY <2>1, Empty
  <2>2. CASE ~(on = 1 /\ port # "jack")  BY <2>2, AgainFresh DEF Levelled
  <2> QED BY <2>1, <2>2
<1> HIDE DEF g, t
<1>4. s \in Seq(Steps) /\ Len(s) = 1 /\ s[1] = g
  BY <1>2
<1>5. Fresh(s)
  <2>1. WellFormed(s)
    <3>1. Ordered(s, 1)  BY <1>2, <1>4 DEF Ordered
    <3> QED BY <1>4, <3>1 DEF WellFormed
  <2> QED BY <1>2, <1>4, <2>1 DEF Fresh
<1> HIDE DEF s
<1>6. t \in Seq(Steps) /\ s \in Seq(Steps)  BY <1>3, <1>4 DEF Fresh, WellFormed
<1>7. Fresh(c)  BY <1>3, <1>5, FreshConcat
<1>8. /\ Len(c) = 1 + Len(t) /\ c[1] = s[1]
      /\ \A i \in 1..Len(c) : ~(i <= 1) => c[i] = t[i - 1]
  <2>1. Len(c) = 1 + Len(t)  BY <1>4, <1>6, AfterOne
  <2>2. c[1] = s[1]  BY <1>4, <1>6, AfterOne
  <2>3. \A i \in 1..Len(c) : ~(i <= 1) => c[i] = t[i - 1]  BY <1>4, <1>6, AfterOne
  <2> QED BY <2>1, <2>2, <2>3
<1>9. Len(t) \in Nat
  BY <1>6
<1> HIDE DEF c
<1>11. ASSUME NEW i \in 1..Len(c), c[i].op = "flag"  PROVE i = 1 /\ c[i] = g
  <2>1. CASE i = 1  BY <2>1, <1>4, <1>8
  <2>2. CASE i # 1
    <3>1. ~(i <= 1) /\ i - 1 \in 1..Len(t)  BY <2>2, <1>8, <1>9
    <3> QED BY <3>1, <1>3, <1>8, <1>11
  <2> QED BY <2>1, <2>2
<1>12. \A w, v : (w = port => v = on) => Told(c, w, v)
  BY <1>11, <1>2 DEF Told
<1>13. CASE port \in lib.sets
  <2>1. SetPort(port, on) = c  BY <1>1, <1>13
  <2>2. Stores(c, port)
    <3>1. 1 \in 1..Len(c) /\ c[1] = g  BY <1>4, <1>8, <1>9
    <3> QED BY <1>2, <3>1 DEF Stores
  <2> QED BY <2>1, <2>2, <1>7, <1>11, <1>12 DEF g
<1>14. CASE port \notin lib.sets
  <2>1. SetPort(port, on) = <<>>  BY <1>1, <1>14
  <2> QED BY <2>1, <1>14, Empty
<1> QED BY <1>13, <1>14

-----------------------------------------------------------------------------
(* The calls of a list, by induction on how many of them there are.          *)

Below == {u \in Nat \X Nat : u[1] < u[2]}
LEMMA BelowWF == IsWellFoundedOn(Below, Nat)
<1>1. OpToRel(<, Nat) = Below  BY DEF OpToRel, Below
<1> QED BY <1>1, NatLessThanWellFounded

(* A property of 0 that each number hands on to the next. *)
LEMMA Upwards ==
  ASSUME NEW n \in Nat, NEW S, 0 \in S, \A i \in 1..n : i - 1 \in S => i \in S
  PROVE  \A i \in 0..n : i \in S
<1> DEFINE T == {i \in 0..n : i \notin S}
<1>1. SUFFICES ASSUME T # {}  PROVE FALSE
  OBVIOUS
<1>2. PICK x \in T : \A y \in T : ~(<<y, x>> \in Below)
  <2>1. T \subseteq Nat  OBVIOUS
  <2> QED BY <1>1, <2>1, BelowWF, WFMin
<1>3. x \in 1..n /\ x - 1 \in 0..n /\ x - 1 < x
  <2>1. x \in 0..n /\ x # 0  OBVIOUS
  <2> QED BY <2>1
<1>4. x - 1 \notin S
  BY <1>3
<1>5. x - 1 \in T
  BY <1>3, <1>4
<1>6. <<x - 1, x>> \in Below
  BY <1>3 DEF Below
<1> QED BY <1>2, <1>5, <1>6

(* One call after the other: that there is such a function, and what it      *)
(* makes of calls that begin with no write.                                  *)
Sums(g, n, c) == g = [i \in 0..n |-> IF i = 0 THEN <<>> ELSE g[i - 1] \o c[i]]

LEMMA SumsExist ==
  ASSUME NEW n \in Nat, NEW c
  PROVE  \E g : Sums(g, n, c)
<1> DEFINE S == {m \in 0..n : \E g : Sums(g, m, c)}
<1>1. 0 \in S
  <2>1. Sums([i \in 0..0 |-> <<>>], 0, c)
    BY DEF Sums
  <2> QED BY <2>1
<1>2. ASSUME NEW m \in 1..n, m - 1 \in S  PROVE m \in S
  <2>1. PICK g : Sums(g, m - 1, c)
    BY <1>2
  <2> DEFINE h == [i \in 0..m |-> IF i = m THEN g[m - 1] \o c[m] ELSE g[i]]
  <2>2. ASSUME NEW i \in 0..m, i # 0  PROVE h[i] = h[i - 1] \o c[i]
    <3>1. i - 1 \in 0..m /\ i - 1 # m  BY <2>2
    <3>2. h[i - 1] = g[i - 1]  BY <3>1
    <3>3. CASE i = m  BY <3>2, <3>3
    <3>4. CASE i # m
      <4>1. i \in 0..(m - 1)  BY <3>4
      <4>2. g[i] = g[i - 1] \o c[i]  BY <2>1, <4>1, <2>2 DEF Sums
      <4> QED BY <3>2, <4>2, <3>4
    <3> QED BY <3>3, <3>4
  <2>3. h[0] = <<>>
    <3>1. 0 \in 0..m /\ 0 # m /\ 0 \in 0..(m - 1)  OBVIOUS
    <3> QED BY <3>1, <2>1 DEF Sums
  <2>4. Sums(h, m, c)
    <3>1. h = [i \in 0..m |-> h[i]]  OBVIOUS
    <3> HIDE DEF h
    <3> QED BY <3>1, <2>2, <2>3 DEF Sums
  <2> HIDE DEF h
  <2> QED BY <2>4
<1>3. n \in S
  <2> HIDE DEF S
  <2>1. \A i \in 0..n : i \in S  BY <1>1, <1>2, Upwards
  <2> QED BY <2>1
<1> QED BY <1>3

LEMMA SumsFresh ==
  ASSUME NEW n \in Nat, NEW c, NEW g, Sums(g, n, c), NEW w, NEW v,
         \A i \in 1..n : Fresh(c[i]) /\ Told(c[i], w, v)
  PROVE  /\ Fresh(g[n]) /\ Told(g[n], w, v)
         /\ \A i \in 1..n : Stores(c[i], w) => Stores(g[n], w)
<1> DEFINE Has(m) == \A i \in 1..m : Stores(c[i], w) => Stores(g[m], w)
           S == {m \in 0..n : Fresh(g[m]) /\ Told(g[m], w, v) /\ Has(m)}
<1>1. 0 \in S
  <2>1. 0 \in 0..n /\ g[0] = <<>>  BY DEF Sums
  <2>2. Has(0)  OBVIOUS
  <2> HIDE DEF Has
  <2> QED BY <2>1, <2>2, Empty
<1>2. ASSUME NEW m \in 1..n, m - 1 \in S  PROVE m \in S
  <2>1. m \in 0..n /\ m # 0 /\ g[m] = g[m - 1] \o c[m]
    <3>1. m \in 0..n /\ m # 0  OBVIOUS
    <3>2. g = [i \in 0..n |-> IF i = 0 THEN <<>> ELSE g[i - 1] \o c[i]]  BY DEF Sums
    <3> HIDE DEF S, Has
    <3> QED BY <3>1, <3>2
  <2>2. Fresh(g[m - 1]) /\ Told(g[m - 1], w, v) /\ Fresh(c[m]) /\ Told(c[m], w, v)  BY <1>2
  <2>3. g[m - 1] \in Seq(Steps) /\ c[m] \in Seq(Steps)  BY <2>2 DEF Fresh, WellFormed
  <2>4. Fresh(g[m]) /\ Told(g[m], w, v)  BY <2>1, <2>2, <2>3, FreshConcat, ToldConcat
  <2>5. Has(m)
    <3> SUFFICES ASSUME NEW i \in 1..m, Stores(c[i], w)  PROVE Stores(g[m], w)
      OBVIOUS
    <3>1. CASE i = m  BY <2>1, <2>3, <3>1, StoresConcat
    <3>2. CASE i # m
      <4>1. i \in 1..(m - 1)  BY <3>2
      <4>2. Stores(g[m - 1], w)  BY <1>2, <4>1
      <4> QED BY <2>1, <2>3, <4>2, StoresConcat
    <3> QED BY <3>1, <3>2
  <2> HIDE DEF Has
  <2> QED BY <2>1, <2>4, <2>5
<1>3. n \in S
  <2> HIDE DEF S
  <2>1. \A i \in 0..n : i \in S  BY <1>1, <1>2, Upwards
  <2> QED BY <2>1
<1> QED BY <1>3

LEMMA CallsFresh ==
  ASSUME NEW list \in Seq(Ports \cup Levelled), NEW look \in [Ports -> {0, 1}], NEW w, NEW v,
         (\E i \in 1..Len(list) : list[i] = w) => v = look[w]
  PROVE  Fresh(Calls(list, look)) /\ Told(Calls(list, look), w, v)
<1> DEFINE n == Len(list)
           call(x) == IF x \in Ports THEN SetPort(x, look[x]) ELSE Again(x)
           c == [i \in 1..n |-> call(list[i])]
           Is(g) == g = [i \in 0..n |-> IF i = 0 THEN <<>> ELSE g[i - 1] \o call(list[i])]
<1>1. n \in Nat
  OBVIOUS
<1>2. ASSUME NEW i \in 1..n  PROVE Fresh(c[i]) /\ Told(c[i], w, v)
  <2>1. c[i] = call(list[i]) /\ list[i] \in Ports \cup Levelled  OBVIOUS
  <2>2. CASE list[i] \in Ports
    <3>1. look[list[i]] \in {0, 1} /\ (w = list[i] => v = look[list[i]])  BY <2>2
    <3>2. c[i] = SetPort(list[i], look[list[i]])  BY <2>1, <2>2
    <3> HIDE DEF c
    <3> QED BY <2>2, <3>1, <3>2, SetPortFresh
  <2>3. CASE list[i] \notin Ports
    <3>1. c[i] = Again(list[i]) /\ list[i] \in Levelled  BY <2>1, <2>3
    <3> HIDE DEF c
    <3> QED BY <3>1, AgainFresh DEF Told
  <2> QED BY <2>2, <2>3
<1>3. \E g : Is(g)
  <2>1. PICK g : Sums(g, n, c)
    <3> HIDE DEF n, c
    <3> QED BY <1>1, SumsExist
  <2>2. Is(g)
    <3>1. \A i \in 0..n : i # 0 => i \in 1..n  BY <1>1
    <3>2. \A i \in 1..n : c[i] = call(list[i])  OBVIOUS
    <3> HIDE DEF n, c, call
    <3> QED BY <2>1, <3>1, <3>2 DEF Sums
  <2> HIDE DEF Is
  <2> QED BY <2>2
<1> DEFINE f == CHOOSE g : Is(g)
<1>4. Is(f)
  <2> HIDE DEF Is
  <2> QED BY <1>3
<1>5. Calls(list, look) = f[n]
  BY DEF Calls
<1>6. Sums(f, n, c)
  <2>1. \A i \in 0..n : i # 0 => i \in 1..n  BY <1>1
  <2>2. \A i \in 1..n : c[i] = call(list[i])  OBVIOUS
  <2> HIDE DEF n, c, call, f
  <2> QED BY <1>4, <2>1, <2>2 DEF Sums
<1> HIDE DEF n, c, f
<1> HIDE DEF call, Is
<1>7. Fresh(f[n]) /\ Told(f[n], w, v)
  <2>1. \A i \in 1..n : Fresh(c[i]) /\ Told(c[i], w, v)  BY <1>2
  <2>2. /\ Fresh(f[n]) /\ Told(f[n], w, v)
        /\ \A i \in 1..n : Stores(c[i], w) => Stores(f[n], w)
    BY <1>1, <1>6, <2>1, SumsFresh
  <2> QED BY <2>2
<1> QED BY <1>5, <1>7

-----------------------------------------------------------------------------
(* The devices.                                                              *)

Devices == {"rg35xxplus", "rgb30", "my355", "gkdpixel", "my282", "magicmini", "rg35xx", "m17",
            "trimuismart", "miyoomini", "miyoominiplus", "tg5040", "zero28"}
LEMMA DeviceIn == platform \in Platforms => platform \in Devices
<1>1. DOMAIN msettings = Devices
  BY DEF msettings, Devices
<1> QED BY <1>1, PlatformsAssumption

(* What the proofs need of a library and a keymon: the ports they name are   *)
(* ports, a keymon that reads its keys one by one has no switches, and the   *)
(* ports it watches are those the library stores.                            *)
LibraryOf(l) ==
  /\ l.sets \subseteq Ports /\ l.guard \subseteq Ports /\ l.shade \subseteq Ports /\ l.fresh \subseteq Ports
  /\ l.opens \in Seq(Ports \cup Levelled)
KeymonOf(k) ==
  /\ k.watches \in Seq(Ports) /\ k.switches \subseteq Ports /\ k.blind \subseteq Ports
  /\ k.events => k.switches = {}
StoredOf(l, k) == \A i \in 1..Len(k.watches) : k.watches[i] \in l.sets

LEMMA DeviceTable ==
  ASSUME platform \in Platforms
  PROVE  LibraryOf(lib) /\ KeymonOf(mon) /\ StoredOf(lib, mon)
<1> USE DEF LibraryOf, KeymonOf, StoredOf, Ports, Levelled
<1>1. CASE platform = "rg35xxplus"
  <2>1. lib = rg35xxplus_settings  BY <1>1 DEF lib, msettings
  <2>2. mon = rg35xxplus_keymon  BY <1>1 DEF mon, keymons
  <2>3. LibraryOf(rg35xxplus_settings)  BY DEF rg35xxplus_settings
  <2>4. KeymonOf(rg35xxplus_keymon)  BY DEF rg35xxplus_keymon, Keymon
  <2>5. StoredOf(rg35xxplus_settings, rg35xxplus_keymon)  BY DEF rg35xxplus_settings, rg35xxplus_keymon, Keymon
  <2> QED BY <2>1, <2>2, <2>3, <2>4, <2>5
<1>2. CASE platform = "rgb30"
  <2>1. lib = rgb30_settings  BY <1>2 DEF lib, msettings
  <2>2. mon = rgb30_keymon  BY <1>2 DEF mon, keymons
  <2>3. LibraryOf(rgb30_settings)  BY DEF rgb30_settings
  <2>4. KeymonOf(rgb30_keymon)  BY DEF rgb30_keymon, Keymon
  <2>5. StoredOf(rgb30_settings, rgb30_keymon)  BY DEF rgb30_settings, rgb30_keymon, Keymon
  <2> QED BY <2>1, <2>2, <2>3, <2>4, <2>5
<1>3. CASE platform = "my355"
  <2>1. lib = my355_settings  BY <1>3 DEF lib, msettings
  <2>2. mon = my355_keymon  BY <1>3 DEF mon, keymons
  <2>3. LibraryOf(my355_settings)  BY DEF my355_settings
  <2>4. KeymonOf(my355_keymon)  BY DEF my355_keymon, Keymon
  <2>5. StoredOf(my355_settings, my355_keymon)  BY DEF my355_settings, my355_keymon, Keymon
  <2> QED BY <2>1, <2>2, <2>3, <2>4, <2>5
<1>4. CASE platform = "gkdpixel"
  <2>1. lib = gkdpixel_settings  BY <1>4 DEF lib, msettings
  <2>2. mon = gkdpixel_keymon  BY <1>4 DEF mon, keymons
  <2>3. LibraryOf(gkdpixel_settings)  BY DEF gkdpixel_settings
  <2>4. KeymonOf(gkdpixel_keymon)  BY DEF gkdpixel_keymon, Keymon
  <2>5. StoredOf(gkdpixel_settings, gkdpixel_keymon)  BY DEF gkdpixel_settings, gkdpixel_keymon, Keymon
  <2> QED BY <2>1, <2>2, <2>3, <2>4, <2>5
<1>5. CASE platform = "my282"
  <2>1. lib = my282_settings  BY <1>5 DEF lib, msettings
  <2>2. mon = my282_keymon  BY <1>5 DEF mon, keymons
  <2>3. LibraryOf(my282_settings)  BY DEF my282_settings
  <2>4. KeymonOf(my282_keymon)  BY DEF my282_keymon, Keymon
  <2>5. StoredOf(my282_settings, my282_keymon)  BY DEF my282_settings, my282_keymon, Keymon
  <2> QED BY <2>1, <2>2, <2>3, <2>4, <2>5
<1>6. CASE platform = "magicmini"
  <2>1. lib = magicmini_settings  BY <1>6 DEF lib, msettings
  <2>2. mon = magicmini_keymon  BY <1>6 DEF mon, keymons
  <2>3. LibraryOf(magicmini_settings)  BY DEF magicmini_settings
  <2>4. KeymonOf(magicmini_keymon)  BY DEF magicmini_keymon, Keymon
  <2>5. StoredOf(magicmini_settings, magicmini_keymon)  BY DEF magicmini_settings, magicmini_keymon, Keymon
  <2> QED BY <2>1, <2>2, <2>3, <2>4, <2>5
<1>7. CASE platform = "rg35xx"
  <2>1. lib = rg35xx_settings  BY <1>7 DEF lib, msettings
  <2>2. mon = rg35xx_keymon  BY <1>7 DEF mon, keymons
  <2>3. LibraryOf(rg35xx_settings)  BY DEF rg35xx_settings
  <2>4. KeymonOf(rg35xx_keymon)  BY DEF rg35xx_keymon, Keymon
  <2>5. StoredOf(rg35xx_settings, rg35xx_keymon)  BY DEF rg35xx_settings, rg35xx_keymon, Keymon
  <2> QED BY <2>1, <2>2, <2>3, <2>4, <2>5
<1>8. CASE platform = "m17"
  <2>1. lib = m17_settings  BY <1>8 DEF lib, msettings
  <2>2. mon = m17_keymon  BY <1>8 DEF mon, keymons
  <2>3. LibraryOf(m17_settings)  BY DEF m17_settings
  <2>4. KeymonOf(m17_keymon)  BY DEF m17_keymon, Keymon
  <2>5. StoredOf(m17_settings, m17_keymon)  BY DEF m17_settings, m17_keymon, Keymon
  <2> QED BY <2>1, <2>2, <2>3, <2>4, <2>5
<1>9. CASE platform = "trimuismart"
  <2>1. lib = trimuismart_settings  BY <1>9 DEF lib, msettings
  <2>2. mon = trimuismart_keymon  BY <1>9 DEF mon, keymons
  <2>3. LibraryOf(trimuismart_settings)  BY DEF trimuismart_settings
  <2>4. KeymonOf(trimuismart_keymon)  BY DEF trimuismart_keymon, Keymon
  <2>5. StoredOf(trimuismart_settings, trimuismart_keymon)  BY DEF trimuismart_settings, trimuismart_keymon, Keymon
  <2> QED BY <2>1, <2>2, <2>3, <2>4, <2>5
<1>10. CASE platform = "miyoomini"
  <2>1. lib = miyoomini_settings  BY <1>10 DEF lib, msettings
  <2>2. mon = miyoomini_keymon  BY <1>10 DEF mon, keymons
  <2>3. LibraryOf(miyoomini_settings)  BY DEF miyoomini_settings
  <2>4. KeymonOf(miyoomini_keymon)  BY DEF miyoomini_keymon, Keymon
  <2>5. StoredOf(miyoomini_settings, miyoomini_keymon)  BY DEF miyoomini_settings, miyoomini_keymon, Keymon
  <2> QED BY <2>1, <2>2, <2>3, <2>4, <2>5
<1>11. CASE platform = "miyoominiplus"
  <2>1. lib = miyoomini_settings  BY <1>11 DEF lib, msettings
  <2>2. mon = miyoominiplus_keymon  BY <1>11 DEF mon, keymons
  <2>3. LibraryOf(miyoomini_settings)  BY DEF miyoomini_settings
  <2>4. KeymonOf(miyoominiplus_keymon)  BY DEF miyoominiplus_keymon, miyoomini_keymon, Keymon
  <2>5. StoredOf(miyoomini_settings, miyoominiplus_keymon)  BY DEF miyoomini_settings, miyoominiplus_keymon, miyoomini_keymon, Keymon
  <2> QED BY <2>1, <2>2, <2>3, <2>4, <2>5
<1>12. CASE platform = "tg5040"
  <2>1. lib = tg5040_settings  BY <1>12 DEF lib, msettings
  <2>2. mon = tg5040_keymon  BY <1>12 DEF mon, keymons
  <2>3. LibraryOf(tg5040_settings)  BY DEF tg5040_settings
  <2>4. KeymonOf(tg5040_keymon)  BY DEF tg5040_keymon, Keymon
  <2>5. StoredOf(tg5040_settings, tg5040_keymon)  BY DEF tg5040_settings, tg5040_keymon, Keymon
  <2> QED BY <2>1, <2>2, <2>3, <2>4, <2>5
<1>13. CASE platform = "zero28"
  <2>1. lib = zero28_settings  BY <1>13 DEF lib, msettings
  <2>2. mon = zero28_keymon  BY <1>13 DEF mon, keymons
  <2>3. LibraryOf(zero28_settings)  BY DEF zero28_settings
  <2>4. KeymonOf(zero28_keymon)  BY DEF zero28_keymon, Keymon
  <2>5. StoredOf(zero28_settings, zero28_keymon)  BY DEF zero28_settings, zero28_keymon, Keymon
  <2> QED BY <2>1, <2>2, <2>3, <2>4, <2>5
<1> QED BY DeviceIn, <1>1, <1>2, <1>3, <1>4, <1>5, <1>6, <1>7, <1>8, <1>9, <1>10, <1>11, <1>12, <1>13 DEF Devices

(* The fold of StartWatch. *)
LEMMA FirstLookFresh ==
  ASSUME NEW garbage \in {0, 1}, ports \in [Ports -> {0, 1}], KeymonOf(mon), StoredOf(lib, mon),
         NEW w, NEW v, w \in Ports => v = IF w \in mon.blind THEN garbage ELSE ports[w]
  PROVE  /\ Fresh(FirstLook(garbage)) /\ Told(FirstLook(garbage), w, v)
         /\ Watched(w) => Stores(FirstLook(garbage), w)
<1> DEFINE n == Len(mon.watches)
           first(x) == SetPort(x, IF x \in mon.blind THEN garbage ELSE ports[x])
           c == [i \in 1..n |-> first(mon.watches[i])]
           Is(g) == g = [i \in 0..n |-> IF i = 0 THEN <<>> ELSE g[i - 1] \o first(mon.watches[i])]
<1>1. n \in Nat /\ \A i \in 1..n : mon.watches[i] \in Ports /\ mon.watches[i] \in lib.sets
  BY DEF KeymonOf, StoredOf
<1>2. ASSUME NEW i \in 1..n
      PROVE  Fresh(c[i]) /\ Told(c[i], w, v) /\ (mon.watches[i] = w => Stores(c[i], w))
  <2>1. c[i] = first(mon.watches[i]) /\ mon.watches[i] \in Ports /\ mon.watches[i] \in lib.sets  BY <1>1
  <2> DEFINE x == mon.watches[i]
             on == IF x \in mon.blind THEN garbage ELSE ports[x]
  <2>2. x \in Ports /\ x \in lib.sets /\ c[i] = SetPort(x, on) /\ (w = x => v = on)  BY <2>1
  <2>3. on \in {0, 1}
    <3> HIDE DEF x
    <3>1. CASE x \in mon.blind  BY <3>1
    <3>2. CASE x \notin mon.blind  BY <2>2, <3>2
    <3> QED BY <3>1, <3>2
  <2>4. x = mon.watches[i]
    OBVIOUS
  <2> HIDE DEF on, x, c
  <2> QED BY <2>2, <2>3, <2>4, SetPortFresh
<1>3. \E g : Is(g)
  <2>1. PICK g : Sums(g, n, c)
    <3> HIDE DEF n, c
    <3> QED BY <1>1, SumsExist
  <2>2. Is(g)
    <3>1. \A i \in 0..n : i # 0 => i \in 1..n  BY <1>1
    <3>2. \A i \in 1..n : c[i] = first(mon.watches[i])  OBVIOUS
    <3> HIDE DEF n, c, first
    <3> QED BY <2>1, <3>1, <3>2 DEF Sums
  <2> HIDE DEF Is
  <2> QED BY <2>2
<1> DEFINE f == CHOOSE g : Is(g)
<1>4. Is(f)
  <2> HIDE DEF Is
  <2> QED BY <1>3
<1>5. FirstLook(garbage) = f[n]
  BY DEF FirstLook
<1>6. Sums(f, n, c)
  <2>1. \A i \in 0..n : i # 0 => i \in 1..n  BY <1>1
  <2>2. \A i \in 1..n : c[i] = first(mon.watches[i])  OBVIOUS
  <2> HIDE DEF n, c, first, f
  <2> QED BY <1>4, <2>1, <2>2 DEF Sums
<1> HIDE DEF n, c, f
<1>7. /\ Fresh(f[n]) /\ Told(f[n], w, v)
      /\ \A i \in 1..n : Stores(c[i], w) => Stores(f[n], w)
  BY <1>1, <1>2, <1>6, SumsFresh
<1>8. Watched(w) => Stores(f[n], w)
  BY <1>2, <1>7 DEF Watched, n
<1> QED BY <1>5, <1>7, <1>8

LEMMA LooksTyped ==
  ASSUME ports \in [Ports -> {0, 1}], NEW look \in Looks
  PROVE  look \in [Ports -> {0, 1}]
  BY DEF Looks, Ports

(* The shared memory with a flag or a level stored. *)
Fields == {"brightness", "headphones", "speaker", "jack", "hdmi", "mute"}
LevelOf(f) == IF f = "brightness" THEN 0..BRIGHTNESS_MAX ELSE 0..VOLUME_MAX
LEMMA MemoryIs ==
  ASSUME NEW m
  PROVE  m \in Memory <=> /\ m = [f \in Fields |-> m[f]]
                          /\ \A f \in Levels : m[f] \in LevelOf(f)
                          /\ \A f \in Ports : m[f] \in {0, 1}
  BY DEF Memory, Fields, LevelOf, Levels, Ports

LEMMA FieldsAre == Fields = Levels \cup Ports /\ Levels \cap Ports = {}
  BY DEF Fields, Levels, Ports

LEMMA Stored ==
  ASSUME NEW m \in Memory, NEW f \in Fields, NEW v, f \in Levels => v \in LevelOf(f), f \in Ports => v \in {0, 1}
  PROVE  /\ [m EXCEPT ![f] = v] \in Memory
         /\ [m EXCEPT ![f] = v][f] = v
         /\ \A g \in Fields \ {f} : [m EXCEPT ![f] = v][g] = m[g]
<1> DEFINE c == [m EXCEPT ![f] = v]
<1>1. m = [g \in Fields |-> m[g]] /\ (\A g \in Levels : m[g] \in LevelOf(g)) /\ (\A g \in Ports : m[g] \in {0, 1})
  BY MemoryIs
<1>2. c = [g \in Fields |-> IF g = f THEN v ELSE m[g]]
  BY <1>1
<1>3. c = [g \in Fields |-> c[g]] /\ c[f] = v /\ \A g \in Fields \ {f} : c[g] = m[g]
  BY <1>2
<1> HIDE DEF c
<1>4. (\A g \in Levels : c[g] \in LevelOf(g)) /\ (\A g \in Ports : c[g] \in {0, 1})
  BY <1>1, <1>3, FieldsAre
<1>5. c \in Memory
  BY <1>3, <1>4, MemoryIs
<1> QED BY <1>3, <1>5 DEF c

-----------------------------------------------------------------------------
(* The invariant holds at first.                                             *)

LEMMA DeviceSame == platform' = platform => lib' = lib /\ mon' = mon
  BY DEF lib, mon

LEMMA ProcsAre == "keymon" \in Procs /\ "watch" \in Procs /\ Clients \subseteq Procs
  BY DEF Procs

LEMMA InitMemory == Zeros \in Memory /\ DefaultSettings \in Memory
  BY LevelsAssumption DEF Zeros, DefaultSettings, Memory

LEMMA InitIInv == Init => IInv
<1> SUFFICES ASSUME Init PROVE IInv
  OBVIOUS
<1>1. Typed
  <2>1. shm \in Memory /\ file \in Memory
    BY InitMemory DEF Init
  <2>2. ports \in [Ports -> {0, 1}] /\ had \in [Ports -> {0, 1}]
    BY DEF Init
  <2>3. pressed \in [Keys -> 0..2] /\ just \in [Keys -> 0..2] /\ lr \in {0, 1}
    BY DEF Init
  <2>4. q \in Seq(KeyEvents) /\ \A i \in 1..Len(q) : q[i].key \in Ports => q[i].value \in {0, 1}
    BY DEF Init
  <2>5. run \in [Procs -> {"off", "run", "asleep"}]
    BY DEF Init
  <2> QED BY <2>1, <2>2, <2>3, <2>4, <2>5 DEF Init, Typed
<1>2. CallsTyped
  <2>1. todo = [p \in Procs |-> <<>>] /\ val = [p \in Procs |-> 0]
    BY DEF Init
  <2>2. todo \in [Procs -> Seq(Steps)]
    BY <2>1
  <2>3. 0 \in 0..VOLUME_MAX
    BY LevelsAssumption
  <2>4. val \in [Procs -> 0..VOLUME_MAX \cup 0..BRIGHTNESS_MAX]
    BY <2>1, <2>3
  <2>5. \A p \in Procs : ~Busy(p) /\ WellFormed(todo[p])
    BY <2>1, Empty DEF Busy, Fresh
  <2> QED BY <2>2, <2>4, <2>5 DEF CallsTyped
<1>3. run["keymon"] = "off" /\ run["watch"] = "off"
  BY ProcsAre DEF Init
<1>4. Pending
  BY <1>3 DEF Pending
<1>5. Waiting
  BY DEF Init, Waiting, Answered
<1>6. NoRunaway
  BY DEF Init, NoRunaway
<1>7. Owes
  <2>1. \A p \in Procs : \A w, v : Told(todo[p], w, v)
    BY Empty DEF Init
  <2>2. \A w, v : Sent(q, w, v)
    BY DEF Init, Sent
  <2> QED BY <1>3, <2>1, <2>2, ProcsAre DEF Owes, LooksTrue
<1> QED BY <1>1, <1>2, <1>4, <1>5, <1>6, <1>7 DEF IInv

-----------------------------------------------------------------------------
(* A step of Next is of one of three kinds: a call is begun by a process     *)
(* that is in none, a call goes on, or none is touched.                      *)

Begun(p, c) ==
  /\ p \in Procs /\ ~Busy(p) /\ Fresh(c)
  /\ todo' = [todo EXCEPT ![p] = c] /\ val' = val
  /\ run' \in [Procs -> {"off", "run", "asleep"}] /\ run'[p] = "run"
  /\ \A r \in Procs \ {p} : run'[r] = run[r]

LEMMA BegunCalls ==
  ASSUME CallsTyped, NEW p, NEW c, Begun(p, c)
  PROVE  CallsTyped'
<1>1. /\ todo \in [Procs -> Seq(Steps)] /\ val \in [Procs -> 0..VOLUME_MAX \cup 0..BRIGHTNESS_MAX]
      /\ p \in Procs /\ todo' = [todo EXCEPT ![p] = c] /\ val' = val
      /\ run'[p] = "run" /\ \A r \in Procs \ {p} : run'[r] = run[r]
  BY DEF CallsTyped, Begun
<1>2. WellFormed(c) /\ c \in Seq(Steps) /\ (c # <<>> => c[1].op # "write")
  BY DEF Begun, Fresh, WellFormed
<1>3. todo' \in [Procs -> Seq(Steps)]
  BY <1>1, <1>2
<1>4. ASSUME NEW r \in Procs
      PROVE  /\ WellFormed(todo'[r])
             /\ todo'[r] # <<>> /\ todo'[r][1].op = "write" => val'[r] \in 0..LevelMax(todo'[r][1].what)
             /\ run'[r] # "run" => todo'[r] = <<>>
  <2>1. CASE r = p
    <3>1. todo'[r] = c  BY <1>1, <2>1
    <3>2. WellFormed(todo'[r]) /\ run'[r] = "run"  BY <1>1, <1>2, <2>1, <3>1
    <3>3. todo'[r] # <<>> => todo'[r][1].op # "write"  BY <1>2, <3>1
    <3> QED BY <3>2, <3>3
  <2>2. CASE r # p
    <3>1. todo'[r] = todo[r] /\ run'[r] = run[r] /\ val'[r] = val[r]  BY <1>1, <2>2
    <3> QED BY <3>1 DEF CallsTyped, Busy, Now
  <2> QED BY <2>1, <2>2
<1>5. val' \in [Procs -> 0..VOLUME_MAX \cup 0..BRIGHTNESS_MAX]
  BY <1>1
<1> QED BY <1>3, <1>4, <1>5 DEF CallsTyped, Busy, Now

LEMMA BegunPending ==
  ASSUME CallsTyped, Pending, NEW p, NEW c, Begun(p, c), UNCHANGED <<shm, file>>,
         run'["keymon"] = "run" => run["keymon"] = "run"
  PROVE  Pending'
<1>1. todo \in [Procs -> Seq(Steps)] /\ todo' = [todo EXCEPT ![p] = c] /\ ~Busy(p)
  BY DEF CallsTyped, Begun
<1>2. CASE \A l \in Levels : file[l] = shm[l]
  BY <1>2 DEF Pending
<1>3. CASE \E r \in Procs : Busy(r) /\ Now(r).op = "save"
  <2>1. PICK r \in Procs : Busy(r) /\ Now(r).op = "save"
    BY <1>3
  <2>2. todo'[r] = todo[r]
    BY <1>1, <2>1
  <2> QED BY <2>1, <2>2 DEF Pending, Busy, Now
<1> QED BY <1>2, <1>3 DEF Pending

LEMMA Untouched ==
  ASSUME CallsTyped, Pending, UNCHANGED <<todo, val, run, shm, file>>
  PROVE  CallsTyped' /\ Pending'
<1>1. CallsTyped'
  BY DEF CallsTyped, Busy, Now, LevelMax
<1>2. Pending'
  BY DEF Pending, Busy, Now
<1> QED BY <1>1, <1>2

LEMMA LoopCall ==
  ASSUME Typed, CallsTyped, NEW pc, AtKeys(pc), NEW c, Fresh(c), Begin(c), UNCHANGED <<val, run>>
  PROVE  Begun("keymon", c)
  BY ProcsAre DEF Typed, AtKeys, Running, Begin, Begun

LEMMA LoopCallsNothing ==
  ASSUME Typed, CallsTyped, NEW pc, AtKeys(pc), UNCHANGED <<todo, val, run>>
  PROVE  Begun("keymon", <<>>)
<1>1. todo \in [Procs -> Seq(Steps)] /\ todo["keymon"] = <<>>
  BY DEF CallsTyped, AtKeys, Busy
<1>2. Begin(<<>>)
  BY <1>1, ProcsAre DEF Begin
<1> QED BY <1>2, LoopCall, Empty

LEMMA KeysAreNoPorts == Keys \cap Ports = {}
  BY DEF Keys, Ports

LEMMA LoopBegins ==
  ASSUME Typed, CallsTyped, Loop
  PROVE  /\ \E c : Begun("keymon", c) /\ (\A w, v : Sent(q, w, v) => Told(c, w, v))
         /\ UNCHANGED <<platform, shm, file, run, had, doubted, held, ports, events>>
<1> DEFINE As(c) == \A w, v : Sent(q, w, v) => Told(c, w, v)
<1>1. CASE LoopTop
  <2>1. AtKeys("top") /\ UNCHANGED <<todo, val, run>>  BY <1>1 DEF LoopTop
  <2>2. Begun("keymon", <<>>)  BY <2>1, LoopCallsNothing
  <2> QED BY <1>1, <2>2, Empty DEF LoopTop, world
<1>2. CASE ReadEvent
  <2>1. AtKeys("read") /\ q # <<>> /\ UNCHANGED <<val, run, platform, shm, file, had, doubted, held, ports, events>>
    BY <1>2 DEF ReadEvent
  <2>2. q[1].key \in Keys \cup mon.switches /\ (q[1].key \in Ports => q[1].value \in {0, 1})
    <3>1. q \in Seq(KeyEvents) /\ \A i \in 1..Len(q) : q[i].key \in Ports => q[i].value \in {0, 1}
      BY DEF Typed
    <3>2. 1 \in 1..Len(q) /\ q[1] \in KeyEvents
      BY <2>1, <3>1
    <3> QED BY <3>1, <3>2 DEF KeyEvents
  <2>3. CASE UNCHANGED todo
    <3>1. Begun("keymon", <<>>)  BY <2>1, <2>3, LoopCallsNothing
    <3> QED BY <2>1, <3>1, Empty
  <2>4. CASE q[1].key \in Ports /\ Begin(SetPort(q[1].key, q[1].value))
    <3> DEFINE c == SetPort(q[1].key, q[1].value)
    <3>1. Fresh(c) /\ \A w, v : (w = q[1].key => v = q[1].value) => Told(c, w, v)
      BY <2>2, <2>4, SetPortFresh
    <3>2. 1 \in 1..Len(q)
      BY <2>1 DEF Typed
    <3>3. As(c)  BY <3>1, <3>2 DEF Sent
    <3>4. Begun("keymon", c)  BY <2>1, <2>4, <3>1, LoopCall
    <3> QED BY <2>1, <3>3, <3>4
  <2>5. CASE Begin(Again("volume"))
    <3>1. Fresh(Again("volume")) /\ As(Again("volume"))
      BY AgainFresh DEF Levelled, Told
    <3>2. Begun("keymon", Again("volume"))  BY <2>1, <2>5, <3>1, LoopCall
    <3> QED BY <2>1, <3>1, <3>2
  <2> QED BY <1>2, <2>3, <2>4, <2>5 DEF ReadEvent
<1>3. CASE ReadDone
  <2>1. AtKeys("read") /\ UNCHANGED <<todo, val, run>>  BY <1>3 DEF ReadDone
  <2>2. Begun("keymon", <<>>)  BY <2>1, LoopCallsNothing
  <2> QED BY <1>3, <2>2, Empty DEF ReadDone, world
<1>4. ASSUME NEW key, NEW by \in {-1, 1}, NEW from, NEW to, Handle(key, by, from, to)
      PROVE  /\ \E c : Begun("keymon", c) /\ As(c)
             /\ UNCHANGED <<platform, shm, file, run, had, doubted, held, ports, events>>
  <2>1. AtKeys(from) /\ UNCHANGED <<val, run, platform, shm, file, had, doubted, held, ports, events>>
    BY <1>4 DEF Handle, world
  <2>2. CASE UNCHANGED todo
    <3>1. Begun("keymon", <<>>)  BY <2>1, <2>2, LoopCallsNothing
    <3> QED BY <2>1, <3>1, Empty
  <2>3. CASE Begin(OneStep(pressed, by))
    <3>1. by \in Int  OBVIOUS
    <3>2. Fresh(OneStep(pressed, by)) /\ As(OneStep(pressed, by))  BY <3>1, OneStepFresh
    <3>3. Begun("keymon", OneStep(pressed, by))  BY <2>1, <2>3, <3>2, LoopCall
    <3> QED BY <2>1, <3>2, <3>3
  <2> QED BY <1>4, <2>2, <2>3 DEF Handle
<1>5. CASE Up
  BY <1>4, <1>5 DEF Up
<1>6. CASE Down
  BY <1>4, <1>6 DEF Down
<1>7. CASE Event
  <2>1. AtKeys("read") /\ UNCHANGED <<val, run, platform, shm, file, had, doubted, held, ports, events>>
    BY <1>7 DEF Event
  <2>2. PICK prs : UNCHANGED todo \/ Begin(<<>>) \/ \E by \in {-1, 1} : Begin(OneStep(prs, by))
    <3> DEFINE e == q[1]
               prs == IF e.value = 2 THEN pressed ELSE [pressed EXCEPT ![e.key] = e.value]
               v == IF e.value = 2 THEN lr ELSE e.value
               by == IF e.key = "PLUS" THEN 1 ELSE -1
    <3>1. UNCHANGED todo \/ Begin(IF v = 1 THEN OneStep(prs, by) ELSE <<>>)
      BY <1>7 DEF Event
    <3>2. by \in {-1, 1}
      OBVIOUS
    <3> HIDE DEF prs, v, by
    <3> QED BY <3>1, <3>2
  <2>3. CASE UNCHANGED todo
    <3>1. Begun("keymon", <<>>)  BY <2>1, <2>3, LoopCallsNothing
    <3> QED BY <2>1, <3>1, Empty
  <2>4. CASE Begin(<<>>)
    <3>1. Begun("keymon", <<>>)  BY <2>1, <2>4, Empty, LoopCall
    <3> QED BY <2>1, <3>1, Empty
  <2>5. ASSUME NEW by \in {-1, 1}, Begin(OneStep(prs, by))
        PROVE  \E c : Begun("keymon", c) /\ As(c)
    <3>1. by \in Int  OBVIOUS
    <3>2. Fresh(OneStep(prs, by)) /\ As(OneStep(prs, by))  BY <3>1, OneStepFresh
    <3>3. Begun("keymon", OneStep(prs, by))  BY <2>1, <2>5, <3>2, LoopCall
    <3> QED BY <3>2, <3>3
  <2> QED BY <2>1, <2>2, <2>3, <2>4, <2>5
<1> QED BY <1>1, <1>2, <1>3, <1>5, <1>6, <1>7 DEF Loop

(* Of a port that is not doubted then, what InitSettings stores is true. *)
LEMMA StartBegins ==
  ASSUME Typed, CallsTyped, LibraryOf(lib), NEW p \in Procs, run[p] = "off",
         run' = [run EXCEPT ![p] = "run"], Opens(p), val' = val
  PROVE  /\ \E c : Begun(p, c) /\ \A w \in Ports \ doubted' : Watched(w) => Told(c, w, ports[w])
         /\ doubted \subseteq doubted'
<1>1. PICK look \in Looks :
        /\ todo' = [todo EXCEPT ![p] = Calls(lib.opens, look)]
        /\ doubted' = doubted \cup {w \in Ports : Watched(w) /\ Opened(w) /\ look[w] # ports[w]}
  BY DEF Opens
<1> DEFINE c == Calls(lib.opens, look)
<1>2. look \in [Ports -> {0, 1}]
  BY LooksTyped DEF Typed
<1>3. Fresh(c) /\ \A w, v : (Opened(w) => v = look[w]) => Told(c, w, v)
  <2>1. lib.opens \in Seq(Ports \cup Levelled)  BY DEF LibraryOf
  <2>2. ASSUME NEW w, NEW v, Opened(w) => v = look[w]  PROVE Fresh(c) /\ Told(c, w, v)
    <3>1. (\E i \in 1..Len(lib.opens) : lib.opens[i] = w) => v = look[w]  BY <2>2 DEF Opened
    <3> QED BY <1>2, <2>1, <3>1, CallsFresh
  <2>3. \E w, v : Opened(w) => v = look[w]  OBVIOUS
  <2> HIDE DEF c
  <2> QED BY <2>2, <2>3
<1> HIDE DEF c
<1>4. \A w \in Ports \ doubted' : Watched(w) => Told(c, w, ports[w])
  BY <1>1, <1>3
<1>5. ~Busy(p)
  BY DEF CallsTyped
<1>6. run' \in [Procs -> {"off", "run", "asleep"}] /\ run'[p] = "run" /\ \A r \in Procs \ {p} : run'[r] = run[r]
  BY DEF Typed
<1>7. Begun(p, c)
  BY <1>1, <1>3, <1>5, <1>6 DEF Begun, c
<1> QED BY <1>1, <1>4, <1>7

LEMMA ProgramBegins ==
  ASSUME Typed, CallsTyped, LibraryOf(lib), NEW c \in Clients, InitClient(c) \/ PWR_exitSleep(c)
  PROVE  /\ \E d : Begun(c, d) /\ \A w \in Ports \ doubted' : Watched(w) => Told(d, w, ports[w])
         /\ doubted \subseteq doubted'
<1>1. c \in Procs
  BY ProcsAre
<1>2. CASE InitClient(c)
  <2>1. run[c] = "off" /\ run' = [run EXCEPT ![c] = "run"] /\ val' = val /\ Opens(c)
    BY <1>2 DEF InitClient
  <2> QED BY <1>1, <2>1, StartBegins
<1>3. CASE PWR_exitSleep(c)
  <2> DEFINE list == PLAT_enableBacklight \o <<"volume">>
             d == IF shm.hdmi = 1 THEN <<>> ELSE Calls(list, ports)
  <2>1. list \in Seq(Levelled)
    <3>1. PLAT_enableBacklight \in Seq(Levelled)
      <4>1. <<>> \in Seq(Levelled) /\ <<"brightness">> \in Seq(Levelled)  BY DEF Levelled
      <4> QED BY <4>1 DEF PLAT_enableBacklight
    <3>2. <<"volume">> \in Seq(Levelled)  BY DEF Levelled
    <3> QED BY <3>1, <3>2, ConcatProperties
  <2>2. list \in Seq(Ports \cup Levelled) /\ \A i \in 1..Len(list) : list[i] \notin Ports
    <3> HIDE DEF list
    <3>1. Levelled \cap Ports = {} /\ Levelled \subseteq Ports \cup Levelled  BY DEF Levelled, Ports
    <3> QED BY <2>1, <3>1
  <2>3. Fresh(d) /\ \A w \in Ports : Told(d, w, ports[w])
    <3> HIDE DEF list
    <3>1. ports \in [Ports -> {0, 1}]  BY DEF Typed
    <3>2. \A w \in Ports : Fresh(Calls(list, ports)) /\ Told(Calls(list, ports), w, ports[w])
      BY <2>2, <3>1, CallsFresh
    <3>3. "jack" \in Ports  BY DEF Ports
    <3> QED BY <3>2, <3>3, Empty
  <2>4. /\ run[c] = "asleep" /\ run' = [run EXCEPT ![c] = "run"] /\ val' = val
        /\ todo' = [todo EXCEPT ![c] = d] /\ doubted' = doubted
    BY <1>3 DEF PWR_exitSleep
  <2> HIDE DEF d
  <2>5. ~Busy(c)
    BY <1>1, <2>4 DEF CallsTyped
  <2>6. run' \in [Procs -> {"off", "run", "asleep"}] /\ run'[c] = "run" /\ \A r \in Procs \ {c} : run'[r] = run[r]
    BY <1>1, <2>4 DEF Typed
  <2>7. Begun(c, d)
    BY <1>1, <2>3, <2>4, <2>5, <2>6 DEF Begun
  <2> QED BY <2>3, <2>4, <2>7
<1> QED BY <1>2, <1>3

LEMMA PortsAre == Ports = {"jack", "hdmi", "mute"} /\ "keymon" \notin Ports
  BY DEF Ports

LEMMA WatchBegins ==
  ASSUME Typed, CallsTyped, KeymonOf(mon), StoredOf(lib, mon), Watch
  PROVE  \E c : Begun("watch", c)
<1>1. CASE StartWatch
  <2>1. PICK garbage \in {0, 1} : todo' = [todo EXCEPT !["watch"] = FirstLook(garbage)]
    BY <1>1 DEF StartWatch
  <2>2. Fresh(FirstLook(garbage))
    BY FirstLookFresh, PortsAre DEF Typed
  <2>3. run["watch"] = "off" /\ run' = [run EXCEPT !["watch"] = "run"] /\ val' = val
    BY <1>1 DEF StartWatch
  <2>4. ~Busy("watch")
    BY <2>3, ProcsAre DEF CallsTyped
  <2>5. run' \in [Procs -> {"off", "run", "asleep"}] /\ run'["watch"] = "run"
        /\ \A r \in Procs \ {"watch"} : run'[r] = run[r]
    BY <2>3, ProcsAre DEF Typed
  <2>6. Begun("watch", FirstLook(garbage))
    BY <2>1, <2>2, <2>3, <2>4, <2>5, ProcsAre DEF Begun
  <2> QED BY <2>6
<1>2. ASSUME NEW port \in Ports, WatchPorts(port)  PROVE \E c : Begun("watch", c)
  <2> DEFINE c == SetPort(port, ports[port])
  <2>1. Fresh(c)
    <3>1. ports[port] \in {0, 1}  BY DEF Typed
    <3> QED BY <3>1, SetPortFresh
  <2>2. todo' = [todo EXCEPT !["watch"] = c] /\ val' = val /\ run' = run /\ run["watch"] = "run" /\ ~Busy("watch")
    BY <1>2 DEF WatchPorts, Running
  <2> HIDE DEF c
  <2>3. Begun("watch", c)
    BY <2>1, <2>2, ProcsAre DEF Begun, Typed
  <2> QED BY <2>3
<1> QED BY <1>1, <1>2 DEF Watch

-----------------------------------------------------------------------------
(* A call goes on.                                                           *)

LEMMA Dropped ==
  ASSUME CallsTyped, NEW p \in Procs, NEW n \in 1..Len(todo[p]), Drop(p, n)
  PROVE  /\ todo' \in [Procs -> Seq(Steps)] /\ WellFormed(todo'[p])
         /\ Len(todo[p]) \in Nat /\ Len(todo'[p]) = Len(todo[p]) - n
         /\ \A i \in 1..Len(todo'[p]) : todo'[p][i] = todo[p][i + n] /\ i + n \in 1..Len(todo[p])
         /\ \A r \in Procs \ {p} : todo'[r] = todo[r]
<1> DEFINE s == todo[p]  t == SubSeq(s, n + 1, Len(s))
<1>1. s \in Seq(Steps) /\ WellFormed(s) /\ todo \in [Procs -> Seq(Steps)]
  BY DEF CallsTyped
<1>2. n \in 0..Len(s)
  OBVIOUS
<1>3. todo' = [todo EXCEPT ![p] = t]
  BY DEF Drop
<1> HIDE DEF s
<1>4. /\ t \in Seq(Steps) /\ Len(t) = Len(s) - n /\ Len(s) \in Nat
      /\ \A i \in 1..(Len(s) - n) : t[i] = s[i + n] /\ i + n \in 1..Len(s)
  BY <1>1, <1>2, DropAt
<1>5. WellFormed(t)
  BY <1>1, <1>2, DropWellFormed
<1> HIDE DEF t
<1>6. todo' \in [Procs -> Seq(Steps)] /\ todo'[p] = t /\ \A r \in Procs \ {p} : todo'[r] = todo[r]
  BY <1>1, <1>3, <1>4
<1> QED BY <1>4, <1>5, <1>6 DEF s

(* What is left of a call begins with a write only after a read. *)
LEMMA DroppedCalls ==
  ASSUME CallsTyped, NEW p \in Procs, NEW n \in 1..Len(todo[p]), Drop(p, n), run' = run,
         val' \in [Procs -> 0..VOLUME_MAX \cup 0..BRIGHTNESS_MAX], \A r \in Procs \ {p} : val'[r] = val[r],
         run[p] = "run", todo[p][n].op = "read" /\ n + 1 \in 1..Len(todo[p]) => val'[p] \in 0..LevelMax(todo[p][n + 1].what)
  PROVE  CallsTyped'
<1>1. /\ todo' \in [Procs -> Seq(Steps)] /\ WellFormed(todo'[p])
      /\ Len(todo[p]) \in Nat /\ Len(todo'[p]) = Len(todo[p]) - n
      /\ \A i \in 1..Len(todo'[p]) : todo'[p][i] = todo[p][i + n] /\ i + n \in 1..Len(todo[p])
      /\ \A r \in Procs \ {p} : todo'[r] = todo[r]
  BY Dropped
<1>2. todo'[p] # <<>> /\ todo'[p][1].op = "write" => val'[p] \in 0..LevelMax(todo'[p][1].what)
  <2> SUFFICES ASSUME todo'[p] # <<>>, todo'[p][1].op = "write"  PROVE val'[p] \in 0..LevelMax(todo'[p][1].what)
    OBVIOUS
  <2>1. 1 \in 1..Len(todo'[p])
    BY <1>1
  <2>2. todo'[p][1] = todo[p][1 + n] /\ 1 + n \in 1..Len(todo[p])
    BY <1>1, <2>1
  <2>3. 1 + n = n + 1 /\ n + 1 # 1 /\ (n + 1) - 1 = n
    OBVIOUS
  <2>4. Ordered(todo[p], n + 1)
    BY <2>2, <2>3 DEF CallsTyped, WellFormed
  <2>5. todo[p][n].op = "read"
    BY <2>2, <2>3, <2>4 DEF Ordered
  <2> QED BY <2>2, <2>3, <2>5
<1>3. ASSUME NEW r \in Procs
      PROVE  /\ WellFormed(todo'[r])
             /\ todo'[r] # <<>> /\ todo'[r][1].op = "write" => val'[r] \in 0..LevelMax(todo'[r][1].what)
             /\ run'[r] # "run" => todo'[r] = <<>>
  <2>1. CASE r = p
    BY <1>1, <1>2, <2>1
  <2>2. CASE r # p
    BY <1>1, <2>2 DEF CallsTyped, Busy, Now
  <2> QED BY <2>1, <2>2
<1> QED BY <1>1, <1>3 DEF CallsTyped, Busy, Now

LEMMA PendingKept ==
  ASSUME CallsTyped, Pending, NEW p \in Procs, NEW n \in 1..Len(todo[p]), Drop(p, n),
         UNCHANGED <<run, file>>, \A l \in Levels : shm'[l] = shm[l], Now(p).op # "save"
  PROVE  Pending'
<1>1. \A r \in Procs \ {p} : todo'[r] = todo[r]
  BY Dropped
<1> QED BY <1>1 DEF Pending, Busy, Now

LEMMA LevelIs ==
  ASSUME shm \in Memory
  PROVE  /\ GetVolume \in 0..VOLUME_MAX /\ GetBrightness \in 0..BRIGHTNESS_MAX
         /\ Sink(shm) \in {"headphones", "speaker"}
<1>1. 0 \in 0..VOLUME_MAX
  BY LevelsAssumption
<1>2. Sink(shm) \in {"headphones", "speaker"}
  BY DEF Sink
<1>3. shm.headphones \in 0..VOLUME_MAX /\ shm.speaker \in 0..VOLUME_MAX /\ shm.brightness \in 0..BRIGHTNESS_MAX
  BY DEF Memory
<1>4. shm[Sink(shm)] \in 0..VOLUME_MAX
  BY <1>2, <1>3
<1> QED BY <1>1, <1>2, <1>3, <1>4 DEF GetVolume, GetBrightness

LEMMA WorkStep ==
  ASSUME Typed, CallsTyped, Pending, NEW p \in Procs, Work(p)
  PROVE  /\ \E n \in 1..Len(todo[p]) : Drop(p, n) /\ \A i \in 2..n : todo[p][i].op # "flag"
         /\ CallsTyped' /\ shm' \in Memory /\ file' \in Memory /\ Pending'
         /\ Busy(p) /\ \A w \in Ports : shm'[w] = IF Now(p) = FlagOf(w, Now(p).by) THEN Now(p).by ELSE shm[w]
<1> DEFINE s == todo[p]
<1>1. /\ s \in Seq(Steps) /\ WellFormed(s) /\ Len(s) \in Nat /\ shm \in Memory /\ file \in Memory
      /\ val \in [Procs -> 0..VOLUME_MAX \cup 0..BRIGHTNESS_MAX]
  BY DEF CallsTyped, Typed
<1>2. run[p] = "run" /\ s # <<>> /\ Now(p) = s[1] /\ run' = run
  BY DEF Work, ReadLevel, WriteLevel, StoreFlag, SaveSettings, Doing, Running, Busy, Now
<1>3. 1 \in 1..Len(s) /\ Ordered(s, 1) /\ s[1] \in Steps
  <2>1. 1 \in 1..Len(s)  BY <1>1, <1>2
  <2> QED BY <2>1, <1>1 DEF WellFormed
<1>4. ASSUME s[1].op # "flag", NEW w \in Ports  PROVE Now(p) # FlagOf(w, Now(p).by)
  BY <1>2, <1>4 DEF FlagOf
<1>5. CASE ReadLevel(p)
  <2>1. s[1].op = "read" /\ UNCHANGED <<shm, file>>
    BY <1>2, <1>5 DEF ReadLevel, Doing
  <2>2. /\ s[1].what \in Levelled /\ 1 + 2 <= Len(s) /\ s[1 + 1].op = "write"
        /\ s[1 + 1].what = s[1].what /\ s[1 + 2].op = "save"
    BY <1>3, <2>1 DEF Ordered
  <2>3. /\ 1 \in 1..Len(s) /\ 2 \in 1..Len(s) /\ 3 \in 1..Len(s) /\ s[2].what = s[1].what
        /\ s[2].op = "write" /\ s[3].op = "save"
    BY <1>1, <2>2
  <2> DEFINE v == s[1].by + IF s[1].what = "volume" THEN GetVolume ELSE GetBrightness
  <2>4. \/ v \in 0..LevelMax(s[1].what) /\ val' = [val EXCEPT ![p] = v] /\ Drop(p, 1)
        \/ Drop(p, 3) /\ val' = val
    BY <1>2, <1>5 DEF ReadLevel
  <2> HIDE DEF v
  <2>5. CallsTyped' /\ \E n \in 1..Len(s) : Drop(p, n) /\ \A i \in 2..n : s[i].op # "flag"
    <3>1. CASE v \in 0..LevelMax(s[1].what) /\ val' = [val EXCEPT ![p] = v] /\ Drop(p, 1)
      <4>1. v \in 0..VOLUME_MAX \cup 0..BRIGHTNESS_MAX
        BY <3>1 DEF LevelMax
      <4>2. /\ val' \in [Procs -> 0..VOLUME_MAX \cup 0..BRIGHTNESS_MAX]
            /\ val'[p] = v /\ \A r \in Procs \ {p} : val'[r] = val[r]
        BY <1>1, <3>1, <4>1
      <4>3. val'[p] \in 0..LevelMax(s[1 + 1].what)
        BY <2>2, <3>1, <4>2
      <4> HIDE DEF LevelMax
      <4>4. CallsTyped'
        BY <1>2, <1>3, <3>1, <4>2, <4>3, DroppedCalls
      <4> QED BY <1>3, <3>1, <4>4
    <3>2. CASE Drop(p, 3) /\ val' = val
      <4>1. s[3].op # "read"
        BY <2>3
      <4>2. CallsTyped'
        BY <1>1, <1>2, <2>3, <3>2, <4>1, DroppedCalls
      <4>3. \A i \in 2..3 : s[i].op # "flag"
        BY <2>3
      <4> QED BY <2>3, <3>2, <4>2, <4>3
    <3> QED BY <2>4, <3>1, <3>2
  <2>6. Pending'
    <3>1. Now(p).op # "save" /\ UNCHANGED <<run, file, shm>>  BY <1>2, <2>1
    <3> QED BY <2>5, <3>1, PendingKept
  <2> QED BY <1>1, <1>2, <1>4, <2>1, <2>5, <2>6 DEF Busy
<1>6. CASE WriteLevel(p)
  <2>1. s[1].op = "write" /\ UNCHANGED <<file, platform>> /\ val' = [val EXCEPT ![p] = 0]
    BY <1>2, <1>6 DEF WriteLevel, Doing
  <2> DEFINE level == IF s[1].what = "volume" THEN Sink(shm) ELSE "brightness"
  <2>2. \/ Drop(p, 2) /\ shm' = shm
        \/ Drop(p, 1) /\ shm' = [shm EXCEPT ![level] = val[p]]
    BY <1>2, <1>6 DEF WriteLevel
  <2>3. s[1].what \in Levelled /\ 1 + 1 <= Len(s) /\ s[1 + 1].op = "save"
    BY <1>3, <2>1 DEF Ordered
  <2>4. val[p] \in 0..LevelMax(s[1].what)
    BY <1>2, <2>1 DEF CallsTyped, Busy
  <2>5. level \in Levels /\ val[p] \in LevelOf(level)
    <3>1. CASE s[1].what = "volume"
      <4>1. level \in {"headphones", "speaker"}  BY <1>1, <3>1, LevelIs
      <4>2. val[p] \in 0..VOLUME_MAX  BY <2>4, <3>1 DEF LevelMax
      <4> HIDE DEF level
      <4> QED BY <4>1, <4>2 DEF Levels, LevelOf
    <3>2. CASE s[1].what = "brightness"
      <4>1. level = "brightness"  BY <3>2
      <4>2. val[p] \in 0..BRIGHTNESS_MAX  BY <2>4, <3>2 DEF LevelMax
      <4> HIDE DEF level
      <4> QED BY <4>1, <4>2 DEF Levels, LevelOf
    <3> QED BY <2>3, <3>1, <3>2 DEF Levelled
  <2> HIDE DEF level
  <2>6. shm' \in Memory /\ \A w \in Ports : shm'[w] = shm[w]
    <3> SUFFICES ASSUME shm' = [shm EXCEPT ![level] = val[p]]  PROVE shm' \in Memory /\ \A w \in Ports : shm'[w] = shm[w]
      BY <1>1, <2>2
    <3>1. level \in Fields /\ level \notin Ports  BY <2>5, FieldsAre
    <3>2. shm' \in Memory /\ \A g \in Fields \ {level} : shm'[g] = shm[g]
      <4> DEFINE v == val[p]
      <4>1. /\ shm \in Memory /\ level \in Fields /\ shm' = [shm EXCEPT ![level] = v]
            /\ (level \in Levels => v \in LevelOf(level)) /\ (level \in Ports => v \in {0, 1})
        BY <1>1, <2>5, <3>1
      <4> HIDE DEF v
      <4>2. [shm EXCEPT ![level] = v] \in Memory
        BY <4>1, Stored
      <4>3. \A g \in Fields \ {level} : [shm EXCEPT ![level] = v][g] = shm[g]
        BY <4>1, Stored
      <4> QED BY <4>1, <4>2, <4>3
    <3> QED BY <3>1, <3>2, FieldsAre
  <2>7. /\ 1 \in 1..Len(s) /\ 2 \in 1..Len(s) /\ s[2].op = "save" /\ s[1].op # "read" /\ s[2].op # "read"
    BY <1>1, <2>1, <2>3
  <2>8. ASSUME NEW n \in {1, 2}, Drop(p, n)  PROVE CallsTyped'
    <3>1. 0 \in 0..VOLUME_MAX  BY LevelsAssumption
    <3>2. /\ val' \in [Procs -> 0..VOLUME_MAX \cup 0..BRIGHTNESS_MAX]
          /\ \A r \in Procs \ {p} : val'[r] = val[r]
      BY <1>1, <2>1, <3>1
    <3>3. n \in 1..Len(s) /\ s[n].op # "read"
      BY <2>7
    <3> QED BY <1>2, <2>8, <3>2, <3>3, DroppedCalls
  <2>9. CASE Drop(p, 2) /\ shm' = shm
    <3>1. Now(p).op # "save" /\ UNCHANGED <<run, file, shm>>  BY <1>2, <2>1, <2>9
    <3>2. Pending'  BY <2>7, <2>9, <3>1, PendingKept
    <3>3. \A i \in 2..2 : s[i].op # "flag"  BY <2>7
    <3>4. CallsTyped'  BY <2>8, <2>9
    <3> QED BY <1>1, <1>2, <1>4, <2>1, <2>6, <2>7, <2>9, <3>2, <3>3, <3>4 DEF Busy
  <2>10. CASE Drop(p, 1)
    <3>1. /\ Len(todo'[p]) = Len(s) - 1
          /\ \A i \in 1..Len(todo'[p]) : todo'[p][i] = s[i + 1] /\ i + 1 \in 1..Len(s)
      BY <1>3, <2>10, Dropped
    <3>2. 1 \in 1..Len(todo'[p])
      BY <1>1, <2>3, <3>1
    <3>3. todo'[p] # <<>> /\ todo'[p][1] = s[1 + 1]
      BY <3>1, <3>2
    <3>4. Busy(p)' /\ Now(p)'.op = "save"
      BY <2>3, <3>3 DEF Busy, Now
    <3>5. Pending'
      BY <3>4 DEF Pending
    <3>6. CallsTyped'  BY <2>8, <2>10
    <3> QED BY <1>1, <1>2, <1>3, <1>4, <2>1, <2>6, <2>10, <3>5, <3>6 DEF Busy
  <2> QED BY <2>2, <2>9, <2>10
<1>7. CASE StoreFlag(p)
  <2> DEFINE w == s[1].what  b == s[1].by
  <2>1. s[1].op = "flag" /\ UNCHANGED <<file, val>> /\ Drop(p, 1) /\ shm' = [shm EXCEPT ![w] = b]
    BY <1>2, <1>7 DEF StoreFlag, Doing
  <2>2. w \in Ports /\ b \in {0, 1}
    BY <1>3, <2>1 DEF Ordered
  <2>3. s[1] = FlagOf(w, b)
    BY <1>3, <2>1 DEF Steps, FlagOf
  <2> HIDE DEF w, b
  <2>4. w \in Fields /\ w \notin Levels
    BY <2>2, FieldsAre
  <2>5. shm' \in Memory /\ shm'[w] = b /\ \A g \in Fields \ {w} : shm'[g] = shm[g]
    <3>1. /\ shm \in Memory /\ shm' = [shm EXCEPT ![w] = b]
          /\ (w \in Levels => b \in LevelOf(w)) /\ (w \in Ports => b \in {0, 1})
      BY <1>1, <2>1, <2>2, <2>4
    <3>2. [shm EXCEPT ![w] = b] \in Memory
      BY <2>4, <3>1, Stored
    <3>3. [shm EXCEPT ![w] = b][w] = b
      BY <2>4, <3>1, Stored
    <3>4. \A g \in Fields \ {w} : [shm EXCEPT ![w] = b][g] = shm[g]
      BY <2>4, <3>1, Stored
    <3> QED BY <3>1, <3>2, <3>3, <3>4
  <2>6. \A x \in Ports : shm'[x] = IF Now(p) = FlagOf(x, Now(p).by) THEN Now(p).by ELSE shm[x]
    <3> TAKE x \in Ports
    <3>1. Now(p) = FlagOf(w, b) /\ Now(p).by = b
      BY <1>2, <2>3 DEF FlagOf
    <3>2. FlagOf(w, b) = FlagOf(x, b) <=> x = w
      BY DEF FlagOf
    <3>3. CASE x = w
      BY <2>5, <3>1, <3>2, <3>3
    <3>4. CASE x # w
      BY <2>5, <3>1, <3>2, <3>4, FieldsAre
    <3> QED BY <3>3, <3>4
  <2>7. CallsTyped'
    <3>1. s[1].op # "read"  BY <2>1
    <3> QED BY <1>1, <1>2, <1>3, <2>1, <3>1, DroppedCalls
  <2>8. Pending'
    <3>1. Now(p).op # "save" /\ run' = run /\ file' = file  BY <1>2, <2>1
    <3>2. \A l \in Levels : shm'[l] = shm[l]  BY <2>4, <2>5, FieldsAre
    <3> QED BY <1>3, <2>1, <3>1, <3>2, PendingKept
  <2> QED BY <1>1, <1>2, <1>3, <2>1, <2>5, <2>6, <2>7, <2>8 DEF Busy
<1>8. CASE SaveSettings(p)
  <2>1. s[1].op = "save" /\ UNCHANGED <<shm, val>> /\ Drop(p, 1) /\ file' = shm
    BY <1>2, <1>8 DEF SaveSettings, Doing
  <2>2. CallsTyped'
    <3>1. s[1].op # "read"  BY <2>1
    <3> QED BY <1>1, <1>2, <1>3, <2>1, <3>1, DroppedCalls
  <2>3. Pending'
    BY <2>1 DEF Pending
  <2> QED BY <1>1, <1>2, <1>3, <1>4, <2>1, <2>2, <2>3 DEF Busy
<1> QED BY <1>5, <1>6, <1>7, <1>8 DEF Work

-----------------------------------------------------------------------------
(* The calls and the file, whatever the step.                                *)

LEMMA HostStep ==
  ASSUME Typed, CallsTyped, LibraryOf(lib), InitHost
  PROVE  CallsTyped' /\ shm' \in Memory /\ Pending'
<1>1. /\ run["keymon"] = "off" /\ run' = [run EXCEPT !["keymon"] = "run"] /\ file' = file /\ val' = val
      /\ Opens("keymon")
      /\ shm' = [f \in DOMAIN shm |-> IF f \in lib.fresh THEN 0 ELSE file[f]]
  BY DEF InitHost
<1>2. CallsTyped'
  <2>1. PICK c : Begun("keymon", c)
    BY <1>1, ProcsAre, StartBegins
  <2> QED BY <2>1, BegunCalls
<1>3. DOMAIN shm = Fields /\ file \in Memory
  <2>1. shm = [f \in Fields |-> shm[f]]  BY MemoryIs DEF Typed
  <2> QED BY <2>1 DEF Typed
<1>4. \A l \in Levels : shm'[l] = file[l] /\ file[l] \in LevelOf(l)
  BY <1>1, <1>3, FieldsAre, MemoryIs DEF LibraryOf
<1>5. \A w \in Ports : shm'[w] \in {0, 1}
  BY <1>1, <1>3, FieldsAre, MemoryIs
<1>6. shm' = [f \in Fields |-> shm'[f]]
  BY <1>1, <1>3
<1>7. shm' \in Memory
  BY <1>4, <1>5, <1>6, MemoryIs
<1>8. Pending'
  BY <1>1, <1>4 DEF Pending
<1> QED BY <1>2, <1>7, <1>8

LEMMA CallsStep ==
  ASSUME IInv, [Next]_vars
  PROVE  CallsTyped' /\ Pending'
<1>1. Typed /\ CallsTyped /\ Pending /\ LibraryOf(lib) /\ KeymonOf(mon) /\ StoredOf(lib, mon)
  <2>1. platform \in Platforms  BY DEF IInv, Typed
  <2> QED BY <2>1, DeviceTable DEF IInv
<1>2. CASE InitHost
  BY <1>1, <1>2, HostStep
<1>3. CASE Watch
  <2>1. PICK c : Begun("watch", c)
    BY <1>1, <1>3, WatchBegins
  <2>2. UNCHANGED <<shm, file>> /\ run'["keymon"] = run["keymon"]
    <3>1. UNCHANGED <<shm, file>>  BY <1>3 DEF Watch, StartWatch, WatchPorts
    <3> QED BY <2>1, <3>1, ProcsAre DEF Begun
  <2> QED BY <1>1, <2>1, <2>2, BegunCalls, BegunPending
<1>4. CASE Loop
  <2>1. PICK c : Begun("keymon", c)
    BY <1>1, <1>4, LoopBegins
  <2>2. UNCHANGED <<shm, file, run>>
    BY <1>1, <1>4, LoopBegins
  <2> QED BY <1>1, <2>1, <2>2, BegunCalls, BegunPending
<1>5. CASE World
  <2>1. UNCHANGED <<todo, val, run, shm, file>>
    BY <1>5 DEF World, Key, Plug
  <2> QED BY <1>1, <2>1, Untouched
<1>6. ASSUME NEW p \in Procs, Work(p)  PROVE CallsTyped' /\ Pending'
  BY <1>1, <1>6, WorkStep
<1>7. ASSUME NEW c \in Clients, Program(c)  PROVE CallsTyped' /\ Pending'
  <2>1. CASE InitClient(c) \/ PWR_exitSleep(c)
    <3>1. PICK d : Begun(c, d)
      BY <1>1, <2>1, ProgramBegins
    <3>2. UNCHANGED <<shm, file>>
      BY <2>1 DEF InitClient, PWR_exitSleep
    <3>3. run'["keymon"] = run["keymon"]
      BY <3>1, ProcsAre, ClientsAssumption DEF Begun
    <3> QED BY <1>1, <3>1, <3>2, <3>3, BegunCalls, BegunPending
  <2>2. CASE PWR_enterSleep(c)
    <3>1. ~Busy(c) /\ run' = [run EXCEPT ![c] = "asleep"] /\ UNCHANGED <<todo, val, shm, file>>
      BY <2>2 DEF PWR_enterSleep
    <3>2. \A r \in Procs : run'[r] # "run" => run[r] # "run" \/ r = c
      BY <1>1, <3>1 DEF Typed
    <3>3. CallsTyped'
      BY <1>1, <3>1, <3>2 DEF CallsTyped, Busy, Now, LevelMax
    <3>4. run'["keymon"] = run["keymon"]
      BY <1>1, <3>1, ProcsAre, ClientsAssumption DEF Typed
    <3>5. Pending'
      BY <1>1, <3>1, <3>4 DEF Pending, Busy, Now
    <3> QED BY <3>3, <3>5
  <2> QED BY <1>7, <2>1, <2>2 DEF Program
<1>8. CASE UNCHANGED vars
  <2>1. UNCHANGED <<todo, val, run, shm, file>>
    BY <1>8 DEF vars
  <2> QED BY <1>1, <2>1, Untouched
<1> QED BY <1>2, <1>3, <1>4, <1>5, <1>6, <1>7, <1>8 DEF Next

-----------------------------------------------------------------------------
(* The queue of keymon.                                                      *)

LEMMA TailAt ==
  ASSUME NEW S, NEW s \in Seq(S), s # <<>>
  PROVE  /\ Tail(s) \in Seq(S) /\ Len(s) \in Nat \ {0} /\ Len(Tail(s)) = Len(s) - 1 /\ s[1] \in S
         /\ \A i \in 1..Len(Tail(s)) : Tail(s)[i] = s[i + 1] /\ i + 1 \in 1..Len(s)
  OBVIOUS

LEMMA AppendAt ==
  ASSUME NEW S, NEW s \in Seq(S), NEW e \in S
  PROVE  /\ Append(s, e) \in Seq(S) /\ Len(s) \in Nat /\ Len(Append(s, e)) = Len(s) + 1
         /\ \A i \in 1..Len(s) : Append(s, e)[i] = s[i]
         /\ Append(s, e)[Len(s) + 1] = e
  OBVIOUS

(* Taking the first event away: what it answers is answered, or was it. *)
LEMMA TailAnswered ==
  ASSUME NEW S, NEW s \in Seq(S), s # <<>>, NEW h, Answered(h, s)
  PROVE  /\ Answered(h, Tail(s))
         /\ \A k \in Keys : Ended(h, s, k) => Ended(h, Tail(s), k) \/ s[1] = Released(k)
         /\ s[1].key \in Keys /\ s[1].value # 0 => Ended(h, Tail(s), s[1].key)
<1> DEFINE t == Tail(s)
<1>1. /\ Len(s) \in Nat \ {0} /\ Len(t) = Len(s) - 1
      /\ \A i \in 1..Len(t) : t[i] = s[i + 1] /\ i + 1 \in 1..Len(s)
  BY TailAt
<1> HIDE DEF t
<1>2. ASSUME NEW j \in 2..Len(s)  PROVE j - 1 \in 1..Len(t) /\ t[j - 1] = s[j]
  <2>1. j - 1 \in 1..Len(t) /\ (j - 1) + 1 = j  BY <1>1
  <2> QED BY <1>1, <2>1
<1>3. ASSUME NEW i \in 1..Len(t), t[i].key \in Keys, t[i].value # 0
      PROVE  t[i].key \in h \/ \E j \in (i + 1)..Len(t) : t[j] = Released(t[i].key)
  <2>1. i + 1 \in 1..Len(s) /\ t[i] = s[i + 1]  BY <1>1
  <2>2. s[i + 1].key \in h \/ \E j \in ((i + 1) + 1)..Len(s) : s[j] = Released(s[i + 1].key)
    BY <1>3, <2>1 DEF Answered
  <2>3. ASSUME NEW j \in ((i + 1) + 1)..Len(s), s[j] = Released(s[i + 1].key)
        PROVE  \E m \in (i + 1)..Len(t) : t[m] = Released(t[i].key)
    <3>1. j \in 2..Len(s) /\ j - 1 >= i + 1  BY <1>1
    <3>2. j - 1 \in 1..Len(t) /\ t[j - 1] = s[j]  BY <1>2, <3>1
    <3>3. j - 1 \in (i + 1)..Len(t)  BY <1>1, <3>1, <3>2
    <3> QED BY <2>1, <2>3, <3>2, <3>3
  <2> QED BY <2>1, <2>2, <2>3
<1>4. ASSUME NEW k \in Keys, Ended(h, s, k)  PROVE Ended(h, t, k) \/ s[1] = Released(k)
  <2>1. ASSUME NEW i \in 1..Len(s), s[i] = Released(k), i # 1  PROVE Ended(h, t, k)
    <3>1. i \in 2..Len(s)  BY <1>1, <2>1
    <3> QED BY <1>2, <2>1, <3>1 DEF Ended
  <2> QED BY <1>4, <2>1 DEF Ended
<1>5. ASSUME s[1].key \in Keys, s[1].value # 0  PROVE Ended(h, t, s[1].key)
  <2>1. 1 \in 1..Len(s) /\ 1 + 1 = 2  BY <1>1
  <2>2. s[1].key \in h \/ \E j \in 2..Len(s) : s[j] = Released(s[1].key)
    BY <1>5, <2>1 DEF Answered
  <2> QED BY <1>2, <2>2 DEF Ended
<1>6. Answered(h, t)
  BY <1>3 DEF Answered
<1> QED BY <1>4, <1>5, <1>6 DEF t

(* One event more: a key that is let go of is released by it. *)
LEMMA AppendAnswered ==
  ASSUME NEW S, NEW s \in Seq(S), NEW e \in S, NEW h, NEW g, Answered(h, s),
         \A k \in Keys : k \in h => k \in g \/ e = Released(k),
         e.key \in Keys /\ e.value # 0 => e.key \in g
  PROVE  /\ Answered(g, Append(s, e))
         /\ \A k \in Keys : Ended(h, s, k) => Ended(g, Append(s, e), k)
<1> DEFINE t == Append(s, e)
<1>1. /\ Len(s) \in Nat /\ Len(t) = Len(s) + 1 /\ t[Len(s) + 1] = e
      /\ \A i \in 1..Len(s) : t[i] = s[i]
  BY AppendAt
<1> HIDE DEF t
<1>2. Len(s) + 1 \in 1..Len(t)
  BY <1>1
<1>3. ASSUME NEW i \in 1..Len(t), t[i].key \in Keys, t[i].value # 0
      PROVE  t[i].key \in g \/ \E j \in (i + 1)..Len(t) : t[j] = Released(t[i].key)
  <2>1. CASE i \in 1..Len(s)
    <3>1. t[i] = s[i] /\ Len(s) + 1 \in (i + 1)..Len(t)  BY <1>1, <2>1
    <3>2. s[i].key \in h \/ \E j \in (i + 1)..Len(s) : s[j] = Released(s[i].key)
      BY <1>3, <2>1, <3>1 DEF Answered
    <3>3. CASE s[i].key \in h
      <4>1. t[i].key \in g \/ e = Released(t[i].key)  BY <1>3, <3>1, <3>3
      <4> QED BY <1>1, <3>1, <4>1
    <3>4. ASSUME NEW j \in (i + 1)..Len(s), s[j] = Released(s[i].key)
          PROVE  \E m \in (i + 1)..Len(t) : t[m] = Released(t[i].key)
      <4>1. j \in 1..Len(s) /\ j \in (i + 1)..Len(t)  BY <1>1, <2>1
      <4> QED BY <1>1, <3>1, <3>4, <4>1
    <3> QED BY <3>1, <3>2, <3>3, <3>4
  <2>2. CASE i \notin 1..Len(s)
    <3>1. i = Len(s) + 1  BY <1>1, <2>2
    <3>2. t[i] = e  BY <1>1, <3>1
    <3> QED BY <1>3, <3>2
  <2> QED BY <2>1, <2>2
<1>4. ASSUME NEW k \in Keys, Ended(h, s, k)  PROVE Ended(g, t, k)
  <2>1. CASE k \in h
    <3>1. k \in g \/ e = Released(k)  BY <2>1
    <3> QED BY <1>1, <1>2, <3>1 DEF Ended
  <2>2. ASSUME NEW i \in 1..Len(s), s[i] = Released(k)  PROVE Ended(g, t, k)
    <3>1. i \in 1..Len(t) /\ t[i] = Released(k)  BY <1>1, <2>2
    <3> QED BY <3>1 DEF Ended
  <2> QED BY <1>4, <2>1, <2>2 DEF Ended
<1>5. Answered(g, t)
  BY <1>3 DEF Answered
<1> QED BY <1>4, <1>5 DEF t

LEMMA RunawayIs ==
  NoRunaway <=> (kpc # "read" \/ ~ignore => \A k \in Keys : pressed[k] # 0 => Ended(held, q, k))
  BY DEF NoRunaway, Ended, Released

(* What a step reads off the queue. *)
LEMMA ReadOff ==
  ASSUME Typed, Waiting, NoRunaway, q # <<>>, q' = Tail(q), held' = held,
         kpc # "read" \/ ~ignore,
         \/ q[1].key \in Keys /\ pressed' = [pressed EXCEPT ![q[1].key] = q[1].value]
         \/ pressed' = pressed /\ (q[1].key \in Keys => q[1].value # 0)
  PROVE  \A k \in Keys : pressed'[k] # 0 => Ended(held', q', k)
<1>1. q \in Seq(KeyEvents) /\ Answered(held, q) /\ pressed \in [Keys -> 0..2]
  BY DEF Typed, Waiting
<1>2. /\ \A k \in Keys : Ended(held, q, k) => Ended(held, Tail(q), k) \/ q[1] = Released(k)
      /\ q[1].key \in Keys /\ q[1].value # 0 => Ended(held, Tail(q), q[1].key)
  BY <1>1, TailAnswered
<1>3. \A k \in Keys : pressed[k] # 0 => Ended(held, q, k)
  BY RunawayIs
<1>4. ASSUME NEW k \in Keys, pressed'[k] # 0  PROVE Ended(held, Tail(q), k)
  <2>1. CASE k = q[1].key
    <3>1. CASE q[1].value # 0
      BY <1>2, <2>1, <3>1
    <3>2. CASE q[1].value = 0
      BY <1>1, <1>4, <2>1, <3>2
    <3> QED BY <3>1, <3>2
  <2>2. CASE k # q[1].key
    <3>1. pressed[k] # 0
      BY <1>1, <1>4, <2>2
    <3>2. q[1] # Released(k)
      BY <2>2 DEF Released
    <3> QED BY <1>2, <1>3, <3>1, <3>2
  <2> QED BY <2>1, <2>2
<1> QED BY <1>4 DEF Ended

LEMMA SameKeys ==
  ASSUME Waiting, NoRunaway, UNCHANGED <<platform, q, held, pressed, kpc, ignore>>
  PROVE  Waiting' /\ NoRunaway'
<1>1. Waiting'
  BY DeviceSame DEF Waiting, Answered
<1>2. NoRunaway'
  BY DEF NoRunaway
<1> QED BY <1>1, <1>2

LEMMA WaitingStep ==
  ASSUME IInv, [Next]_vars
  PROVE  Waiting' /\ NoRunaway'
<1>1. /\ Typed /\ Waiting /\ NoRunaway /\ KeymonOf(mon)
      /\ q \in Seq(KeyEvents) /\ Answered(held, q) /\ (mon.events => ~ignore /\ kpc \in {"read", "off"})
      /\ (kpc # "read" \/ ~ignore => \A k \in Keys : pressed[k] # 0 => Ended(held, q, k))
  <2>1. platform \in Platforms  BY DEF IInv, Typed
  <2> QED BY <2>1, DeviceTable, RunawayIs DEF IInv, Typed, Waiting
<1>2. SUFFICES ASSUME ~UNCHANGED <<platform, q, held, pressed, kpc, ignore>>  PROVE Waiting' /\ NoRunaway'
  BY <1>1, SameKeys
<1>3. Loop \/ World
  <2>1. ASSUME NEW p \in Procs, Work(p)  PROVE UNCHANGED <<platform, q, held, pressed, kpc, ignore>>
    BY <2>1 DEF Work, ReadLevel, WriteLevel, StoreFlag, SaveSettings, kvars, world
  <2>2. ASSUME NEW c \in Clients, Program(c)  PROVE UNCHANGED <<platform, q, held, pressed, kpc, ignore>>
    BY <2>2 DEF Program, InitClient, PWR_enterSleep, PWR_exitSleep, kvars, world
  <2>3. InitHost \/ Watch \/ UNCHANGED vars => UNCHANGED <<platform, q, held, pressed, kpc, ignore>>
    BY DEF InitHost, Watch, StartWatch, WatchPorts, vars, kvars, world
  <2> QED BY <1>2, <2>1, <2>2, <2>3 DEF Next
<1>4. ASSUME platform' = platform, Answered(held', q'), mon.events => ~ignore' /\ kpc' \in {"read", "off"},
             kpc' # "read" \/ ~ignore' => \A k \in Keys : pressed'[k] # 0 => Ended(held', q', k)
      PROVE  Waiting' /\ NoRunaway'
  BY <1>4, DeviceSame DEF Waiting, Answered, NoRunaway, Ended, Released
<1>5. CASE LoopTop
  <2>1. kpc = "top" /\ UNCHANGED <<platform, q, held, pressed>>
    BY <1>5 DEF LoopTop, AtKeys, world
  <2> QED BY <1>1, <1>4, <2>1
<1>6. CASE ReadEvent
  <2>1. /\ kpc = "read" /\ ~mon.events /\ q # <<>> /\ q' = Tail(q)
        /\ UNCHANGED <<platform, kpc, ignore, held>>
    BY <1>6 DEF ReadEvent, AtKeys
  <2>2. Answered(held', q')
    BY <1>1, <2>1, TailAnswered
  <2>3. ~ignore => \/ q[1].key \in Keys /\ pressed' = [pressed EXCEPT ![q[1].key] = q[1].value]
                   \/ pressed' = pressed /\ (q[1].key \in Keys => q[1].value # 0)
    <3>1. q[1] \in KeyEvents  BY <1>1, <2>1, TailAt
    <3>2. q[1].key \in Keys \/ q[1].key \in Ports
      BY <1>1, <3>1 DEF KeyEvents, KeymonOf
    <3>3. q[1].key \in Ports => q[1].key \notin Keys
      BY KeysAreNoPorts
    <3> QED BY <1>6, <3>2, <3>3 DEF ReadEvent
  <2>4. ~ignore => \A k \in Keys : pressed'[k] # 0 => Ended(held', q', k)
    BY <1>1, <2>1, <2>3, ReadOff
  <2> QED BY <1>4, <2>1, <2>2, <2>4
<1>7. CASE ReadDone
  <2>1. /\ kpc = "read" /\ ~mon.events /\ UNCHANGED <<platform, ignore, q, held>>
        /\ IF ignore THEN pressed' = [k \in Keys |-> 0] ELSE pressed' = pressed
    BY <1>7 DEF ReadDone, AtKeys, world
  <2>2. \A k \in Keys : pressed'[k] # 0 => Ended(held', q', k)
    BY <1>1, <2>1
  <2> QED BY <1>1, <1>4, <2>1, <2>2
<1>8. ASSUME NEW key, NEW by, NEW from \in {"up", "down"}, NEW to, Handle(key, by, from, to)
      PROVE  Waiting' /\ NoRunaway'
  <2>1. kpc # "read" /\ ~mon.events /\ UNCHANGED <<platform, ignore, q, held, pressed>>
    BY <1>8 DEF Handle, AtKeys, world
  <2> QED BY <1>1, <1>4, <2>1
<1>9. CASE Up
  BY <1>8, <1>9 DEF Up
<1>10. CASE Down
  BY <1>8, <1>10 DEF Down
<1>11. CASE Event
  <2>1. /\ kpc = "read" /\ mon.events /\ q # <<>> /\ q' = Tail(q) /\ kpc' \in {"read", "off"}
        /\ UNCHANGED <<platform, ignore, held>>
        /\ pressed' = IF q[1].value = 2 THEN pressed ELSE [pressed EXCEPT ![q[1].key] = q[1].value]
    BY <1>11 DEF Event, AtKeys
  <2>2. Answered(held', q')
    BY <1>1, <2>1, TailAnswered
  <2>3. q[1].key \in Keys
    <3>1. q[1] \in KeyEvents  BY <1>1, <2>1, TailAt
    <3> QED BY <1>1, <2>1, <3>1 DEF KeyEvents, KeymonOf
  <2>4. \A k \in Keys : pressed'[k] # 0 => Ended(held', q', k)
    BY <1>1, <2>1, <2>3, ReadOff
  <2> QED BY <1>1, <1>4, <2>1, <2>2, <2>4
<1>12. ASSUME NEW e \in KeyEvents, q' = Append(q, e), UNCHANGED <<platform, pressed, kpc, ignore>>,
              \A k \in Keys : k \in held => k \in held' \/ e = Released(k),
              e.key \in Keys /\ e.value # 0 => e.key \in held'
       PROVE  Waiting' /\ NoRunaway'
  <2>1. Answered(held', q') /\ \A k \in Keys : Ended(held, q, k) => Ended(held', q', k)
    BY <1>1, <1>12, AppendAnswered
  <2> QED BY <1>1, <1>4, <1>12, <2>1
<1>13. ASSUME NEW k \in Keys, Key(k)  PROVE Waiting' /\ NoRunaway'
  <2>1. UNCHANGED <<platform, pressed, kpc, ignore>>
    BY <1>13 DEF Key, kvars
  <2>2. ASSUME NEW v \in 0..2  PROVE [key |-> k, value |-> v] \in KeyEvents
    BY DEF KeyEvents
  <2>3. CASE held' = held \cup {k} /\ Input(k, 1)
    <3> DEFINE e == [key |-> k, value |-> 1]
    <3>1. e \in KeyEvents /\ q' = Append(q, e) /\ e.key = k  BY <2>2, <2>3 DEF Input
    <3> QED BY <1>12, <2>1, <2>3, <3>1
  <2>4. CASE held' = held \ {k} /\ Input(k, 0)
    <3> DEFINE e == [key |-> k, value |-> 0]
    <3>1. e \in KeyEvents /\ q' = Append(q, e) /\ e.value = 0 /\ e = Released(k)
      BY <2>2, <2>4 DEF Input, Released
    <3>2. \A x \in Keys : x \in held => x \in held' \/ e = Released(x)
      BY <2>4, <3>1
    <3> HIDE DEF e
    <3> QED BY <1>12, <2>1, <3>1, <3>2
  <2>5. CASE k \in held /\ held' = held /\ Input(k, 2)
    <3> DEFINE e == [key |-> k, value |-> 2]
    <3>1. e \in KeyEvents /\ q' = Append(q, e) /\ e.key = k  BY <2>2, <2>5 DEF Input
    <3> QED BY <1>12, <2>1, <2>5, <3>1
  <2> QED BY <1>13, <2>3, <2>4, <2>5 DEF Key
<1>14. ASSUME NEW port \in Ports, Plug(port)  PROVE Waiting' /\ NoRunaway'
  <2>1. UNCHANGED <<platform, pressed, kpc, ignore, held>>
    BY <1>14 DEF Plug, kvars
  <2>2. CASE q' = q
    BY <1>2, <2>1, <2>2
  <2>3. CASE port \in mon.switches /\ Input(port, 1 - ports[port])
    <3> DEFINE v == 1 - ports[port]  e == [key |-> port, value |-> v]
    <3>1. v \in 0..2
      <4>1. ports[port] \in {0, 1}  BY <1>1 DEF Typed
      <4> QED BY <4>1
    <3>2. q' = Append(q, e)
      BY <2>3 DEF Input
    <3> HIDE DEF v
    <3>3. e \in KeyEvents /\ e.key \notin Keys
      BY <2>3, <3>1, KeysAreNoPorts DEF KeyEvents
    <3> HIDE DEF e
    <3> QED BY <1>12, <2>1, <3>2, <3>3
  <2> QED BY <1>14, <2>2, <2>3 DEF Plug
<1> QED BY <1>3, <1>5, <1>6, <1>7, <1>9, <1>10, <1>11, <1>13, <1>14 DEF Loop, World

-----------------------------------------------------------------------------
(* The types, whatever the step.                                             *)

KeysTyped ==
  /\ pressed \in [Keys -> 0..2] /\ just \in [Keys -> 0..2] /\ lr \in {0, 1}
  /\ kpc \in {"top", "read", "up", "down", "off"} /\ ignore \in BOOLEAN /\ slept \in BOOLEAN
QueueTyped ==
  /\ held \subseteq Keys /\ ports \in [Ports -> {0, 1}]
  /\ q \in Seq(KeyEvents) /\ \A i \in 1..Len(q) : q[i].key \in Ports => q[i].value \in {0, 1}

LEMMA StepSame == [Next]_vars => platform' = platform
<1>1. ASSUME NEW p \in Procs, Work(p)  PROVE platform' = platform
  BY <1>1 DEF Work, ReadLevel, WriteLevel, StoreFlag, SaveSettings
<1>2. ASSUME NEW c \in Clients, Program(c)  PROVE platform' = platform
  BY <1>2 DEF Program, InitClient, PWR_enterSleep, PWR_exitSleep
<1>3. Loop => platform' = platform
  BY DEF Loop, LoopTop, ReadEvent, ReadDone, Up, Down, Handle, Event
<1>4. Watch \/ InitHost \/ World \/ UNCHANGED vars => platform' = platform
  BY DEF Watch, StartWatch, WatchPorts, InitHost, World, Key, Plug, vars
<1> QED BY <1>1, <1>2, <1>3, <1>4 DEF Next

LEMMA KeysStep ==
  ASSUME Typed, KeymonOf(mon), [Next]_vars
  PROVE  KeysTyped'
<1>1. KeysTyped
  BY DEF Typed, KeysTyped
<1>2. SUFFICES ASSUME ~UNCHANGED kvars  PROVE KeysTyped'
  BY <1>1 DEF KeysTyped, kvars
<1>3. Loop \/ \E c \in Clients : PWR_exitSleep(c)
  <2>1. ASSUME NEW p \in Procs, Work(p)  PROVE UNCHANGED kvars
    BY <2>1 DEF Work, ReadLevel, WriteLevel, StoreFlag, SaveSettings
  <2>2. ASSUME NEW c \in Clients, InitClient(c) \/ PWR_enterSleep(c)  PROVE UNCHANGED kvars
    BY <2>2 DEF InitClient, PWR_enterSleep
  <2>3. InitHost \/ Watch \/ World \/ UNCHANGED vars => UNCHANGED kvars
    BY DEF InitHost, Watch, StartWatch, WatchPorts, World, Key, Plug, vars
  <2> QED BY <1>2, <2>1, <2>2, <2>3 DEF Next, Program
<1>4. ASSUME NEW c \in Clients, PWR_exitSleep(c)  PROVE KeysTyped'
  <2>1. slept' \in BOOLEAN
    <3>1. PICK long \in BOOLEAN : slept' = (slept \/ long)  BY <1>4 DEF PWR_exitSleep
    <3> QED BY <3>1
  <2> QED BY <1>1, <1>4, <2>1 DEF PWR_exitSleep, KeysTyped
<1>5. CASE LoopTop
  <2>1. ignore' \in BOOLEAN /\ slept' \in BOOLEAN
    BY <1>5 DEF LoopTop
  <2> QED BY <1>1, <1>5, <2>1 DEF LoopTop, KeysTyped
<1>6. ASSUME NEW e, q # <<>>, e = q[1]  PROVE e \in KeyEvents /\ e.value \in 0..2
  <2>1. e \in KeyEvents  BY <1>6, TailAt DEF Typed
  <2> QED BY <2>1 DEF KeyEvents
<1>7. CASE ReadEvent
  <2>1. q[1].value \in 0..2
    BY <1>6, <1>7 DEF ReadEvent
  <2>2. /\ pressed' = pressed \/ pressed' = [pressed EXCEPT ![q[1].key] = q[1].value]
        /\ just' = just \/ just' = [just EXCEPT ![q[1].key] = q[1].value]
        /\ UNCHANGED <<lr, kpc, ignore, slept>>
    BY <1>7 DEF ReadEvent
  <2> DEFINE v == q[1].value
  <2>3. pressed' \in [Keys -> 0..2] /\ just' \in [Keys -> 0..2]
    <3> HIDE DEF v
    <3>1. v \in 0..2  BY <2>1 DEF v
    <3>2. pressed' = pressed \/ pressed' = [pressed EXCEPT ![q[1].key] = v]  BY <2>2 DEF v
    <3>3. just' = just \/ just' = [just EXCEPT ![q[1].key] = v]  BY <2>2 DEF v
    <3> QED BY <1>1, <3>1, <3>2, <3>3 DEF KeysTyped
  <2> QED BY <1>1, <2>2, <2>3 DEF KeysTyped
<1>8. CASE ReadDone
  <2>1. /\ pressed' = [k \in Keys |-> 0] \/ pressed' = pressed
        /\ just' = [k \in Keys |-> 0] \/ just' = just
        /\ kpc' \in {"top", "up"} /\ UNCHANGED <<lr, ignore, slept>>
    BY <1>8 DEF ReadDone
  <2>2. pressed' \in [Keys -> 0..2] /\ just' \in [Keys -> 0..2]
    <3>1. [k \in Keys |-> 0] \in [Keys -> 0..2]  OBVIOUS
    <3> QED BY <1>1, <2>1, <3>1 DEF KeysTyped
  <2> QED BY <1>1, <2>1, <2>2 DEF KeysTyped
<1>9. ASSUME NEW key, NEW by, NEW from, NEW to \in {"down", "top"}, Handle(key, by, from, to)  PROVE KeysTyped'
  <2>1. /\ just' = just \/ just' = [just EXCEPT ![key] = 0]
        /\ kpc' = to /\ UNCHANGED <<pressed, lr, ignore, slept>>
    BY <1>9 DEF Handle
  <2>2. just' \in [Keys -> 0..2]
    BY <1>1, <2>1 DEF KeysTyped
  <2> QED BY <1>1, <2>1, <2>2 DEF KeysTyped
<1>10. CASE Up
  BY <1>9, <1>10 DEF Up
<1>11. CASE Down
  BY <1>9, <1>11 DEF Down
<1>12. CASE Event
  <2>1. q[1].value \in 0..2
    BY <1>6, <1>12 DEF Event
  <2>2. /\ pressed' = pressed \/ pressed' = [pressed EXCEPT ![q[1].key] = q[1].value]
        /\ lr' = 1 - lr \/ lr' = 0 \/ lr' = lr
        /\ kpc' \in {"off", "read"} /\ UNCHANGED <<just, ignore, slept>>
    BY <1>12 DEF Event
  <2>3. pressed' \in [Keys -> 0..2]
    <3> DEFINE v == q[1].value
    <3> HIDE DEF v
    <3>1. v \in 0..2  BY <2>1 DEF v
    <3>2. pressed' = pressed \/ pressed' = [pressed EXCEPT ![q[1].key] = v]  BY <2>2 DEF v
    <3> QED BY <1>1, <3>1, <3>2 DEF KeysTyped
  <2>4. lr' \in {0, 1}
    BY <1>1, <2>2 DEF KeysTyped
  <2> QED BY <1>1, <2>2, <2>3, <2>4 DEF KeysTyped
<1> QED BY <1>3, <1>4, <1>5, <1>7, <1>8, <1>10, <1>11, <1>12 DEF Loop

LEMMA QueueStep ==
  ASSUME Typed, KeymonOf(mon), [Next]_vars
  PROVE  QueueTyped'
<1>1. /\ QueueTyped /\ platform' = platform /\ KeyEvents' = KeyEvents
      /\ q \in Seq(KeyEvents) /\ held \subseteq Keys /\ ports \in [Ports -> {0, 1}]
      /\ \A i \in 1..Len(q) : q[i].key \in Ports => q[i].value \in {0, 1}
  BY StepSame, DeviceSame DEF Typed, QueueTyped, KeyEvents
<1>2. CASE UNCHANGED <<q, held, ports>>
  BY <1>1, <1>2 DEF QueueTyped
<1>3. ASSUME q # <<>>, q' = Tail(q), UNCHANGED <<held, ports>>  PROVE QueueTyped'
  <2>1. q' \in Seq(KeyEvents) /\ \A i \in 1..Len(q') : q'[i] = q[i + 1] /\ i + 1 \in 1..Len(q)
    BY <1>1, <1>3, TailAt
  <2>2. \A i \in 1..Len(q') : q'[i].key \in Ports => q'[i].value \in {0, 1}
    BY <1>1, <2>1
  <2> QED BY <1>1, <1>3, <2>1, <2>2 DEF QueueTyped
<1>4. ASSUME NEW e \in KeyEvents, q' = Append(q, e), e.key \in Ports => e.value \in {0, 1},
             held' \subseteq Keys, ports' \in [Ports -> {0, 1}]
      PROVE  QueueTyped'
  <2>1. /\ q' \in Seq(KeyEvents) /\ Len(q) \in Nat /\ Len(q') = Len(q) + 1
        /\ \A i \in 1..Len(q) : q'[i] = q[i]
        /\ q'[Len(q) + 1] = e
    BY <1>1, <1>4, AppendAt
  <2>2. ASSUME NEW i \in 1..Len(q')  PROVE q'[i].key \in Ports => q'[i].value \in {0, 1}
    <3>1. i \in 1..Len(q) \/ i = Len(q) + 1  BY <2>1
    <3> QED BY <1>1, <1>4, <2>1, <3>1
  <2> QED BY <1>1, <1>4, <2>1, <2>2 DEF QueueTyped
<1>5. ASSUME NEW k \in Keys, Key(k)  PROVE QueueTyped'
  <2>1. PICK v \in 0..2 : q' = Append(q, [key |-> k, value |-> v])
    <3>1. Input(k, 1) \/ Input(k, 0) \/ Input(k, 2)  BY <1>5 DEF Key
    <3>2. 0 \in 0..2 /\ 1 \in 0..2 /\ 2 \in 0..2  OBVIOUS
    <3> QED BY <3>1, <3>2 DEF Input
  <2>2. held' \subseteq Keys /\ ports' \in [Ports -> {0, 1}]
    BY <1>1, <1>5 DEF Key
  <2> DEFINE e == [key |-> k, value |-> v]
  <2>3. e \in KeyEvents /\ e.key \notin Ports
    BY KeysAreNoPorts DEF KeyEvents
  <2> HIDE DEF e
  <2> QED BY <1>4, <2>1, <2>2, <2>3 DEF e
<1>6. ASSUME NEW port \in Ports, Plug(port)  PROVE QueueTyped'
  <2> DEFINE v == 1 - ports[port]
  <2>1. v \in {0, 1} /\ v \in 0..2
    <3>1. ports[port] \in {0, 1}  BY <1>1
    <3> QED BY <3>1
  <2>2. ports' = [ports EXCEPT ![port] = v] /\ held' = held
    BY <1>6 DEF Plug
  <2>3. q' = q \/ (port \in mon.switches /\ q' = Append(q, [key |-> port, value |-> v]))
    BY <1>6 DEF Plug, Input
  <2> HIDE DEF v
  <2>4. ports' \in [Ports -> {0, 1}]
    BY <1>1, <2>1, <2>2
  <2>5. CASE q' = q
    BY <1>1, <2>2, <2>4, <2>5 DEF QueueTyped
  <2>6. CASE port \in mon.switches /\ q' = Append(q, [key |-> port, value |-> v])
    <3> DEFINE e == [key |-> port, value |-> v]
    <3>1. e \in KeyEvents /\ e.value \in {0, 1}
      BY <2>1, <2>6 DEF KeyEvents
    <3>2. q' = Append(q, e) /\ held' \subseteq Keys
      BY <1>1, <2>2, <2>6
    <3> HIDE DEF e
    <3> QED BY <1>4, <2>4, <3>1, <3>2
  <2> QED BY <2>3, <2>5, <2>6
<1>7. CASE Loop
  <2>1. ReadEvent \/ Event => q # <<>> /\ q' = Tail(q) /\ UNCHANGED <<held, ports>>
    BY DEF ReadEvent, Event
  <2>2. LoopTop \/ ReadDone \/ Up \/ Down => UNCHANGED <<q, held, ports>>
    BY DEF LoopTop, ReadDone, Up, Down, Handle, world
  <2> QED BY <1>2, <1>3, <1>7, <2>1, <2>2 DEF Loop
<1>8. ASSUME NEW p \in Procs, Work(p)  PROVE UNCHANGED <<q, held, ports>>
  BY <1>8 DEF Work, ReadLevel, WriteLevel, StoreFlag, SaveSettings, world
<1>9. ASSUME NEW c \in Clients, Program(c)  PROVE UNCHANGED <<q, held, ports>>
  BY <1>9 DEF Program, InitClient, PWR_enterSleep, PWR_exitSleep, world
<1>10. InitHost \/ Watch \/ UNCHANGED vars => UNCHANGED <<q, held, ports>>
  BY DEF InitHost, Watch, StartWatch, WatchPorts, vars, world
<1> QED BY <1>2, <1>5, <1>6, <1>7, <1>8, <1>9, <1>10 DEF Next, World

LEMMA RestStep ==
  ASSUME Typed, CallsTyped, Pending, LibraryOf(lib), KeymonOf(mon), StoredOf(lib, mon), [Next]_vars
  PROVE  /\ shm' \in Memory /\ file' \in Memory
         /\ run' \in [Procs -> {"off", "run", "asleep"}] /\ had' \in [Ports -> {0, 1}]
<1>1. /\ shm \in Memory /\ file \in Memory /\ ports \in [Ports -> {0, 1}]
      /\ run \in [Procs -> {"off", "run", "asleep"}] /\ had \in [Ports -> {0, 1}]
  BY DEF Typed
<1>2. CASE InitHost
  <2>1. shm' \in Memory  BY <1>2, HostStep
  <2> QED BY <1>1, <1>2, <2>1 DEF InitHost
<1>3. CASE Watch
  <2>1. UNCHANGED <<shm, file>>
    BY <1>3 DEF Watch, StartWatch, WatchPorts
  <2>2. run' \in [Procs -> {"off", "run", "asleep"}]
    BY <1>3, WatchBegins DEF Begun
  <2>3. had' \in [Ports -> {0, 1}]
    BY <1>1, <1>3 DEF Watch, StartWatch, WatchPorts
  <2> QED BY <1>1, <2>1, <2>2, <2>3
<1>4. CASE Loop
  BY <1>1, <1>4, LoopBegins
<1>5. ASSUME NEW p \in Procs, Work(p)
      PROVE  shm' \in Memory /\ file' \in Memory /\ UNCHANGED <<run, had>>
  <2>1. UNCHANGED <<run, had>>
    BY <1>5 DEF Work, ReadLevel, WriteLevel, StoreFlag, SaveSettings
  <2> QED BY <1>5, <2>1, WorkStep
<1>6. ASSUME NEW c \in Clients, Program(c)
      PROVE  UNCHANGED <<shm, file, had>> /\ run' \in [Procs -> {"off", "run", "asleep"}]
  BY <1>1, <1>6 DEF Program, InitClient, PWR_enterSleep, PWR_exitSleep
<1>7. World \/ UNCHANGED vars => UNCHANGED <<shm, file, run, had>>
  BY DEF World, Key, Plug, vars
<1> QED BY <1>1, <1>2, <1>3, <1>4, <1>5, <1>6, <1>7 DEF Next

-----------------------------------------------------------------------------
(* The looks at a watched port.                                              *)

LEMMA TrueBegun ==
  ASSUME Typed, CallsTyped, NEW w \in Ports, LooksTrue(w), NEW p \in Procs \ {"watch"}, NEW c, Begun(p, c),
         Told(c, w, ports[w]), UNCHANGED <<had, ports>>, Sent(q', w, ports[w]),
         shm'[w] = shm[w] \/ run["watch"] # "run"
  PROVE  LooksTrue(w)'
<1>1. todo \in [Procs -> Seq(Steps)] /\ todo' = [todo EXCEPT ![p] = c]
  BY DEF CallsTyped, Begun
<1>2. todo'[p] = c /\ \A r \in Procs \ {p} : todo'[r] = todo[r]
  BY <1>1
<1>3. todo'["watch"] = todo["watch"] /\ run'["watch"] = run["watch"]
  BY <1>2, ProcsAre DEF Begun
<1>4. \A r \in Procs \ {"watch"} : Told(todo'[r], w, ports[w])
  BY <1>2 DEF LooksTrue
<1> QED BY <1>3, <1>4 DEF LooksTrue, Holds

LEMMA TrueWatch ==
  ASSUME Typed, CallsTyped, NEW w \in Ports, LooksTrue(w), NEW c, Begun("watch", c), Told(c, w, had'[w]),
         UNCHANGED <<q, ports, shm>>, Stores(c, w) \/ (had'[w] = had[w] /\ run["watch"] = "run")
  PROVE  LooksTrue(w)'
<1>1. todo \in [Procs -> Seq(Steps)] /\ todo' = [todo EXCEPT !["watch"] = c] /\ todo["watch"] = <<>>
  BY DEF CallsTyped, Begun, Busy
<1>2. todo'["watch"] = c /\ \A r \in Procs \ {"watch"} : todo'[r] = todo[r]
  BY <1>1, ProcsAre
<1>3. ~Holds("watch", w)
  BY <1>1, Empty DEF Holds, Stores
<1>4. run'["watch"] = "run" /\ ~Holds("watch", w)' => shm'[w] \in {had'[w], ports'[w]}
  BY <1>2, <1>3 DEF LooksTrue, Holds
<1> QED BY <1>2, <1>4 DEF LooksTrue

(* A call goes on: what it is about to store becomes what is stored. *)
LEMMA TrueWork ==
  ASSUME Typed, CallsTyped, Pending, NEW w \in Ports \ doubted', w \notin doubted => LooksTrue(w),
         NEW p \in Procs, Work(p)
  PROVE  LooksTrue(w)'
<1>1. UNCHANGED <<run, had, ports, q>>
  BY DEF Work, ReadLevel, WriteLevel, StoreFlag, SaveSettings, world
<1>2. PICK n \in 1..Len(todo[p]) : Drop(p, n) /\ \A i \in 2..n : todo[p][i].op # "flag"
  BY WorkStep
<1>3. /\ Len(todo[p]) \in Nat /\ Len(todo'[p]) = Len(todo[p]) - n
      /\ \A i \in 1..Len(todo'[p]) : todo'[p][i] = todo[p][i + n] /\ i + n \in 1..Len(todo[p])
      /\ \A r \in Procs \ {p} : todo'[r] = todo[r]
  BY <1>2, Dropped
<1>4. Busy(p) /\ 1 \in 1..Len(todo[p]) /\ Now(p) = todo[p][1]
      /\ shm'[w] = IF Now(p) = FlagOf(w, Now(p).by) THEN Now(p).by ELSE shm[w]
  BY <1>3, WorkStep DEF Now
<1>5. ASSUME NEW v, Told(todo[p], w, v)
      PROVE  Told(todo'[p], w, v) /\ (shm'[w] = v \/ shm'[w] = shm[w])
  <2>1. Told(todo'[p], w, v)
    BY <1>3, <1>5 DEF Told
  <2>2. Now(p) = FlagOf(w, Now(p).by) => Now(p).by = v
    <3>1. FlagOf(w, Now(p).by).op = "flag" /\ FlagOf(w, Now(p).by).what = w  BY DEF FlagOf
    <3> QED BY <1>4, <1>5, <3>1 DEF Told
  <2> QED BY <1>4, <2>1, <2>2
<1>6. CASE w \notin doubted /\ p # "watch"
  <2>1. LooksTrue(w) /\ todo'["watch"] = todo["watch"]
    BY <1>3, <1>6, ProcsAre
  <2>2. Told(todo[p], w, ports[w])
    BY <1>6, <2>1 DEF LooksTrue
  <2>3. Told(todo'[p], w, ports[w]) /\ (shm'[w] = ports[w] \/ shm'[w] = shm[w])
    BY <1>5, <2>2
  <2>4. \A r \in Procs \ {"watch"} : Told(todo'[r], w, ports[w])
    BY <1>3, <2>1, <2>3 DEF LooksTrue
  <2> QED BY <1>1, <2>1, <2>3, <2>4 DEF LooksTrue, Holds
<1>7. CASE w \notin doubted /\ p = "watch"
  <2>1. LooksTrue(w) /\ \A r \in Procs \ {"watch"} : todo'[r] = todo[r]
    BY <1>3, <1>7
  <2>2. Told(todo["watch"], w, had[w])
    BY <2>1 DEF LooksTrue
  <2>3. Told(todo'["watch"], w, had[w]) /\ (shm'[w] = had[w] \/ shm'[w] = shm[w])
    BY <1>5, <1>7, <2>2
  <2>4. ASSUME run["watch"] = "run", ~Stores(todo'["watch"], w)  PROVE shm'[w] \in {had[w], ports[w]}
    <3>1. CASE ~Stores(todo["watch"], w)
      BY <2>1, <2>3, <2>4, <3>1 DEF LooksTrue, Holds
    <3>2. CASE Stores(todo["watch"], w)
      <4>1. PICK i \in 1..Len(todo["watch"]) : todo["watch"][i].op = "flag" /\ todo["watch"][i].what = w
        BY <3>2 DEF Stores
      <4>2. i <= n
        <5> SUFFICES ASSUME ~(i <= n)  PROVE FALSE
          OBVIOUS
        <5>1. i - n \in 1..Len(todo'["watch"]) /\ (i - n) + n = i
          BY <1>3, <1>7
        <5>2. todo'["watch"][i - n] = todo["watch"][i]
          BY <1>3, <1>7, <5>1
        <5> QED BY <2>4, <4>1, <5>1, <5>2 DEF Stores
      <4>3. i = 1
        BY <1>2, <1>7, <4>1, <4>2
      <4>4. Now(p) = FlagOf(w, Now(p).by)
        <5>1. Now(p) \in Steps
          BY <1>4 DEF CallsTyped, WellFormed
        <5> QED BY <1>4, <1>7, <4>1, <4>3, <5>1 DEF Steps, FlagOf
      <4>5. Now(p).by = had[w]
        BY <1>4, <1>7, <2>2, <4>1, <4>3 DEF Told
      <4> QED BY <1>4, <4>4, <4>5
    <3> QED BY <3>1, <3>2
  <2> QED BY <1>1, <2>1, <2>3, <2>4 DEF LooksTrue, Holds
<1>8. CASE w \in doubted
  <2>1. StoreFlag(p)
    BY <1>8 DEF Work, ReadLevel, WriteLevel, SaveSettings
  <2>2. /\ p = "watch" /\ Now(p).what = w /\ Now(p).by = had[w] /\ Now(p).op = "flag"
        /\ ~Others(w) /\ ~Stores(Tail(todo[p]), w) /\ Drop(p, 1)
    BY <1>8, <2>1 DEF StoreFlag, Doing
  <2>3. \A v : Sent(q, w, v) /\ \A r \in Procs \ {"watch"} : Told(todo[r], w, v)
    BY <2>2 DEF Others, Queued, Holds, Stores, Sent, Told
  <2>4. todo["watch"] \in Seq(Steps) /\ todo["watch"] # <<>> /\ Now(p) \in Steps
    <3>1. todo[p] \in Seq(Steps)  BY DEF CallsTyped, WellFormed
    <3> QED BY <1>4, <2>2, <3>1
  <2>5. todo'["watch"] = Tail(todo["watch"])
    <3>1. todo'["watch"] = SubSeq(todo["watch"], 2, Len(todo["watch"]))
      <4>1. todo \in [Procs -> Seq(Steps)]  BY DEF CallsTyped
      <4> QED BY <2>2, <4>1 DEF Drop
    <3> QED BY <2>4, <3>1
  <2>6. ~Stores(todo'["watch"], w)
    BY <2>2, <2>5
  <2>7. Told(todo'["watch"], w, had[w])
    BY <2>6 DEF Stores, Told
  <2>8. shm'[w] = had[w]
    <3>1. Now(p) = FlagOf(w, Now(p).by)  BY <2>2, <2>4 DEF Steps, FlagOf
    <3> QED BY <1>4, <2>2, <3>1
  <2>9. \A r \in Procs \ {"watch"} : todo'[r] = todo[r]
    BY <1>3, <2>2
  <2> QED BY <1>1, <2>3, <2>7, <2>8, <2>9 DEF LooksTrue
<1> QED BY <1>6, <1>7, <1>8

(* A plug that makes no look outdated. *)
LEMMA TruePlug ==
  ASSUME Typed, KeymonOf(mon), NEW w \in Ports \ doubted', w \notin doubted => LooksTrue(w), Watched(w),
         NEW port \in Ports, Plug(port)
  PROVE  LooksTrue(w)'
<1>1. /\ UNCHANGED <<todo, run, shm, had>> /\ ports' = [ports EXCEPT ![port] = 1 - @]
      /\ q' = q \/ q' = Append(q, [key |-> port, value |-> 1 - ports[port]])
      /\ w \notin doubted /\ LooksTrue(w)
  BY DEF Plug, Input
<1>2. ports \in [Ports -> {0, 1}] /\ q \in Seq(KeyEvents)
  BY DEF Typed
<1> DEFINE on == 1 - ports[port]
<1>3. ports'[port] = on /\ \A x \in Ports \ {port} : ports'[x] = ports[x]
  BY <1>1, <1>2
<1> HIDE DEF on
<1>4. ASSUME NEW v, Sent(q, w, v), w = port => v = on  PROVE Sent(q', w, v)
  <2>1. CASE q' = q
    BY <1>4, <2>1
  <2>2. CASE q' = Append(q, [key |-> port, value |-> on])
    <3> DEFINE e == [key |-> port, value |-> on]  S == KeyEvents \cup {e}
    <3>1. q \in Seq(S) /\ e \in S
      BY <1>2
    <3>2. /\ Len(q) \in Nat /\ Len(q') = Len(q) + 1
          /\ \A i \in 1..Len(q) : q'[i] = q[i]
          /\ q'[Len(q) + 1] = e
      <4> HIDE DEF S, e
      <4>1. q' = Append(q, e)  BY <2>2 DEF e
      <4> QED BY <3>1, <4>1, AppendAt
    <3>3. e.key = port /\ e.value = on
      OBVIOUS
    <3> HIDE DEF e, S
    <3>4. \A i \in 1..Len(q') : i \in 1..Len(q) \/ i = Len(q) + 1
      BY <3>2
    <3> QED BY <1>4, <3>2, <3>3, <3>4 DEF Sent
  <2> QED BY <1>1, <2>1, <2>2 DEF on
<1>5. CASE port # w
  <2>1. ports'[w] = ports[w]
    BY <1>3, <1>5
  <2>2. Sent(q', w, ports[w])
    BY <1>1, <1>4, <1>5 DEF LooksTrue
  <2> QED BY <1>1, <2>1, <2>2 DEF LooksTrue, Holds
<1>6. CASE port = w
  <2>1. ~Others(w) /\ ~(run["watch"] = "run" /\ ~Holds("watch", w) /\ shm[w] # had[w])
    BY <1>6 DEF Plug
  <2>2. \A v : Sent(q, w, v) /\ \A r \in Procs \ {"watch"} : Told(todo[r], w, v)
    BY <2>1 DEF Others, Queued, Holds, Stores, Sent, Told
  <2>3. Sent(q', w, ports'[w])
    BY <1>3, <1>4, <1>6, <2>2
  <2> QED BY <1>1, <2>1, <2>2, <2>3 DEF LooksTrue, Holds
<1> QED BY <1>5, <1>6

LEMMA TrueStep ==
  ASSUME Typed, CallsTyped, Pending, Owes, [Next]_vars, NEW w \in Ports \ doubted', Watched(w)
  PROVE  LooksTrue(w)'
<1>1. /\ platform \in Platforms /\ LibraryOf(lib) /\ KeymonOf(mon) /\ StoredOf(lib, mon)
      /\ (run["keymon"] = "off" => run["watch"] = "off") /\ (w \notin doubted => LooksTrue(w))
      /\ run \in [Procs -> {"off", "run", "asleep"}] /\ todo \in [Procs -> Seq(Steps)]
      /\ ports \in [Ports -> {0, 1}] /\ had \in [Ports -> {0, 1}] /\ q \in Seq(KeyEvents)
  <2>1. platform \in Platforms  BY DEF Typed
  <2> QED BY <2>1, DeviceTable DEF Owes, Typed, CallsTyped
<1>2. CASE InitHost
  <2>1. /\ run["keymon"] = "off" /\ run' = [run EXCEPT !["keymon"] = "run"] /\ val' = val
        /\ Opens("keymon") /\ UNCHANGED <<had, ports, q>>
    BY <1>2 DEF InitHost, world
  <2>2. PICK c : Begun("keymon", c) /\ \A x \in Ports \ doubted' : Watched(x) => Told(c, x, ports[x])
    BY <1>1, <2>1, ProcsAre, StartBegins
  <2>3. doubted \subseteq doubted'
    BY <1>1, <2>1, ProcsAre, StartBegins
  <2>4. LooksTrue(w) /\ Told(c, w, ports[w]) /\ Sent(q', w, ports[w]) /\ run["watch"] # "run"
    BY <1>1, <2>1, <2>2, <2>3 DEF LooksTrue
  <2> QED BY <2>1, <2>2, <2>4, ProcsAre, TrueBegun
<1>3. ASSUME NEW c \in Clients, Program(c)  PROVE LooksTrue(w)'
  <2>1. c \in Procs \ {"watch"} /\ UNCHANGED <<shm, had, ports, q>>
    BY <1>3, ProcsAre, ClientsAssumption DEF Program, InitClient, PWR_enterSleep, PWR_exitSleep, world
  <2>2. CASE InitClient(c) \/ PWR_exitSleep(c)
    <3>1. PICK d : Begun(c, d) /\ \A x \in Ports \ doubted' : Watched(x) => Told(d, x, ports[x])
      BY <1>1, <2>2, ProgramBegins
    <3>2. doubted \subseteq doubted'
      BY <1>1, <2>2, ProgramBegins
    <3>3. LooksTrue(w) /\ Told(d, w, ports[w]) /\ Sent(q', w, ports[w])
      BY <1>1, <2>1, <3>1, <3>2 DEF LooksTrue
    <3> QED BY <2>1, <3>1, <3>3, TrueBegun
  <2>3. CASE PWR_enterSleep(c)
    <3>1. todo' = todo /\ run'["watch"] = run["watch"] /\ doubted' = doubted
      BY <1>1, <2>1, <2>3, ProcsAre DEF PWR_enterSleep
    <3> QED BY <1>1, <2>1, <3>1 DEF LooksTrue, Holds
  <2> QED BY <1>3, <2>2, <2>3 DEF Program
<1>4. CASE StartWatch
  <2>1. PICK garbage \in {0, 1} :
          /\ todo' = [todo EXCEPT !["watch"] = FirstLook(garbage)]
          /\ doubted' = doubted \cup {x \in mon.blind : garbage # ports[x]}
    BY <1>4 DEF StartWatch
  <2>2. had' = ports /\ UNCHANGED <<q, ports, shm>> /\ LooksTrue(w)
        /\ ports[w] = IF w \in mon.blind THEN garbage ELSE ports[w]
    BY <1>1, <1>4, <2>1 DEF StartWatch, world
  <2>3. Told(FirstLook(garbage), w, ports[w]) /\ Stores(FirstLook(garbage), w) /\ Fresh(FirstLook(garbage))
    BY <1>1, <2>2, FirstLookFresh
  <2>4. \E c : Begun("watch", c)
    BY <1>1, <1>4, WatchBegins DEF Watch
  <2>5. Begun("watch", FirstLook(garbage))
    BY <2>1, <2>3, <2>4 DEF Begun
  <2> QED BY <2>2, <2>3, <2>5, TrueWatch
<1>5. ASSUME NEW port \in Ports, WatchPorts(port)  PROVE LooksTrue(w)'
  <2> DEFINE c == SetPort(port, ports[port])
  <2>1. /\ todo' = [todo EXCEPT !["watch"] = c] /\ had' = [had EXCEPT ![port] = ports[port]]
        /\ UNCHANGED <<q, ports, shm>> /\ LooksTrue(w) /\ run["watch"] = "run" /\ port \in lib.sets
    <3>1. \E i \in 1..Len(mon.watches) : port = mon.watches[i]
      BY <1>5 DEF WatchPorts
    <3>2. port \in lib.sets
      BY <1>1, <3>1 DEF StoredOf
    <3> QED BY <1>1, <1>5, <3>2 DEF WatchPorts, Running, world
  <2>2. /\ Fresh(c) /\ (\A x, v : (x = port => v = ports[port]) => Told(c, x, v))
        /\ Stores(c, port)
    <3>1. ports[port] \in {0, 1}  BY <1>1
    <3> QED BY <2>1, <3>1, SetPortFresh
  <2> HIDE DEF c
  <2>3. \E d : Begun("watch", d)
    BY <1>1, <1>5, WatchBegins DEF Watch
  <2>4. Begun("watch", c)
    BY <2>1, <2>2, <2>3 DEF Begun
  <2>5. had'[port] = ports[port] /\ \A x \in Ports \ {port} : had'[x] = had[x]
    BY <1>1, <2>1
  <2>6. Told(c, w, had'[w])
    BY <2>2, <2>5
  <2>7. Stores(c, w) \/ had'[w] = had[w]
    BY <2>2, <2>5
  <2> QED BY <2>1, <2>4, <2>6, <2>7, TrueWatch
<1>6. CASE Loop
  <2>1. PICK c : Begun("keymon", c) /\ \A x, v : Sent(q, x, v) => Told(c, x, v)
    BY <1>6, LoopBegins
  <2>2. UNCHANGED <<shm, had, doubted, ports>>
    BY <1>6, LoopBegins
  <2>3. q' = q \/ (q # <<>> /\ q' = Tail(q))
    BY <1>6 DEF Loop, LoopTop, ReadEvent, ReadDone, Up, Down, Handle, Event, world
  <2>4. LooksTrue(w) /\ Sent(q, w, ports[w])
    BY <1>1, <2>2 DEF LooksTrue
  <2>5. Sent(q', w, ports[w])
    <3>1. CASE q' = q
      BY <2>4, <3>1
    <3>2. CASE q # <<>> /\ q' = Tail(q)
      <4>1. \A i \in 1..Len(q') : q'[i] = q[i + 1] /\ i + 1 \in 1..Len(q)
        BY <1>1, <3>2, TailAt
      <4> QED BY <2>4, <4>1 DEF Sent
    <3> QED BY <2>3, <3>1, <3>2
  <2> QED BY <2>1, <2>2, <2>4, <2>5, ProcsAre, TrueBegun
<1>7. ASSUME NEW k \in Keys, Key(k)  PROVE LooksTrue(w)'
  <2>1. UNCHANGED <<todo, run, shm, had, doubted, ports>> /\ \E v \in 0..2 : q' = Append(q, [key |-> k, value |-> v])
    BY <1>7 DEF Key, Input
  <2>2. PICK v \in 0..2 : q' = Append(q, [key |-> k, value |-> v])
    BY <2>1
  <2> DEFINE e == [key |-> k, value |-> v]
  <2>3. e \in KeyEvents /\ e.key = k /\ k # w
    BY KeysAreNoPorts DEF KeyEvents
  <2> HIDE DEF e
  <2>4. /\ Len(q) \in Nat /\ Len(q') = Len(q) + 1
        /\ \A i \in 1..Len(q) : q'[i] = q[i]
        /\ q'[Len(q) + 1] = e
    BY <1>1, <2>2, <2>3, AppendAt DEF e
  <2>5. \A i \in 1..Len(q') : i \in 1..Len(q) \/ i = Len(q) + 1
    BY <2>4
  <2>6. Sent(q', w, ports[w])
    BY <1>1, <2>1, <2>3, <2>4, <2>5 DEF LooksTrue, Sent
  <2> QED BY <1>1, <2>1, <2>6 DEF LooksTrue, Holds
<1>8. ASSUME NEW port \in Ports, Plug(port)  PROVE LooksTrue(w)'
  BY <1>1, <1>8, TruePlug
<1>9. ASSUME NEW p \in Procs, Work(p)  PROVE LooksTrue(w)'
  BY <1>1, <1>9, TrueWork
<1>10. CASE UNCHANGED vars
  <2>1. UNCHANGED <<todo, run, shm, had, doubted, ports, q>>
    BY <1>10 DEF vars, world
  <2> QED BY <1>1, <2>1 DEF LooksTrue, Holds
<1> QED BY <1>2, <1>3, <1>4, <1>5, <1>6, <1>7, <1>8, <1>9, <1>10 DEF Next, Watch, World

LEMMA OwesStep ==
  ASSUME Typed, CallsTyped, Pending, Owes, [Next]_vars
  PROVE  Owes'
<1>1. \A w : Watched(w)' <=> Watched(w)
  BY StepSame, DeviceSame DEF Watched
<1>2. \A w \in Ports \ doubted' : Watched(w) => LooksTrue(w)'
  BY TrueStep
<1>3. /\ run["keymon"] = "off" => run["watch"] = "off"
      /\ run \in [Procs -> {"off", "run", "asleep"}] /\ "keymon" \in Procs /\ "watch" \in Procs
  BY ProcsAre DEF Owes, Typed
<1>4. run'["keymon"] = "off" => run'["watch"] = "off"
  <2>1. InitHost => run'["keymon"] = "run"
    BY <1>3 DEF InitHost
  <2>2. StartWatch => run'["keymon"] = run["keymon"] /\ run["keymon"] = "run"
    BY <1>3 DEF StartWatch
  <2>3. Loop \/ World \/ (\E port \in Ports : WatchPorts(port)) \/ UNCHANGED vars => run' = run
    BY DEF Loop, LoopTop, ReadEvent, ReadDone, Up, Down, Handle, Event, World, Key, Plug, WatchPorts, vars
  <2>4. ASSUME NEW p \in Procs, Work(p)  PROVE run' = run
    BY <2>4 DEF Work, ReadLevel, WriteLevel, StoreFlag, SaveSettings
  <2>5. ASSUME NEW c \in Clients, Program(c)
        PROVE  run'["keymon"] = run["keymon"] /\ run'["watch"] = run["watch"]
    BY <1>3, <2>5, ClientsAssumption DEF Program, InitClient, PWR_enterSleep, PWR_exitSleep
  <2> QED BY <1>3, <2>1, <2>2, <2>3, <2>4, <2>5 DEF Next, Watch
<1> QED BY <1>1, <1>2, <1>4 DEF Owes

-----------------------------------------------------------------------------
(* The theorems.                                                             *)

LEMMA IInvStep == IInv /\ [Next]_vars => IInv'
<1> SUFFICES ASSUME IInv, [Next]_vars PROVE IInv'
  OBVIOUS
<1>1. Typed /\ CallsTyped /\ Pending /\ Owes /\ LibraryOf(lib) /\ KeymonOf(mon) /\ StoredOf(lib, mon) /\ platform \in Platforms
  <2>1. platform \in Platforms  BY DEF IInv, Typed
  <2> QED BY <2>1, DeviceTable DEF IInv
<1>2. Typed'
  <2>1. platform' \in Platforms  BY <1>1, StepSame
  <2> QED BY <1>1, <2>1, KeysStep, QueueStep, RestStep DEF Typed, KeysTyped, QueueTyped
<1>3. CallsTyped' /\ Pending'
  BY CallsStep
<1>4. Waiting' /\ NoRunaway'
  BY WaitingStep
<1>5. Owes'
  BY <1>1, OwesStep
<1> QED BY <1>2, <1>3, <1>4, <1>5 DEF IInv

LEMMA IInvHolds == Spec => []IInv
<1>1. Init => IInv
  BY InitIInv
<1>2. IInv /\ [Next]_vars => IInv'
  BY IInvStep
<1> QED BY <1>1, <1>2, PTL DEF Spec

(* Every variable keeps its type, and every level is one the drivers know,   *)
(* whoever interrupts whom between the read, the check and the write of      *)
(* keymon's keys and the calls of libmsettings.                              *)
THEOREM SettingsTyped == Spec => []TypeOK
<1>1. IInv => TypeOK
  BY DEF IInv, Typed, CallsTyped, TypeOK, Memory
<1> QED BY <1>1, IInvHolds, PTL

(* When no process is in a call, msettings.bin holds the levels in force:    *)
(* SaveSettings writes the whole memory, so the last of the saves that race  *)
(* has the change of every process.                                          *)
THEOREM ChangesAreSaved == Spec => []SavedWhenQuiet
<1>1. IInv => SavedWhenQuiet
  BY DEF IInv, Pending, SavedWhenQuiet, Quiet
<1> QED BY <1>1, IInvHolds, PTL

(* A key that keymon takes for pressed is down, or its release is on its     *)
(* way, except while it throws a sleep's input away: no level runs off.      *)
THEOREM LevelsDoNotRunAway == Spec => []NoRunaway
<1>1. IInv => NoRunaway
  BY DEF IInv
<1> QED BY <1>1, IInvHolds, PTL

(* Where every look at a port was still true when it was stored, the shared  *)
(* memory has the port as it is once keymon's second thread has seen and     *)
(* stored its last change, whoever else stores it.                           *)
THEOREM PortsAreReported == Spec => []PortsReported
<1>1. IInv => PortsReported
  BY DEF IInv, Owes, LooksTrue, PortsReported, Settled
<1> QED BY <1>1, IInvHolds, PTL
=============================================================================
