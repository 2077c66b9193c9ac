--------------------------- MODULE MenuNav_proofs ---------------------------
(***************************************************************************)
(* For every card, screen height and input: every open directory shows its *)
(* selection in a full window, the restored position fits, recents are in  *)
(* order, RESUME is for the selected game, and the launcher comes back to  *)
(* what it started.                                                        *)
(***************************************************************************)
EXTENDS MenuNav, SequenceTheorems, TLAPS

----------------------------------------------------------------------------
(* The moves, for a list of any length *)

LEMMA UpShows ==
  ASSUME NEW w \in Windows, NEW total \in Nat \ {0}, NEW p \in BOOLEAN, Shows(w, total)
  PROVE  Up(w, total, p) \in Windows /\ Shows(Up(w, total, p), total)
  BY RowsAssumption DEF Windows, Shows, Up, LastPage, Fit

LEMMA DownShows ==
  ASSUME NEW w \in Windows, NEW total \in Nat \ {0}, NEW p \in BOOLEAN, Shows(w, total)
  PROVE  Down(w, total, p) \in Windows /\ Shows(Down(w, total, p), total)
  BY RowsAssumption DEF Windows, Shows, Down, FirstPage, Fit

LEMMA LeftShows ==
  ASSUME NEW w \in Windows, NEW total \in Nat \ {0}, Shows(w, total)
  PROVE  Left(w, total) \in Windows /\ Shows(Left(w, total), total)
  BY RowsAssumption DEF Windows, Shows, Left, FirstPage, Fit

LEMMA RightShows ==
  ASSUME NEW w \in Windows, NEW total \in Nat \ {0}, Shows(w, total)
  PROVE  Right(w, total) \in Windows /\ Shows(Right(w, total), total)
  BY RowsAssumption DEF Windows, Shows, Right, LastPage, PageTo, Fit

LEMMA PageToShows ==
  ASSUME NEW total \in Nat, total > Rows, NEW i \in 0 .. total - 1
  PROVE  PageTo(i, i + Rows, total) \in Windows /\ Shows(PageTo(i, i + Rows, total), total)
  BY RowsAssumption DEF Windows, Shows, PageTo, Fit

LEMMA JumpToShows ==
  ASSUME NEW w \in Windows, NEW total \in Nat, Shows(w, total), NEW i \in 0 .. total - 1
  PROVE  JumpTo(w, total, i) \in Windows /\ Shows(JumpTo(w, total, i), total)
  <1>1. CASE total > Rows
    BY <1>1, PageToShows DEF JumpTo
  <1>2. CASE ~(total > Rows)
    BY <1>2, RowsAssumption DEF Windows, Shows, JumpTo, Fit
  <1> QED BY <1>1, <1>2

LEMMA FirstPageShows ==
  ASSUME NEW total \in Nat
  PROVE  FirstPage(total) \in Windows /\ Shows(FirstPage(total), total)
  BY RowsAssumption DEF Windows, Shows, FirstPage, Fit
----------------------------------------------------------------------------
(* The invariant *)

Directories == [dir : Dir, list : Seq(Entry), selected : Nat, start : Nat, end : Nat]

\* What LAST_PATH may name: the components above the last are directories.
PathLike(p) == p \in Seq(Entry) /\ \A i \in 1 .. Len(p) - 1 : p[i] \in Dir

Types ==
  /\ mode \in {"load", "list", "leaving", "ended"}
  /\ top \in Directories /\ stack \in Seq(Directories)
  /\ restore \in [depth : Int, relative : Int, selected : Nat, start : Nat, end : Nat]
  /\ recents \in Seq(Rom) /\ favourites \in Seq(Rom) /\ saved \subseteq Rom
  /\ ready \in [can : BOOLEAN, game : Rom \cup {NoRom}]
  /\ dirty \in BOOLEAN /\ show_version \in BOOLEAN
  /\ PathLike(last) /\ PathLike(rest)
  /\ launched \in [entry : Entry \cup {NoRom}, slot : Rom \cup {NoRom}, from : Dir, hdmi : BOOLEAN]

Current(t) == t.list = List(t.dir) /\ Shows(t, Len(t.list))

\* Every open directory is the selected entry of the one below it.
Chain ==
  /\ (stack = <<>>) => top.dir = Root
  /\ (stack # <<>>) => stack[1].dir = Root
  /\ \A i \in DOMAIN stack :
       /\ stack[i].list # <<>>
       /\ Selected(stack[i]) = (IF i = Len(stack) THEN top ELSE stack[i + 1]).dir

\* A position kept for this depth fits the directory in its parent's row; one
\* kept for a lower depth is replaced before that depth is back.
RestoreKept ==
  /\ restore.depth <= Len(stack) + 1
  /\ restore.depth = Len(stack) + 1 =>
       \A i \in DOMAIN top.list :
         (i = restore.relative + 1 /\ top.list[i] \in Dir) => Shows(restore, Len(List(top.list[i])))

Live ==
  /\ Current(top) /\ \A i \in DOMAIN stack : Current(stack[i])
  /\ Chain /\ RestoreKept

\* loadLast only scrolls down, so the list it searches is at its first page.
Loading == restore = NoRestore /\ (rest # <<>> => top.start = 0)

Leaving == top.list # <<>> => Selected(top) \in Entry \ {Root}

IInv ==
  /\ Types
  /\ mode \in {"load", "list"} => Live
  /\ mode = "load" => Loading
  /\ mode = "leaving" => Leaving

\* t is the top directory with another window.
MovedTop(t) == t \in Directories /\ t.dir = top.dir /\ t.list = top.list /\ Shows(t, Len(t.list))

LEMMA IInvImpliesProperties == IInv => TypeOK /\ ShowsSelection /\ RestoreFits
<1> SUFFICES ASSUME IInv PROVE TypeOK /\ ShowsSelection /\ RestoreFits
  OBVIOUS
<1>1. TypeOK
  <2>1. top.dir \in Dir /\ Window(top) \in Windows /\ Window(restore) \in Windows
    BY DEF IInv, Types, Directories, Windows, Window
  <2>2. Folders(stack) \subseteq Windows
    <3> SUFFICES ASSUME NEW i \in DOMAIN stack PROVE Window(stack[i]) \in Windows
      BY DEF Folders
    <3>1. stack[i] \in Directories
      BY DEF IInv, Types
    <3> QED
      BY <3>1 DEF Directories, Windows, Window
  <2>3. {recents[i] : i \in DOMAIN recents} \cup {favourites[i] : i \in DOMAIN favourites} \subseteq Rom
    BY DEF IInv, Types
  <2> QED
    BY <2>1, <2>2, <2>3 DEF IInv, Types, TypeOK
<1>2. ShowsSelection
  BY DEF IInv, Live, Current, ShowsSelection
<1>3. RestoreFits
  <2> SUFFICES ASSUME mode = "list", top.list # <<>>, restore.depth = Len(stack) + 1,
                      restore.relative = top.selected, Selected(top) \in Dir
               PROVE  Shows(restore, Len(List(Selected(top))))
    BY DEF RestoreFits
  <2>1. top.selected + 1 \in DOMAIN top.list
    BY RowsAssumption DEF IInv, Types, Live, Current, Shows, Fit, Directories
  <2> QED
    BY <2>1 DEF IInv, Live, RestoreKept, Selected
<1> QED
  BY <1>1, <1>2, <1>3

\* What a list holds: entries other than Root; Favourites only in Root, and
\* only games in Favourites.
LEMMA ListType ==
  ASSUME recents \in Seq(Rom), favourites \in Seq(Rom), NEW d \in Dir
  PROVE  /\ List(d) \in Seq(Entry)
         /\ \A i \in DOMAIN List(d) :
              /\ List(d)[i] # Root
              /\ List(d)[i] = Favourites => d = Root
              /\ d = Favourites => List(d)[i] \in Rom
<1> DEFINE front == IF recents = <<>> THEN <<>> ELSE <<Recents>>
           rest1 == front \o <<Favourites>>
<1>1. front \in Seq({Recents}) /\ <<Favourites>> \in Seq({Favourites}) /\ Systems \in Seq(Inner)
  <2>1. <<>> \in Seq({Recents}) /\ <<Recents>> \in Seq({Recents})
    BY EmptySeq
  <2>2. <<Favourites>> \in Seq({Favourites})
    OBVIOUS
  <2> QED
    BY <2>1, <2>2, CardAssumption
<1>2. CASE d = Root
  <2>1. rest1 \in Seq({Recents, Favourites})
    BY <1>1, ConcatProperties
  <2>2. rest1 \o Systems \in Seq(Inner \cup {Recents, Favourites})
    BY <2>1, <1>1, ConcatProperties
  <2>3. List(d) = rest1 \o Systems
    BY <1>2, <1>1 DEF List
  <2> HIDE DEF rest1
  <2>4. \A x \in Inner \cup {Recents, Favourites} : x \in Entry /\ x # Root
    BY CardAssumption DEF Inner, Entry
  <2>5. List(d) \in Seq(Inner \cup {Recents, Favourites})
    BY <2>2, <2>3
  <2>6. List(d) \in Seq(Entry)
    BY <2>4, <2>5
  <2> QED
    BY <2>4, <2>5, <2>6, <1>2, CardAssumption
<1>3. CASE d = Recents
  BY <1>3, CardAssumption DEF List, Entry
<1>4. CASE d = Favourites
  BY <1>4, CardAssumption DEF List, Entry
<1>5. CASE d \notin {Root, Recents, Favourites}
  <2>1. List(d) = Files[d] /\ Files[d] \in Seq(Inner)
    BY <1>5, CardAssumption DEF List
  <2> QED
    BY <2>1, <1>5 DEF Inner
<1> QED
  BY <1>2, <1>3, <1>4, <1>5

\* One turn's buttons move the window of the top directory within it.
LEMMA MovedShows ==
  ASSUME Types, Shows(top, Len(top.list)), top.list # <<>>, NEW i \in Inputs
  PROVE  MovedTop(Directory(top.dir, top.list, Moved(top, i)))
<1> DEFINE total == Len(top.list)
           w0 == Window(top)
           w1 == IF i.v \in {"up", "upHeld"} THEN Up(w0, total, i.v = "up")
                 ELSE IF i.v \in {"down", "downHeld"} THEN Down(w0, total, i.v = "down")
                 ELSE w0
           w2 == IF i.h = "left" THEN Left(w1, total)
                 ELSE IF i.h = "right" THEN Right(w1, total) ELSE w1
           rows == AlphaRows(top.dir, top.list, w2.selected, i.shoulder)
           row == CHOOSE x \in rows : TRUE
           w3 == IF rows = {} THEN w2 ELSE JumpTo(w2, total, row)
<1>0. total \in Nat \ {0} /\ w0 \in Windows /\ Shows(w0, total)
  BY DEF Types, Directories, Windows, Window, Shows
<1>1. rows \subseteq 0 .. total - 1
  BY DEF AlphaRows, Alphas
<1>2. Moved(top, i) = w3
  BY DEF Moved
<1> HIDE DEF rows, total, w0
<1>3. w1 \in Windows /\ Shows(w1, total)
  BY <1>0, UpShows, DownShows
<1> HIDE DEF w1
<1>4. w2 \in Windows /\ Shows(w2, total)
  BY <1>0, <1>3, LeftShows, RightShows
<1> HIDE DEF w2
<1>5. w3 \in Windows /\ Shows(w3, total)
  <2>1. CASE rows = {}
    BY <2>1, <1>4
  <2>2. CASE rows # {}
    <3>1. row \in 0 .. total - 1
      BY <2>2, <1>1
    <3> QED
      BY <3>1, <2>2, <1>0, <1>4, JumpToShows
  <2> QED
    BY <2>1, <2>2
<1> HIDE DEF w3
<1> QED
  BY <1>2, <1>5 DEF total, MovedTop, Directory, Directories, Windows, Shows, Types

\* A step that only replaces the window of the top directory.
LEMMA StayKeepsLive ==
  ASSUME Live, NEW t, MovedTop(t), top' = t,
         UNCHANGED <<stack, restore, recents, favourites>>
  PROVE  Live'
<1>1. Current(top)' /\ (\A i \in DOMAIN stack : Current(stack[i]))'
  BY DEF Live, Current, MovedTop, List
<1>2. Chain'
  BY DEF Live, Chain, MovedTop
<1>3. RestoreKept'
  BY DEF Live, RestoreKept, MovedTop, List
<1> QED
  BY <1>1, <1>2, <1>3 DEF Live

LEMMA RowDomain ==
  ASSUME NEW t \in Directories, t.list # <<>>, Shows(t, Len(t.list))
  PROVE  t.selected + 1 \in DOMAIN t.list
<1>1. Len(t.list) \in Nat \ {0} /\ DOMAIN t.list = 1 .. Len(t.list)
  BY DEF Directories
<1> QED
  BY <1>1 DEF Shows, Directories

LEMMA ChainBelow ==
  ASSUME Types, Live
  PROVE  /\ stack # <<>> => stack[1].dir = Root
         /\ \A i \in 1 .. Len(stack) :
              /\ stack[i].list # <<>>
              /\ Selected(stack[i]) = (IF i = Len(stack) THEN top ELSE stack[i + 1]).dir
         /\ \A i \in 1 .. Len(stack) :
              i # Len(stack) => Selected(stack[i]) = stack[i + 1].dir
<1>1. DOMAIN stack = 1 .. Len(stack)
  BY DEF Types
<1>2. Chain
  BY DEF Live
<1>3. /\ stack # <<>> => stack[1].dir = Root
      /\ \A i \in 1 .. Len(stack) :
           /\ stack[i].list # <<>>
           /\ Selected(stack[i]) = (IF i = Len(stack) THEN top ELSE stack[i + 1]).dir
  BY <1>1, <1>2 DEF Chain
<1>4. ASSUME NEW i \in 1 .. Len(stack), i # Len(stack)
      PROVE  Selected(stack[i]) = stack[i + 1].dir
  BY <1>3, <1>4
<1> QED
  BY <1>3, <1>4

\* openDirectory keeps the invariant.
LEMMA OpenKeeps ==
  ASSUME Types, Live, NEW t, MovedTop(t), t.list # <<>>, Selected(t) \in Dir,
         OpenDirectory(t, Selected(t)), UNCHANGED <<recents, favourites>>
  PROVE  /\ top' \in Directories /\ stack' \in Seq(Directories) /\ restore' = restore
         /\ Live'
<1> DEFINE d == Selected(t)
           list == List(d)
           again == t.list # <<>> /\ restore.depth = Len(stack) + 1 /\ t.selected = restore.relative
           w == [selected |-> restore.selected, start |-> restore.start,
                 end |-> IF restore.end # 0 THEN restore.end ELSE Fit(Len(list))]
           w1 == IF again THEN w ELSE FirstPage(Len(list))
<1>1. list \in Seq(Entry) /\ Len(list) \in Nat
  BY ListType DEF Types
<1>2. w1 \in Windows /\ Shows(w1, Len(list))
  <2>1. CASE again
    <3>1. t.selected + 1 \in DOMAIN top.list /\ top.list[t.selected + 1] = d
      BY RowDomain DEF MovedTop, Selected
    <3>2. Shows(restore, Len(list))
      BY <2>1, <3>1 DEF Live, RestoreKept
    <3> QED
      BY <2>1, <3>2, <1>1, RowsAssumption DEF Windows, Shows, Fit, Types
  <2>2. CASE ~again
    BY <2>2, <1>1, FirstPageShows
  <2> QED
    BY <2>1, <2>2
<1>3. top' = Directory(d, list, w1)
  BY DEF OpenDirectory, Opened
<1> HIDE DEF w1, list
<1>4. top' \in Directories /\ top'.dir = d /\ top'.list = list /\ Shows(top', Len(list))
  BY <1>1, <1>2, <1>3 DEF Directory, Directories, Windows, Shows
<1>5. /\ stack' = Append(stack, t) /\ stack' \in Seq(Directories) /\ Len(stack') = Len(stack) + 1
      /\ stack'[Len(stack')] = t /\ \A i \in 1 .. Len(stack) : stack'[i] = stack[i]
  BY DEF OpenDirectory, Types, MovedTop
<1>6. Current(top)'
  BY <1>4 DEF Current, List, list
<1>7. (\A i \in DOMAIN stack : Current(stack[i]))'
  <2>1. Current(t)'
    BY DEF MovedTop, Live, Current, List
  <2>2. \A u : Current(u) => Current(u)'
    BY DEF Current, List
  <2>3. \A i \in 1 .. Len(stack) : Current(stack[i])
    BY DEF Live, Types
  <2>4. \A i \in DOMAIN stack' : stack'[i] = t \/ \E j \in 1 .. Len(stack) : stack'[i] = stack[j]
    BY <1>5
  <2> QED
    BY <2>1, <2>2, <2>3, <2>4 DEF Current, List
<1>8. Chain'
  <2>1. (stack # <<>> => stack[1].dir = Root)'
    BY <1>5 DEF Live, Chain, Types, MovedTop
  <2>2. Len(stack) \in Nat /\ DOMAIN stack = 1 .. Len(stack) /\ DOMAIN stack' = 1 .. Len(stack) + 1
    BY <1>5 DEF Types
  <2>3. \A i \in 1 .. Len(stack) :
          /\ stack[i].list # <<>>
          /\ Selected(stack[i]) = (IF i = Len(stack) THEN top ELSE stack[i + 1]).dir
    BY ChainBelow
  <2>4. ASSUME NEW i \in DOMAIN stack'
        PROVE  stack'[i].list # <<>>
               /\ Selected(stack'[i]) = (IF i = Len(stack') THEN top' ELSE stack'[i + 1]).dir
    <3>1. CASE i = Len(stack')
      BY <3>1, <1>4, <1>5
    <3>2. CASE i = Len(stack)
      <4>1. stack'[i] = stack[i] /\ stack'[i + 1] = t /\ i # Len(stack')
        BY <3>2, <1>5, <2>2, <2>4
      <4> QED
        BY <4>1, <3>2, <2>2, <2>3, <2>4 DEF MovedTop
    <3>3. CASE i \in 1 .. Len(stack) - 1
      <4>1. i \in 1 .. Len(stack) /\ i + 1 \in 1 .. Len(stack) /\ i # Len(stack) /\ i # Len(stack')
        BY <3>3, <2>2, <1>5
      <4>2. stack'[i] = stack[i] /\ stack'[i + 1] = stack[i + 1]
        BY <4>1, <1>5
      <4> QED
        BY <4>1, <4>2, <2>3
    <3> QED
      BY <3>1, <3>2, <3>3, <1>5, <2>2
  <2>5. stack' # <<>>
    BY <1>5
  <2> QED
    BY <2>1, <2>4, <2>5 DEF Chain, Selected
<1>9. restore' = restore /\ RestoreKept'
  BY <1>5 DEF OpenDirectory, Live, RestoreKept, Types
<1> QED
  BY <1>4, <1>5, <1>6, <1>7, <1>8, <1>9 DEF Live

\* closeDirectory keeps the invariant.
LEMMA CloseKeeps ==
  ASSUME Types, Live, NEW t, MovedTop(t), stack # <<>>, CloseDirectory(t),
         UNCHANGED <<recents, favourites>>
  PROVE  /\ top' \in Directories /\ stack' \in Seq(Directories)
         /\ restore' \in [depth : Int, relative : Int, selected : Nat, start : Nat, end : Nat]
         /\ Live' /\ top'.list # <<>>
<1> DEFINE n == Len(stack)
           below == stack[n]
<1>1. n \in Nat \ {0} /\ below \in Directories
  BY DEF Types
<1>2. top' = below /\ below.list # <<>> /\ Selected(below) = top.dir
  BY <1>1 DEF CloseDirectory, Live, Chain
<1>3. /\ stack' \in Seq(Directories) /\ Len(stack') = n - 1
      /\ \A i \in 1 .. n - 1 : stack'[i] = stack[i]
  BY <1>1 DEF CloseDirectory, Types
<1>4. restore' = [depth |-> n, relative |-> below.selected,
                  selected |-> t.selected, start |-> t.start, end |-> t.end]
  BY DEF CloseDirectory
<1>5. Current(top)' /\ (\A i \in DOMAIN stack : Current(stack[i]))'
  <2>1. \A u : Current(u) => Current(u)'
    BY DEF Current, List
  <2>2. \A i \in 1 .. n : Current(stack[i])
    BY DEF Live, Types
  <2>3. top' = stack[n] /\ \A i \in DOMAIN stack' : \E j \in 1 .. n : stack'[i] = stack[j]
    BY <1>1, <1>2, <1>3
  <2>4. Current(stack[n])
    BY <1>1, <2>2
  <2>5. Current(top)'
    BY <2>3, <2>4 DEF Current, List
  <2>6. (\A i \in DOMAIN stack : Current(stack[i]))'
    BY <2>2, <2>3 DEF Current, List
  <2> QED
    BY <2>5, <2>6
<1>7. Chain'
  <2>1. DOMAIN stack = 1 .. n /\ DOMAIN stack' = 1 .. n - 1
    BY <1>1, <1>3 DEF Types
  <2>2. stack[1].dir = Root /\ \A i \in 1 .. n : stack[i].list # <<>>
    BY ChainBelow
  <2>3. \A i \in 1 .. n : i # n => Selected(stack[i]) = stack[i + 1].dir
    BY ChainBelow
  <2>4. stack' = <<>> => n = 1
    BY <1>1, <1>3
  <2>5. stack' # <<>> => stack'[1] = stack[1]
    BY <1>1, <1>3
  <2>6. ASSUME NEW i \in DOMAIN stack'
        PROVE  stack'[i].list # <<>>
               /\ Selected(stack'[i]) = (IF i = Len(stack') THEN top' ELSE stack'[i + 1]).dir
    <3>1. i \in 1 .. n - 1 /\ i \in 1 .. n /\ i # n /\ stack'[i] = stack[i]
      BY <1>1, <1>3, <2>1
    <3>2. CASE i = n - 1
      BY <3>1, <3>2, <1>1, <1>2, <1>3, <2>2, <2>3
    <3>3. CASE i # n - 1
      <4>1. i + 1 \in 1 .. n - 1 /\ i # Len(stack')
        BY <3>1, <3>3, <1>1, <1>3
      <4> QED
        BY <3>1, <4>1, <1>3, <2>2, <2>3
    <3> QED
      BY <3>2, <3>3
  <2> QED
    BY <1>2, <2>2, <2>4, <2>5, <2>6 DEF Chain, Selected
<1>8. RestoreKept'
  <2>1. Shows(restore', Len(List(Selected(below))))
    BY <1>2, <1>4 DEF MovedTop, Live, Current, Shows
  <2> QED
    BY <1>1, <1>2, <1>3, <1>4, <2>1 DEF RestoreKept, Selected, List
<1> QED
  BY <1>1, <1>2, <1>3, <1>4, <1>5, <1>7, <1>8 DEF Live, MovedTop, Directories

\* A directory below another holds it, so it is not Favourites, and what is
\* above one is not the root.
LEMMA BelowIsOpened ==
  ASSUME Types, Live, NEW i \in DOMAIN stack
  PROVE  stack[i].dir # Favourites /\ (i = Len(stack) => top.dir # Root)
<1> DEFINE u == stack[i]
           above == IF i = Len(stack) THEN top ELSE stack[i + 1]
<1>1. u \in Directories /\ above \in Directories
  BY DEF Types
<1>2. u.list # <<>> /\ Selected(u) = above.dir
  BY DEF Live, Chain
<1>3. Current(u)
  BY DEF Live
<1>4. u.selected + 1 \in DOMAIN List(u.dir) /\ Selected(u) = List(u.dir)[u.selected + 1]
  BY <1>1, <1>2, <1>3, RowDomain DEF Current, Selected
<1>5. u.dir \in Dir /\ above.dir \in Dir
  BY <1>1 DEF Directories
<1>6. Selected(u) # Root /\ (u.dir = Favourites => Selected(u) \in Rom)
  BY <1>4, <1>5, ListType DEF Types
<1> QED
  BY <1>2, <1>5, <1>6, CardAssumption

\* Adding a favourite changes no list that is open.
LEMMA AddKeepsLive ==
  ASSUME Types, Live, NEW t, MovedTop(t), stack # <<>>, t.dir # Favourites,
         top' = t, UNCHANGED <<stack, restore, recents>>, favourites' \in Seq(Rom)
  PROVE  Live'
<1>1. \A d : d # Favourites => List(d)' = List(d)
  BY CardAssumption DEF List
<1>2. \A i \in DOMAIN stack : stack[i].dir # Favourites
  BY BelowIsOpened
<1>3. top.dir # Root
  <2>1. Len(stack) \in DOMAIN stack
    BY DEF Types
  <2> QED
    BY <2>1, BelowIsOpened
<1>4. \A i \in DOMAIN top.list : top.list[i] # Favourites
  BY <1>3, ListType DEF Types, Live, Current, Directories
<1>5. (Current(top) /\ \A i \in DOMAIN stack : Current(stack[i]))'
  BY <1>1, <1>2 DEF Live, Current, MovedTop
<1>6. Chain'
  BY DEF Live, Chain, MovedTop
<1>7. RestoreKept'
  BY <1>1, <1>4 DEF Live, RestoreKept, MovedTop
<1> QED
  BY <1>5, <1>6, <1>7 DEF Live

\* Removing one shows the favourites anew; they have no directory to restore.
LEMMA RemoveKeepsLive ==
  ASSUME Types, Live, top.dir = Favourites, UNCHANGED <<stack, restore, recents>>,
         favourites' \in Seq(Rom),
         top' = Directory(Favourites, favourites', FirstPage(Len(favourites')))
  PROVE  Live' /\ top' \in Directories
<1>1. \A d : d # Favourites => List(d)' = List(d)
  BY CardAssumption DEF List
<1>2. List(Favourites)' = favourites'
  BY CardAssumption DEF List
<1>3. FirstPage(Len(favourites')) \in Windows /\ Shows(FirstPage(Len(favourites')), Len(favourites'))
  BY FirstPageShows
<1>4. top' \in Directories /\ top'.dir = Favourites /\ top'.list = favourites'
      /\ Shows(top', Len(favourites'))
  BY <1>3, CardAssumption DEF Directory, Directories, Windows, Shows, Entry
<1>5. \A i \in DOMAIN stack : stack[i].dir # Favourites
  BY BelowIsOpened
<1>6. Current(top)'
  BY <1>2, <1>4 DEF Current
<1>7. (\A i \in DOMAIN stack : Current(stack[i]))'
  BY <1>1, <1>5 DEF Live, Current
<1>8. Chain'
  BY <1>4 DEF Live, Chain
<1>9. RestoreKept'
  <2>1. \A i \in DOMAIN top'.list : top'.list[i] \notin Dir
    BY <1>4, CardAssumption
  <2> QED
    BY <2>1 DEF Live, RestoreKept
<1> QED
  BY <1>4, <1>6, <1>7, <1>8, <1>9 DEF Live
----------------------------------------------------------------------------
(* The steps *)

Readies == [can : BOOLEAN, game : Rom \cup {NoRom}]

LEMMA ReadyForType ==
  ASSUME NEW e \in Entry, NEW r \in Readies
  PROVE  ReadyFor(e, r) \in Readies
<1>1. Game(e) \in Rom \cup {NoRom}
  BY CardAssumption DEF Game, Entry
<1>2. (Game(e) \in saved) \in BOOLEAN
  OBVIOUS
<1> QED
  BY <1>1, <1>2 DEF ReadyFor, Readies

LEMMA SelectedType ==
  ASSUME NEW t \in Directories, t.list # <<>>, Shows(t, Len(t.list))
  PROVE  Selected(t) \in Entry
  BY RowDomain DEF Selected, Directories

LEMMA SelectedInner ==
  ASSUME Types, Live, NEW t, MovedTop(t), t.list # <<>>
  PROVE  Selected(t) \in Entry \ {Root}
<1>1. t \in Directories /\ Shows(t, Len(t.list)) /\ t.dir \in Dir /\ t.list = List(t.dir)
  BY DEF MovedTop, Live, Current, Directories
<1>2. t.selected + 1 \in DOMAIN t.list
  BY <1>1, RowDomain
<1>3. List(t.dir) \in Seq(Entry) /\ List(t.dir)[t.selected + 1] # Root
  BY <1>1, <1>2, ListType DEF Types
<1> QED
  BY <1>1, <1>2, <1>3 DEF Selected

LEMMA TopIsMoved == Types /\ Live => MovedTop(top)
  BY DEF Types, Live, Current, MovedTop

\* A step that leaves the lists alone keeps them as they should be.
LEMMA UnchangedKeepsLive ==
  ASSUME Types, Live, UNCHANGED <<stack, top, restore, recents, favourites>>
  PROVE  Live'
<1>1. MovedTop(top)
  BY TopIsMoved
<1> QED
  BY <1>1, StayKeepsLive

\* What saveLast writes.
LEMMA SaveLastPath ==
  ASSUME Types, NEW p, PathLike(p), SaveLast(p)
  PROVE  PathLike(last')
<1>1. PathLike(<<Recents>>)
  BY CardAssumption DEF PathLike, Entry
<1>2. last' = <<Recents>> \/ last' = p
  BY DEF SaveLast
<1> QED
  BY <1>1, <1>2

LEMMA PathPath ==
  ASSUME NEW e \in Entry \ {Root}
  PROVE  PathLike(Path[e])
  BY CardAssumption DEF PathLike

LEMMA CollectionPath ==
  ASSUME NEW d \in Dir \ {Root}, NEW e \in Entry
  PROVE  PathLike(Append(Path[d], e))
  BY CardAssumption DEF PathLike, Entry

LEMMA RemoveAtType ==
  ASSUME NEW S, NEW s \in Seq(S), NEW i \in DOMAIN s
  PROVE  RemoveAt(s, i) \in Seq(S)
<1>1. SubSeq(s, 1, i - 1) \in Seq(S) /\ SubSeq(s, i + 1, Len(s)) \in Seq(S)
  BY SubSeqProperties
<1> QED
  BY <1>1, ConcatProperties DEF RemoveAt

LEMMA InsertAtType ==
  ASSUME NEW S, NEW s \in Seq(S), NEW k \in 1 .. Len(s) + 1, NEW x \in S
  PROVE  InsertAt(s, k, x) \in Seq(S)
<1>1. SubSeq(s, 1, k - 1) \in Seq(S) /\ SubSeq(s, k, Len(s)) \in Seq(S) /\ <<x>> \in Seq(S)
  BY SubSeqProperties
<1>2. SubSeq(s, 1, k - 1) \o <<x>> \in Seq(S)
  BY <1>1, ConcatProperties
<1> QED
  BY <1>1, <1>2, ConcatProperties DEF InsertAt

LEMMA AddRecentType ==
  ASSUME recents \in Seq(Rom), NEW g \in Rom
  PROVE  AddRecent(g) \in Seq(Rom)
<1> DEFINE at == {i \in DOMAIN recents : recents[i] = g}
           n == IF Len(recents) < MAX_RECENTS THEN Len(recents) ELSE MAX_RECENTS - 1
           tail == IF at = {} THEN SubSeq(recents, 1, n) ELSE RemoveAt(recents, CHOOSE i \in at : TRUE)
<1>1. n \in 0 .. Len(recents)
  BY RowsAssumption
<1>2. SubSeq(recents, 1, n) \in Seq(Rom)
  BY <1>1, SubSeqProperties
<1>3. at # {} => RemoveAt(recents, CHOOSE i \in at : TRUE) \in Seq(Rom)
  <2> SUFFICES ASSUME at # {} PROVE RemoveAt(recents, CHOOSE i \in at : TRUE) \in Seq(Rom)
    OBVIOUS
  <2>1. (CHOOSE i \in at : TRUE) \in DOMAIN recents
    OBVIOUS
  <2> QED
    BY <2>1, RemoveAtType
<1>4. tail \in Seq(Rom) /\ <<g>> \in Seq(Rom)
  BY <1>2, <1>3
<1>5. AddRecent(g) = <<g>> \o tail
  BY DEF AddRecent
<1> HIDE DEF tail
<1> QED
  BY <1>4, <1>5, ConcatProperties

LEMMA AddFavouriteType ==
  ASSUME favourites \in Seq(Rom), NEW g \in Rom, AddFavourite(g)
  PROVE  favourites' \in Seq(Rom)
  BY InsertAtType DEF AddFavourite

LEMMA RemoveFavouriteType ==
  ASSUME favourites \in Seq(Rom), NEW g, RemoveFavourite(g)
  PROVE  favourites' \in Seq(Rom)
  BY RemoveAtType DEF RemoveFavourite

LEMMA OpenIInv ==
  ASSUME Types, Live, mode = "list", NEW t, MovedTop(t), t.list # <<>>, NEW r \in Readies,
         NEW resume \in BOOLEAN, EntryOpen(t, r, Selected(t), resume),
         show_version' \in BOOLEAN, dirty' \in BOOLEAN
  PROVE  IInv'
<1> DEFINE e == Selected(t)
<1>0. t \in Directories /\ e \in Entry /\ r.game \in Rom \cup {NoRom} /\ t.dir \in Dir
  BY SelectedType DEF MovedTop, Readies, Directories
<1>a. e \in Entry \ {Root}
  BY SelectedInner
<1>1. ASSUME NEW g \in Rom, NEW path, PathLike(path), OpenRom(t, r, g, path, resume) PROVE IInv'
  <2>1. recents' \in Seq(Rom)
    BY <1>1, AddRecentType DEF OpenRom, Types
  <2>2. PathLike(last')
    BY <1>1, SaveLastPath DEF OpenRom
  <2> QED
    BY <1>0, <1>a, <1>1, <2>1, <2>2 DEF OpenRom, Leave, IInv, Types, Readies, Entry, Leaving, Selected
<1>2. CASE e \in Pak /\ OpenPak(t, r, e)
  <2>1. PathLike(last')
    BY <1>a, <1>2, SaveLastPath, PathPath DEF OpenPak
  <2> QED
    BY <1>0, <1>a, <1>2, <2>1 DEF OpenPak, Leave, IInv, Types, Readies, Entry, Leaving, Selected
<1>3. CASE /\ e \in Dir
           /\ OpenDirectory(t, e)
           /\ ready' = IF ~resume /\ top'.list # <<>> THEN ReadyFor(Selected(top'), r) ELSE r
           /\ launched' = NoLaunch
           /\ UNCHANGED <<mode, fileVars, last, rest>>
  <2>1. /\ top' \in Directories /\ stack' \in Seq(Directories) /\ restore' = restore
        /\ Live'
    BY <1>3, OpenKeeps DEF fileVars
  <2>2. ready' \in Readies
    <3>1. top'.list # <<>> => Selected(top') \in Entry
      BY <2>1, SelectedType DEF Live, Current
    <3> QED
      BY <1>3, <3>1, ReadyForType
  <2> QED
    BY <1>3, <2>1, <2>2, CardAssumption DEF IInv, Types, Readies, NoLaunch, fileVars
<1>4. \A d \in Dir : Launches[d] # NoRom => Launches[d] \in Rom
  BY CardAssumption
<1>5. CASE e \in Rom
           /\ OpenRom(t, r, e, IF InCollections(t.dir) THEN Append(Path[t.dir], e) ELSE Path[e], resume)
  <2>1. PathLike(IF InCollections(t.dir) THEN Append(Path[t.dir], e) ELSE Path[e])
    BY <1>0, <1>a, PathPath, CollectionPath DEF InCollections
  <2> QED
    BY <1>1, <1>5, <2>1
<1>6. CASE e \in Dir /\ Launches[e] # NoRom /\ OpenRom(t, r, Launches[e], Path[e], resume)
  BY <1>1, <1>4, <1>6, <1>a, PathPath
<1> QED
  BY <1>2, <1>3, <1>5, <1>6 DEF EntryOpen

LEMMA TurnIInv ==
  ASSUME IInv, NEW i \in Inputs, Turn(i)
  PROVE  IInv'
<1>0. Types /\ Live /\ mode = "list"
  BY DEF IInv, Turn
<1>1. PICK t : t = IF top.list = <<>> THEN top ELSE Directory(top.dir, top.list, Moved(top, i))
  OBVIOUS
<1>2. MovedTop(t)
  <2>1. CASE top.list = <<>>
    BY <1>0, <1>1, <2>1 DEF MovedTop, Types, Live, Current
  <2>2. CASE top.list # <<>>
    BY <1>0, <1>1, <2>2, MovedShows DEF Live, Current
  <2> QED
    BY <2>1, <2>2
<1>3. PICK r : r = IF (dirty \/ i.poked \/ i.v = "menu" \/ t.selected # top.selected) /\ t.list # <<>>
                   THEN ReadyFor(Selected(t), ready) ELSE ready
  OBVIOUS
<1>4. r \in Readies
  <2>1. ready \in Readies
    BY <1>0 DEF Types, Readies
  <2>2. t.list # <<>> => Selected(t) \in Entry
    BY <1>2, SelectedType DEF MovedTop
  <2> QED
    BY <1>3, <2>1, <2>2, ReadyForType
<1>5. /\ \/ PressResume(t, r)
         \/ PressA(t, r)
         \/ PressSelect(t, r)
         \/ PressB(t, r)
         \/ PressNothing(t, r, i.button)
      /\ show_version' \in BOOLEAN /\ dirty' \in BOOLEAN
  BY <1>1, <1>3 DEF Turn, NextTheme
<1>6. CASE PressResume(t, r)
  BY <1>0, <1>2, <1>4, <1>5, <1>6, OpenIInv DEF PressResume
<1>7. CASE PressA(t, r)
  BY <1>0, <1>2, <1>4, <1>5, <1>7, OpenIInv DEF PressA
<1>8. CASE PressSelect(t, r)
  <2>1. stack # <<>> /\ t.list # <<>>
    BY <1>8 DEF PressSelect
  <2>2. CASE /\ t.dir = Favourites
             /\ RemoveFavourite(Selected(t))
             /\ Stay(Directory(Favourites, favourites', FirstPage(Len(favourites'))), r)
    <3>1. favourites' \in Seq(Rom)
      BY <1>0, <2>2, RemoveFavouriteType DEF Types
    <3>2. Live' /\ top' \in Directories
      BY <1>0, <1>2, <2>2, <3>1, RemoveKeepsLive DEF Stay, MovedTop
    <3> QED
      BY <1>0, <1>4, <1>5, <2>2, <3>1, <3>2, CardAssumption DEF Stay, IInv, Types, Readies, NoLaunch
  <2>3. CASE /\ t.dir \notin {Favourites, Recents} /\ Selected(t) \in Rom
             /\ AddFavourite(Selected(t))
             /\ Stay(t, r)
    <3>1. favourites' \in Seq(Rom)
      BY <1>0, <2>3, AddFavouriteType DEF Types
    <3>2. Live'
      BY <1>0, <1>2, <2>1, <2>3, <3>1, AddKeepsLive DEF Stay
    <3> QED
      BY <1>0, <1>2, <1>4, <1>5, <2>3, <3>1, <3>2, CardAssumption
      DEF Stay, IInv, Types, Readies, NoLaunch, MovedTop
  <2> QED
    BY <1>8, <2>2, <2>3 DEF PressSelect
<1>9. CASE PressB(t, r)
  <2>1. /\ top' \in Directories /\ stack' \in Seq(Directories)
        /\ restore' \in [depth : Int, relative : Int, selected : Nat, start : Nat, end : Nat]
        /\ Live' /\ top'.list # <<>>
    BY <1>0, <1>2, <1>9, CloseKeeps DEF PressB, fileVars
  <2>2. ready' \in Readies
    <3>1. Selected(top') \in Entry
      BY <2>1, SelectedType DEF Live, Current
    <3> QED
      BY <1>4, <1>9, <3>1, ReadyForType DEF PressB
  <2> QED
    BY <1>0, <1>5, <1>9, <2>1, <2>2, CardAssumption DEF PressB, IInv, Types, Readies, NoLaunch, fileVars
<1>10. CASE PressNothing(t, r, i.button)
  <2>1. Live'
    BY <1>0, <1>2, <1>10, StayKeepsLive DEF PressNothing, Stay
  <2> QED
    BY <1>0, <1>2, <1>4, <1>5, <1>10, <2>1, CardAssumption
    DEF PressNothing, Stay, IInv, Types, Readies, NoLaunch, MovedTop
<1> QED
  BY <1>5, <1>6, <1>7, <1>8, <1>9, <1>10

\* The root as the launcher opens it first.
LEMMA RootIsLive ==
  ASSUME recents \in Seq(Rom), favourites \in Seq(Rom), stack = <<>>, restore = NoRestore,
         top = Directory(Root, List(Root), FirstPage(Len(List(Root))))
  PROVE  Live /\ top \in Directories /\ stack \in Seq(Directories) /\ top.start = 0
         /\ restore \in [depth : Int, relative : Int, selected : Nat, start : Nat, end : Nat]
<1> DEFINE list == List(Root)
           w == FirstPage(Len(list))
<1>1. list \in Seq(Entry) /\ Len(list) \in Nat
  BY ListType, CardAssumption
<1>2. w \in Windows /\ Shows(w, Len(list))
  BY <1>1, FirstPageShows
<1>3. top = Directory(Root, list, w)
  OBVIOUS
<1> HIDE DEF w
<1>4. top \in Directories /\ top.dir = Root /\ top.list = list /\ Shows(top, Len(list))
  BY <1>1, <1>2, <1>3, CardAssumption DEF Directory, Directories, Windows, Shows
<1>5. Current(top) /\ top.start = 0
  BY <1>3, <1>4 DEF Current, Directory, w, FirstPage
<1>6. stack = <<>> /\ Len(stack) = 0 /\ DOMAIN stack = {} /\ stack \in Seq(Directories)
  BY EmptySeq
<1>7. Chain
  BY <1>4, <1>6 DEF Chain
<1>8. RestoreKept
  BY <1>6 DEF RestoreKept, NoRestore
<1> QED
  BY <1>4, <1>5, <1>6, <1>7, <1>8 DEF Live, NoRestore

LEMMA InitIInv == Init => IInv
<1> SUFFICES ASSUME Init PROVE IInv
  OBVIOUS
<1>1. recents \in Seq(Rom) /\ favourites \in Seq(Rom)
  BY EmptySeq DEF Init
<1>2. Live /\ top \in Directories /\ stack \in Seq(Directories) /\ top.start = 0
      /\ restore \in [depth : Int, relative : Int, selected : Nat, start : Nat, end : Nat]
  BY <1>1, RootIsLive DEF Init
<1>3. PathLike(<<>>)
  BY EmptySeq DEF PathLike
<1> QED
  BY <1>1, <1>2, <1>3, CardAssumption DEF Init, IInv, Types, NoLaunch, Loading

LEMMA RestartIInv == IInv /\ Restart => IInv'
<1> SUFFICES ASSUME IInv, Restart PROVE IInv'
  OBVIOUS
<1>1. recents' \in Seq(Rom) /\ favourites' \in Seq(Rom)
  BY DEF Restart, IInv, Types
<1>2. stack' = <<>> /\ restore' = NoRestore
      /\ top' = Directory(Root, List(Root)', FirstPage(Len(List(Root)')))
  BY DEF Restart, List
<1>3. (Live /\ top \in Directories /\ stack \in Seq(Directories) /\ top.start = 0
      /\ restore \in [depth : Int, relative : Int, selected : Nat, start : Nat, end : Nat])'
  <2>1. (/\ recents \in Seq(Rom) /\ favourites \in Seq(Rom) /\ stack = <<>> /\ restore = NoRestore
         /\ top = Directory(Root, List(Root), FirstPage(Len(List(Root)))))'
    BY <1>1, <1>2 DEF NoRestore, Directory, FirstPage, Fit
  <2> QED
    BY <2>1, RootIsLive, PTL
<1>4. saved' \subseteq Rom
  BY CardAssumption DEF Restart, IInv, Types
<1> QED
  BY <1>1, <1>2, <1>3, <1>4 DEF Restart, IInv, Types, Loading, PathLike

\* loadLast selects a component of the path that it finds, and opens it or not.
LEMMA LoadComponentMoves ==
  ASSUME IInv, LoadComponent
  PROVE  LET e == Head(rest)
             opens == e \in Dir /\ (rest' # <<>> \/ e = Recents \/ (InCollections(e) /\ e # Collections))
         IN \/ (\A i \in DOMAIN top.list : top.list[i] # e) /\ UNCHANGED listVars
            \/ \E i \in DOMAIN top.list, t \in Directories :
                 /\ top.list[i] = e /\ MovedTop(t) /\ t.selected = i - 1 /\ t.list # <<>>
                 /\ IF opens THEN OpenDirectory(t, e) ELSE top' = t /\ UNCHANGED <<stack, restore>>
<1> DEFINE e == Head(rest)
           total == Len(top.list)
           At(i) == IF i >= top.end THEN PageTo(i, i + Rows, total) ELSE [Window(top) EXCEPT !.selected = i]
           opens == e \in Dir /\ (rest' # <<>> \/ e = Recents \/ (InCollections(e) /\ e # Collections))
<1>1. Types /\ Live /\ top.start = 0
  BY DEF LoadComponent, IInv, Loading
<1>2. ASSUME NEW i \in DOMAIN top.list, top.list[i] = e
      PROVE  LET t == Directory(top.dir, top.list, At(i - 1))
             IN t \in Directories /\ MovedTop(t) /\ t.selected = i - 1 /\ t.list # <<>>
  <2>1. total \in Nat \ {0} /\ i - 1 \in 0 .. total - 1 /\ Window(top) \in Windows /\ Shows(Window(top), total)
        /\ top.end \in Nat
    <3>1. top \in Directories /\ Shows(top, total)
      BY <1>1 DEF Types, Live, Current
    <3>2. total \in Nat \ {0} /\ i - 1 \in 0 .. total - 1
      BY <1>2, <3>1 DEF Directories
    <3> QED
      BY <3>1, <3>2 DEF Directories, Window, Windows, Shows
  <2>2. At(i - 1) \in Windows /\ Shows(At(i - 1), total)
    <3>1. CASE i - 1 >= top.end
      <4>1. top.end = Fit(total)
        BY <1>1, <2>1, RowsAssumption DEF Shows, Window, Fit
      <4>2. total > Rows
        BY <2>1, <3>1, <4>1, RowsAssumption DEF Fit
      <4> QED
        BY <2>1, <3>1, <4>2, PageToShows
    <3>2. CASE ~(i - 1 >= top.end)
      <4>1. At(i - 1) = [selected |-> i - 1, start |-> 0, end |-> top.end]
        BY <1>1, <3>2 DEF Window
      <4>2. top.end = Fit(total) /\ top.end <= total
        BY <1>1, <2>1, RowsAssumption DEF Shows, Window, Fit
      <4>3. i - 1 < top.end
        BY <2>1, <3>2
      <4> HIDE DEF At, total
      <4> QED
        BY <2>1, <4>1, <4>2, <4>3, RowsAssumption DEF Windows, Shows, Fit
    <3> QED
      BY <3>1, <3>2
  <2>3. (At(i - 1)).selected = i - 1
    BY <2>1 DEF PageTo, Window, Windows
  <2> HIDE DEF At
  <2> QED
    BY <1>1, <2>1, <2>2, <2>3 DEF MovedTop, Directory, Directories, Windows, Shows, Types
<1> HIDE DEF At
<1> QED
  BY <1>2 DEF LoadComponent, At

LEMMA LoadComponentIInv == IInv /\ LoadComponent => IInv'
<1> SUFFICES ASSUME IInv, LoadComponent PROVE IInv'
  OBVIOUS
<1> DEFINE e == Head(rest)
<1>1. Types /\ Live /\ mode = "load" /\ UNCHANGED <<mode, recents, favourites, saved, ready, dirty, show_version, launched>>
  BY DEF LoadComponent, fileVars, IInv
<1>a. rest # <<>> /\ restore = NoRestore /\ top.start = 0
  BY DEF LoadComponent, IInv, Loading
<1>b. PathLike(last') /\ PathLike(rest') /\ (rest' # <<>> => e \in Dir)
  <2>1. rest \in Seq(Entry) /\ rest' = Tail(rest) /\ last' = last
    BY <1>1 DEF LoadComponent, Types, PathLike
  <2>2. /\ rest' \in Seq(Entry) /\ Len(rest') = Len(rest) - 1 /\ e = rest[1]
        /\ \A i \in 1 .. Len(rest') : rest'[i] = rest[i + 1]
    BY <1>a, <2>1, HeadTailProperties
  <2>3. PathLike(rest')
    BY <1>1, <2>1, <2>2 DEF Types, PathLike
  <2>4. rest' # <<>> => Len(rest) > 1
    BY <2>1, <2>2
  <2>5. PathLike(last')
    BY <1>1, <2>1 DEF Types
  <2>6. rest' # <<>> => e \in Dir
    BY <1>1, <2>1, <2>2, <2>4 DEF Types, PathLike
  <2> QED
    BY <2>3, <2>5, <2>6
<1>2. CASE UNCHANGED listVars
  <2>1. Types'
    BY <1>1, <1>2, <1>b DEF Types, listVars
  <2>2. UNCHANGED <<stack, top, restore, recents, favourites>>
    BY <1>1, <1>2 DEF listVars
  <2>3. Live'
    BY <1>1, <2>2, UnchangedKeepsLive
  <2>4. Loading'
    BY <2>2, <1>a DEF Loading, NoRestore
  <2> QED
    BY <1>1, <2>1, <2>3, <2>4 DEF IInv
<1>3. ASSUME NEW i \in DOMAIN top.list, top.list[i] = e, NEW t, MovedTop(t), t.selected = i - 1, t.list # <<>>
      PROVE  /\ (e \in Dir /\ OpenDirectory(t, e)) => IInv'
             /\ (rest' = <<>> /\ top' = t /\ UNCHANGED <<stack, restore>>) => IInv'
  <2>1. Selected(t) = e
    <3>1. (i - 1) + 1 = i
      BY <1>1, <1>3 DEF Types, Directories
    <3> QED
      BY <1>3, <3>1 DEF MovedTop, Selected
  <2>2. ASSUME e \in Dir, OpenDirectory(t, e) PROVE IInv'
    <3>1. /\ top' \in Directories /\ stack' \in Seq(Directories) /\ restore' = restore
          /\ Live'
      BY <1>1, <1>3, <2>1, <2>2, OpenKeeps
    <3>2. top'.start = 0
      BY <1>1, <1>a, <2>2 DEF OpenDirectory, Opened, NoRestore, Directory, FirstPage, Types
    <3> QED
      BY <1>1, <1>a, <1>b, <3>1, <3>2 DEF IInv, Types, Loading
  <2>3. ASSUME top' = t, UNCHANGED <<stack, restore>>, rest' = <<>> PROVE IInv'
    <3>1. Live'
      BY <1>1, <1>3, <2>3, StayKeepsLive
    <3> QED
      BY <1>1, <1>a, <1>b, <1>3, <2>3, <3>1 DEF IInv, Types, MovedTop, Loading
  <2> QED
    BY <2>2, <2>3
<1> QED
  BY <1>b, <1>2, <1>3, LoadComponentMoves

LEMMA NextIInv == IInv /\ [Next]_vars => IInv'
<1> SUFFICES ASSUME IInv, [Next]_vars PROVE IInv'
  OBVIOUS
<1>1. CASE \E i \in Inputs : Turn(i)
  BY <1>1, TurnIInv
<1>2. CASE \E i \in Inputs : VersionTurn(i)
  <2>1. /\ mode = "list" /\ dirty' \in BOOLEAN /\ show_version' \in BOOLEAN
        /\ UNCHANGED <<mode, stack, top, restore, recents, favourites, saved, ready, last, rest, launched>>
    BY <1>2 DEF VersionTurn, NextTheme, listVars, fileVars
  <2>2. Live'
    BY <2>1, UnchangedKeepsLive DEF IInv
  <2>3. Types'
    BY <2>1 DEF IInv, Types, PathLike
  <2> QED
    BY <2>1, <2>2, <2>3 DEF IInv
<1>3. CASE HdmiRestart
  <2>1. Selected(top) \in Entry \ {Root}
    BY <1>3, TopIsMoved, SelectedInner DEF HdmiRestart, IInv, Leaving
  <2>2. PathLike(last')
    BY <1>3, <2>1, PathPath, SaveLastPath DEF HdmiRestart, IInv
  <2> QED
    BY <1>3, <2>2 DEF HdmiRestart, IInv, Types, Leaving, Selected, PathLike, listVars, fileVars
<1>4. CASE Crash
  BY <1>4 DEF Crash, IInv, Types, PathLike, listVars, fileVars
<1>5. CASE Restart
  BY <1>5, RestartIInv
<1>6. CASE LoadComponent
  BY <1>6, LoadComponentIInv
<1>7. CASE Loaded
  <2>1. UNCHANGED <<stack, top, restore, recents, favourites>> /\ Types /\ Live
    BY <1>7 DEF Loaded, IInv, listVars, fileVars
  <2>2. Live'
    BY <2>1, UnchangedKeepsLive
  <2> QED
    BY <1>7, <2>2 DEF Loaded, IInv, Types, PathLike, listVars, fileVars
<1>8. CASE UNCHANGED vars
  <2>1. Live => Live'
    BY <1>8, UnchangedKeepsLive DEF vars, IInv, listVars, fileVars
  <2>2. Types' /\ (Loading => Loading') /\ (Leaving => Leaving') /\ mode' = mode
    BY <1>8 DEF vars, IInv, Types, PathLike, Loading, Leaving, Selected, listVars, fileVars
  <2> QED
    BY <2>1, <2>2 DEF IInv
<1> QED
  BY <1>1, <1>2, <1>3, <1>4, <1>5, <1>6, <1>7, <1>8 DEF Next

\* The invariant of the launcher's lists.
THEOREM MenuInvariant == Spec => []IInv
<1> QED
  BY InitIInv, NextIInv, PTL DEF Spec

\* Rows are never negative and what lists hold keeps its kind.
THEOREM MenuTypeCorrect == Spec => []TypeOK
<1>1. IInv => TypeOK
  BY IInvImpliesProperties
<1> QED
  BY <1>1, MenuInvariant, PTL

\* For every card, every screen height and every sequence of buttons, HDMI
\* changes, crashes and restarts: every open directory shows its selection in a
\* full window of what it holds.
THEOREM SelectionIsShown == Spec => []ShowsSelection
<1>1. IInv => ShowsSelection
  BY IInvImpliesProperties
<1> QED
  BY <1>1, MenuInvariant, PTL

\* The position openDirectory restores fits the directory it opens.
THEOREM RestoredPositionFits == Spec => []RestoreFits
<1>1. IInv => RestoreFits
  BY IInvImpliesProperties
<1> QED
  BY <1>1, MenuInvariant, PTL
----------------------------------------------------------------------------
(* Recents *)

\* addRecent's list is no longer than it may be, has every game once and the
\* new one first.
LEMMA AddRecentOrder ==
  ASSUME recents \in Seq(Rom), Len(recents) <= MAX_RECENTS,
         \A i, j \in DOMAIN recents : i # j => recents[i] # recents[j],
         NEW g \in Rom
  PROVE  /\ Len(AddRecent(g)) <= MAX_RECENTS
         /\ \A i, j \in DOMAIN AddRecent(g) : i # j => AddRecent(g)[i] # AddRecent(g)[j]
         /\ AddRecent(g) # <<>> /\ AddRecent(g)[1] = g
<1> DEFINE at == {i \in DOMAIN recents : recents[i] = g}
           n == IF Len(recents) < MAX_RECENTS THEN Len(recents) ELSE MAX_RECENTS - 1
           tail == IF at = {} THEN SubSeq(recents, 1, n) ELSE RemoveAt(recents, CHOOSE i \in at : TRUE)
<1>1. n \in 0 .. Len(recents) /\ n + 1 <= MAX_RECENTS /\ DOMAIN recents = 1 .. Len(recents)
  BY RowsAssumption
\* What is kept: recents' other games in their order, with room for the new one.
<1>2. /\ tail \in Seq(Rom) /\ Len(tail) + 1 <= MAX_RECENTS
      /\ \A i \in 1 .. Len(tail) : tail[i] # g
      /\ \A i, j \in 1 .. Len(tail) : i # j => tail[i] # tail[j]
  <2>1. CASE at = {}
    <3>1. tail = SubSeq(recents, 1, n) /\ tail \in Seq(Rom) /\ Len(tail) = n
          /\ \A i \in 1 .. n : tail[i] = recents[i]
      BY <2>1, <1>1, SubSeqProperties
    <3>2. \A i \in 1 .. n : i \in DOMAIN recents
      BY <1>1
    <3> HIDE DEF n, tail
    <3> QED
      BY <1>1, <2>1, <3>1, <3>2
  <2>2. CASE at # {}
    <3>1. PICK k \in DOMAIN recents : recents[k] = g /\ tail = RemoveAt(recents, k)
      BY <2>2
    <3>2. DEFINE a == SubSeq(recents, 1, k - 1)
                 b == SubSeq(recents, k + 1, Len(recents))
    <3>3. a \in Seq(Rom) /\ Len(a) = k - 1 /\ \A i \in 1 .. k - 1 : a[i] = recents[i]
      BY <1>1, SubSeqProperties
    <3>4. b \in Seq(Rom) /\ Len(b) = Len(recents) - k
          /\ \A i \in 1 .. Len(recents) - k : b[i] = recents[k + i]
      BY <1>1, SubSeqProperties
    <3>5. tail = a \o b
      BY <3>1 DEF RemoveAt
    <3> HIDE DEF a, b, n, tail
    <3>6. tail \in Seq(Rom) /\ Len(tail) = Len(recents) - 1
          /\ \A i \in 1 .. Len(tail) : tail[i] = IF i < k THEN recents[i] ELSE recents[i + 1]
      <4>1. /\ tail \in Seq(Rom) /\ Len(tail) = Len(a) + Len(b)
            /\ \A i \in 1 .. Len(a) + Len(b) : tail[i] = IF i <= Len(a) THEN a[i] ELSE b[i - Len(a)]
        BY <3>3, <3>4, <3>5, ConcatProperties
      <4>2. \A i \in 1 .. Len(recents) - 1 : i < k => tail[i] = recents[i]
        BY <1>1, <3>1, <3>3, <3>4, <4>1
      <4>3. ASSUME NEW i \in 1 .. Len(recents) - 1, ~(i < k) PROVE tail[i] = recents[i + 1]
        <5>1. i - (k - 1) \in 1 .. Len(recents) - k /\ ~(i <= k - 1) /\ k + (i - (k - 1)) = i + 1
              /\ i \in 1 .. k - 1 + (Len(recents) - k)
          BY <1>1, <3>1, <4>3
        <5>2. tail[i] = b[i - (k - 1)]
          BY <5>1, <4>1, <3>3, <3>4
        <5> QED
          BY <5>1, <5>2, <3>4
      <4>4. Len(a) + Len(b) = Len(recents) - 1
        BY <1>1, <3>1, <3>3, <3>4
      <4> QED
        BY <4>1, <4>2, <4>3, <4>4
    <3>7. \A i \in 1 .. Len(tail) : i \in DOMAIN recents /\ i + 1 \in DOMAIN recents
      BY <1>1, <3>6
    <3>8. \A i \in DOMAIN recents : i # k => recents[i] # g
      BY <3>1
    <3>9. ASSUME NEW i \in 1 .. Len(tail) PROVE tail[i] # g
      <4>1. CASE i < k
        <5>1. i # k /\ i \in DOMAIN recents /\ tail[i] = recents[i]
          BY <4>1, <3>6, <3>7, <1>1
        <5> QED
          BY <5>1, <3>8
      <4>2. CASE ~(i < k)
        <5>1. i + 1 # k /\ i + 1 \in DOMAIN recents
          BY <4>2, <3>7, <1>1
        <5> QED
          BY <4>2, <5>1, <3>6, <3>8
      <4> QED
        BY <4>1, <4>2
    <3>10. ASSUME NEW i \in 1 .. Len(tail), NEW j \in 1 .. Len(tail), i # j
           PROVE  tail[i] # tail[j]
      <4> DEFINE p == IF i < k THEN i ELSE i + 1
                 q == IF j < k THEN j ELSE j + 1
      <4>1. p \in DOMAIN recents /\ q \in DOMAIN recents /\ p # q
        BY <1>1, <3>1, <3>7, <3>10
      <4>2. tail[i] = recents[p] /\ tail[j] = recents[q]
        BY <3>6
      <4> QED
        BY <4>1, <4>2
    <3> QED
      BY <1>1, <3>6, <3>9, <3>10
  <2> QED
    BY <2>1, <2>2
<1>3. AddRecent(g) = <<g>> \o tail
  BY DEF AddRecent
<1> HIDE DEF tail
<1>4. /\ AddRecent(g) \in Seq(Rom) /\ Len(AddRecent(g)) = Len(tail) + 1
      /\ AddRecent(g) # <<>> /\ AddRecent(g)[1] = g
      /\ \A i \in 2 .. Len(tail) + 1 : AddRecent(g)[i] = tail[i - 1]
  <2>1. Len(<<g>>) = 1 /\ <<g>> \in Seq(Rom) /\ <<g>>[1] = g
    OBVIOUS
  <2> QED
    BY <1>2, <1>3, <2>1, ConcatProperties
<1>5. ASSUME NEW i \in DOMAIN AddRecent(g), NEW j \in DOMAIN AddRecent(g), i # j
      PROVE  AddRecent(g)[i] # AddRecent(g)[j]
  <2> DEFINE s == AddRecent(g)
             m == Len(tail)
  <2>1. m \in Nat /\ i \in 1 .. m + 1 /\ j \in 1 .. m + 1
    BY <1>2, <1>4
  <2>2. \A x \in 2 .. m + 1 : x - 1 \in 1 .. m /\ s[x] = tail[x - 1]
    BY <1>4, <2>1
  <2> HIDE DEF s, m
  <2>3. s[1] = g
    BY <1>4 DEF s
  <2>4. \A x \in 2 .. m + 1 : s[x] # g
    BY <1>2, <2>2 DEF m
  <2>5. CASE i = 1
    BY <2>1, <2>3, <2>4, <2>5, <1>5 DEF s
  <2>6. CASE j = 1
    BY <2>1, <2>3, <2>4, <2>6, <1>5 DEF s
  <2>7. CASE i # 1 /\ j # 1
    <3>1. i \in 2 .. m + 1 /\ j \in 2 .. m + 1 /\ i - 1 # j - 1
      BY <2>1, <2>7, <1>5
    <3> QED
      BY <3>1, <2>2, <1>2 DEF s, m
  <2> QED
    BY <2>5, <2>6, <2>7
<1> QED
  BY <1>2, <1>4, <1>5

\* One turn changes recents only when it starts a rom.
LEMMA TurnRecents ==
  ASSUME NEW i \in Inputs, Turn(i)
  PROVE  \/ recents' = recents /\ mode' = "list"
         \/ recents' = recents /\ launched'.entry \in Pak
         \/ \E g \in Rom : recents' = AddRecent(g) /\ launched'.entry = g
<1>1. PICK t, r :
        \/ PressResume(t, r)
        \/ PressA(t, r)
        \/ PressSelect(t, r)
        \/ PressB(t, r)
        \/ PressNothing(t, r, i.button)
  BY DEF Turn
<1>2. mode = "list"
  BY DEF Turn
<1>3. ASSUME NEW resume \in BOOLEAN, EntryOpen(t, r, Selected(t), resume)
      PROVE  \/ recents' = recents /\ mode' = "list"
             \/ recents' = recents /\ launched'.entry \in Pak
             \/ \E g \in Rom : recents' = AddRecent(g) /\ launched'.entry = g
  <2> DEFINE e == Selected(t)
  <2>1. ASSUME NEW g \in Rom, NEW path, OpenRom(t, r, g, path, resume)
        PROVE  recents' = AddRecent(g) /\ launched'.entry = g
    BY <2>1 DEF OpenRom, Leave
  <2>2. CASE e \in Pak /\ OpenPak(t, r, e)
    BY <2>2 DEF OpenPak, Leave
  <2>3. CASE OpenDirectory(t, e) /\ UNCHANGED <<mode, fileVars, last, rest>>
    BY <1>2, <2>3 DEF fileVars
  <2>4. \A d \in Dir : Launches[d] # NoRom => Launches[d] \in Rom
    BY CardAssumption
  <2>5. CASE e \in Rom
             /\ OpenRom(t, r, e, IF InCollections(t.dir) THEN Append(Path[t.dir], e) ELSE Path[e], resume)
    BY <2>1, <2>5
  <2>6. CASE e \in Dir /\ Launches[e] # NoRom /\ OpenRom(t, r, Launches[e], Path[e], resume)
    BY <2>1, <2>4, <2>6
  <2> QED
    BY <1>3, <2>2, <2>3, <2>5, <2>6 DEF EntryOpen
<1>4. CASE PressResume(t, r)
  BY <1>3, <1>4 DEF PressResume
<1>5. CASE PressA(t, r)
  BY <1>3, <1>5 DEF PressA
<1>6. CASE PressSelect(t, r) \/ PressNothing(t, r, i.button)
  BY <1>2, <1>6 DEF PressSelect, PressNothing, Stay
<1>7. CASE PressB(t, r)
  BY <1>2, <1>7 DEF PressB, fileVars
<1> QED
  BY <1>1, <1>4, <1>5, <1>6, <1>7

LEMMA NextRecents == IInv /\ RecentsInOrder /\ [Next]_vars => RecentsInOrder'
<1> SUFFICES ASSUME IInv, RecentsInOrder, [Next]_vars PROVE RecentsInOrder'
  OBVIOUS
<1>1. ASSUME recents' = recents, mode' = "leaving" => launched'.entry \in Pak PROVE RecentsInOrder'
  BY <1>1, CardAssumption DEF RecentsInOrder
<1>2. ASSUME NEW i \in Inputs, Turn(i) PROVE RecentsInOrder'
  <2>1. ASSUME NEW g \in Rom, recents' = AddRecent(g), launched'.entry = g PROVE RecentsInOrder'
    BY <2>1, AddRecentOrder DEF IInv, Types, RecentsInOrder
  <2> QED
    BY <1>1, <1>2, <2>1, TurnRecents
<1>3. CASE HdmiRestart
  BY <1>3 DEF HdmiRestart, RecentsInOrder, fileVars
<1>4. CASE \E i \in Inputs : VersionTurn(i)
  BY <1>1, <1>4 DEF VersionTurn, fileVars
<1>5. CASE Crash \/ Restart \/ LoadComponent \/ Loaded
  BY <1>1, <1>5 DEF Crash, Restart, LoadComponent, Loaded, fileVars
<1>6. CASE UNCHANGED vars
  BY <1>6 DEF vars, fileVars, RecentsInOrder
<1> QED
  BY <1>2, <1>3, <1>4, <1>5, <1>6 DEF Next

\* Recents are the last games started, each once, newest first.
THEOREM RecentsAreInOrder == Spec => []RecentsInOrder
<1>1. Init => RecentsInOrder
  BY RowsAssumption DEF Init, RecentsInOrder
<1> QED
  BY <1>1, NextRecents, MenuInvariant, PTL DEF Spec
----------------------------------------------------------------------------
(* RESUME *)

\* r tells of t's selected game, unless it is the first of the favourites.
Tells(t, r) ==
  (r.can /\ ~(t.dir = Favourites /\ t.selected = 0)) =>
    t.list # <<>> /\ r.game \in saved /\ Game(Selected(t)) = r.game

Offer ==
  /\ mode = "load" => ~ready.can
  /\ mode = "list" => Tells(top, ready)

LEMMA ReadyForTells ==
  ASSUME Types, NEW t, t.list # <<>>, NEW r
  PROVE  Tells(t, ReadyFor(Selected(t), r))
<1>1. NoRom \notin saved
  BY CardAssumption DEF Types, Entry
<1> QED
  BY <1>1 DEF Tells, ReadyFor

\* A directory is opened only when no game was offered in its place.
LEMMA OpenTells ==
  ASSUME Types, Live, mode = "list", NEW t, MovedTop(t), t.list # <<>>, NEW r \in Readies, Tells(t, r),
         NEW resume \in BOOLEAN, EntryOpen(t, r, Selected(t), resume)
  PROVE  Offer'
<1> DEFINE e == Selected(t)
<1>1. CASE mode' = "leaving"
  BY <1>1 DEF Offer
<1>2. CASE /\ e \in Dir /\ Launches[e] = NoRom
           /\ OpenDirectory(t, e)
           /\ ready' = IF ~resume /\ top'.list # <<>> THEN ReadyFor(Selected(top'), r) ELSE r
           /\ launched' = NoLaunch
           /\ UNCHANGED <<mode, fileVars, last, rest>>
  <2>1. e \notin Rom /\ NoRom \notin saved
    BY <1>2, CardAssumption DEF Types, Entry
  <2>2. ~(t.dir = Favourites)
    <3>1. t \in Directories /\ t.list = List(t.dir) /\ Shows(t, Len(t.list))
      BY DEF MovedTop, Live, Current
    <3>2. t.dir \in Dir /\ e = List(t.dir)[t.selected + 1] /\ t.selected + 1 \in DOMAIN List(t.dir)
      BY <3>1, RowDomain DEF Selected, Directories
    <3> QED
      BY <2>1, <3>2, ListType DEF Types
  <2>3. Game(e) = NoRom
    BY <1>2, <2>1 DEF Game
  <2>4. ~r.can
    BY <2>1, <2>2, <2>3 DEF Tells
  <2>5. saved' = saved /\ mode' = "list"
    BY <1>2 DEF fileVars
  <2>6. CASE ~resume /\ top'.list # <<>>
    <3>1. Tells(top', ReadyFor(Selected(top'), r))
      BY <2>6, ReadyForTells
    <3> QED
      BY <1>2, <2>5, <2>6, <3>1 DEF Offer, Tells, Selected, Game
  <2>7. CASE ~(~resume /\ top'.list # <<>>)
    BY <1>2, <2>4, <2>5, <2>7 DEF Offer, Tells
  <2> QED
    BY <2>6, <2>7
<1> QED
  BY <1>1, <1>2 DEF EntryOpen, OpenRom, OpenPak, Leave

LEMMA TurnOffer ==
  ASSUME IInv, Offer, NEW i \in Inputs, Turn(i)
  PROVE  Offer'
<1>0. Types /\ Live /\ mode = "list"
  BY DEF IInv, Turn
<1>1. PICK t : t = IF top.list = <<>> THEN top ELSE Directory(top.dir, top.list, Moved(top, i))
  OBVIOUS
<1>2. MovedTop(t)
  <2>1. CASE top.list = <<>>
    BY <1>0, <1>1, <2>1 DEF MovedTop, Types, Live, Current
  <2>2. CASE top.list # <<>>
    BY <1>0, <1>1, <2>2, MovedShows DEF Live, Current
  <2> QED
    BY <2>1, <2>2
<1>3. PICK r : r = IF (dirty \/ i.poked \/ i.v = "menu" \/ t.selected # top.selected) /\ t.list # <<>>
                   THEN ReadyFor(Selected(t), ready) ELSE ready
  OBVIOUS
<1>4. r \in Readies
  <2>1. ready \in Readies
    BY <1>0 DEF Types, Readies
  <2>2. t.list # <<>> => Selected(t) \in Entry
    BY <1>2, SelectedType DEF MovedTop
  <2> QED
    BY <1>3, <2>1, <2>2, ReadyForType
<1>5. \/ PressResume(t, r)
      \/ PressA(t, r)
      \/ PressSelect(t, r)
      \/ PressB(t, r)
      \/ PressNothing(t, r, i.button)
  BY <1>1, <1>3 DEF Turn
<1>6. Tells(t, r)
  <2>1. CASE (dirty \/ i.poked \/ i.v = "menu" \/ t.selected # top.selected) /\ t.list # <<>>
    BY <1>0, <1>3, <2>1, ReadyForTells
  <2>2. CASE r = ready /\ (t.list = <<>> \/ t.selected = top.selected)
    <3>1. t.selected = top.selected /\ t.list = top.list /\ t.dir = top.dir
      BY <1>1, <1>2, <2>2 DEF MovedTop
    <3> QED
      BY <1>0, <2>2, <3>1 DEF Offer, Tells, Selected
  <2> QED
    BY <1>3, <2>1, <2>2
<1>7. CASE PressResume(t, r)
  BY <1>0, <1>2, <1>4, <1>6, <1>7, OpenTells DEF PressResume
<1>8. CASE PressA(t, r)
  BY <1>0, <1>2, <1>4, <1>6, <1>8, OpenTells DEF PressA
<1>9. CASE PressSelect(t, r)
  <2>1. CASE Stay(Directory(Favourites, favourites', FirstPage(Len(favourites'))), r)
    BY <1>0, <2>1 DEF Stay, Directory, FirstPage, Offer, Tells
  <2>2. CASE Stay(t, r)
    BY <1>0, <1>6, <2>2 DEF Stay, Offer, Tells, Selected, Game
  <2> QED
    BY <1>9, <2>1, <2>2 DEF PressSelect
<1>10. CASE PressB(t, r)
  <2>1. top'.list # <<>>
    BY <1>0, <1>2, <1>10, CloseKeeps DEF PressB, fileVars
  <2>2. Tells(top', ReadyFor(Selected(top'), r))
    BY <1>0, <2>1, ReadyForTells
  <2>3. mode' = "list" /\ saved' = saved /\ ready' = ReadyFor(Selected(top'), r)
    BY <1>0, <1>10, <2>1 DEF PressB, fileVars
  <2> QED
    BY <2>2, <2>3 DEF Offer, Tells, Selected, Game
<1>11. CASE PressNothing(t, r, i.button)
  BY <1>0, <1>6, <1>11 DEF PressNothing, Stay, Offer, Tells, Selected, Game
<1> QED
  BY <1>5, <1>7, <1>8, <1>9, <1>10, <1>11

LEMMA NextOffer == IInv /\ Offer /\ [Next]_vars => Offer'
<1> SUFFICES ASSUME IInv, Offer, [Next]_vars PROVE Offer'
  OBVIOUS
<1>1. CASE \E i \in Inputs : Turn(i)
  BY <1>1, TurnOffer
<1>2. ASSUME UNCHANGED <<top, ready, saved>>, mode' = mode PROVE Offer'
  BY <1>2 DEF Offer, Tells, Selected, Game
<1>3. CASE \E i \in Inputs : VersionTurn(i)
  BY <1>2, <1>3 DEF VersionTurn, listVars, fileVars
<1>4. CASE HdmiRestart \/ Crash
  BY <1>4 DEF HdmiRestart, Crash, Offer
<1>5. CASE Restart
  BY <1>5 DEF Restart, Offer
<1>6. CASE LoadComponent
  BY <1>6 DEF LoadComponent, Offer
<1>7. CASE Loaded
  BY <1>7 DEF Loaded, Offer, Tells
<1>8. CASE UNCHANGED vars
  BY <1>2, <1>8 DEF vars, listVars, fileVars
<1> QED
  BY <1>1, <1>3, <1>4, <1>5, <1>6, <1>7, <1>8 DEF Next

\* RESUME is offered for the selected game and only if it has a slot file, but
\* for the first favourite after another was removed.
THEOREM ResumeIsOfSelected == Spec => []ResumeIsForSelected
<1>1. Init => Offer
  BY DEF Init, Offer
<1>2. Offer => ResumeIsForSelected
  BY DEF Offer, Tells, ResumeIsForSelected
<1> QED
  BY <1>1, <1>2, NextOffer, MenuInvariant, PTL DEF Spec
----------------------------------------------------------------------------
(* The way back to a game *)

\* What a folder or the root lists whatever was played.
Lists(d) == Range(IF d = Root THEN Systems ELSE Files[d])

\* p leads down from d, and its last component is listed in ListOf(d, p).
Leads(d, p) ==
  /\ d \in Inner \cup {Root} /\ p \in Seq(Inner) /\ p # <<>> /\ p[1] \in Lists(d)
  /\ \A i \in 2 .. Len(p) : p[i - 1] \in Dir /\ p[i] \in Lists(p[i - 1])
ListOf(d, p) == IF Len(p) = 1 THEN d ELSE p[Len(p) - 1]

\* p leads down from d but for a first component that is not listed: the folder
\* of the collections, when the root lists them themselves.
Skips(d, p) == Len(p) > 1 /\ d = Root /\ p[1] = Collections /\ Collections \notin Lists(Root) /\ Leads(d, Tail(p))

Started(e) == e = launched.entry \/ Game(e) = launched.entry
From(d) ==
  launched.from \in {d, Favourites} \/ (launched.entry \in Pak /\ InCollections(launched.from))

\* loadLast comes back to what was started when it follows p from d.
WayBack(d, p) ==
  \/ /\ p = <<Recents>> /\ d = Root
     /\ recents # <<>> /\ recents[1] = launched.entry /\ launched.from = Recents
  \/ Leads(d, p) /\ Started(p[Len(p)]) /\ From(ListOf(d, p))
  \/ Skips(d, p) /\ Started(p[Len(p)]) /\ From(ListOf(d, Tail(p)))

Arrived == top.list # <<>> /\ Started(Selected(top)) /\ From(top.dir)

Return ==
  (launched.entry # NoRom /\ ~launched.hdmi) =>
    /\ launched.entry \in Rom \cup Pak
    /\ mode = "leaving" => WayBack(Root, last)
    /\ mode = "load" => IF rest = <<>> THEN Arrived ELSE WayBack(top.dir, rest)
    /\ mode = "list" => Arrived
    /\ mode # "ended"

LEMMA ListsType ==
  ASSUME NEW d \in (Dir \cap Inner) \cup {Root}, NEW e \in Lists(d)
  PROVE  e \in Inner
<1>1. (IF d = Root THEN Systems ELSE Files[d]) \in Seq(Inner)
  BY CardAssumption DEF Inner
<1> QED
  BY <1>1 DEF Lists, Range

\* What the launcher shows of a folder or the root.
LEMMA ListHolds ==
  ASSUME Types, NEW d \in (Dir \cap Inner) \cup {Root}
  PROVE  /\ \A e \in Lists(d) : \E i \in DOMAIN List(d) : List(d)[i] = e
         /\ \A i \in DOMAIN List(d) :
              List(d)[i] \in Lists(d) \/ (d = Root /\ List(d)[i] \in {Recents, Favourites})
         /\ (d = Root /\ recents # <<>>) => \E i \in DOMAIN List(d) : List(d)[i] = Recents
<1>1. CASE d # Root
  BY <1>1, CardAssumption DEF Lists, List, Range, Inner
<1>2. CASE d = Root
  <2> DEFINE front == IF recents = <<>> THEN <<>> ELSE <<Recents>>
             rest1 == front \o <<Favourites>>
  <2>1. List(d) = rest1 \o Systems /\ Lists(d) = Range(Systems)
    BY <1>2 DEF List, Lists
  <2>2. Systems \in Seq(Inner) /\ DOMAIN Systems = 1 .. Len(Systems)
    BY CardAssumption
  <2>3. CASE recents = <<>>
    <3>1. List(d) = <<Favourites>> \o Systems
      BY <2>1, <2>3
    <3>2. /\ DOMAIN List(d) = 1 .. Len(Systems) + 1 /\ List(d)[1] = Favourites
          /\ \A i \in 2 .. Len(Systems) + 1 : List(d)[i] = Systems[i - 1]
      BY <2>2, <3>1
    <3>3. ASSUME NEW e \in Range(Systems) PROVE \E i \in DOMAIN List(d) : List(d)[i] = e
      <4>1. PICK k \in 1 .. Len(Systems) : Systems[k] = e
        BY <2>2 DEF Range
      <4>2. k + 1 \in 2 .. Len(Systems) + 1 /\ k + 1 \in DOMAIN List(d) /\ (k + 1) - 1 = k
        BY <2>2, <3>2
      <4>3. List(d)[k + 1] = Systems[k]
        BY <3>2, <4>2
      <4> QED
        BY <4>1, <4>2, <4>3
    <3>4. ASSUME NEW i \in DOMAIN List(d) PROVE List(d)[i] \in Range(Systems) \cup {Favourites}
      <4>1. i = 1 \/ (i \in 2 .. Len(Systems) + 1 /\ i - 1 \in 1 .. Len(Systems))
        BY <3>2, <2>2
      <4> QED
        BY <4>1, <3>2, <2>2 DEF Range
    <3> QED
      BY <1>2, <2>1, <2>3, <3>3, <3>4
  <2>4. CASE recents # <<>>
    <3>1. List(d) = (<<Recents>> \o <<Favourites>>) \o Systems
      BY <2>1, <2>4
    <3>2. /\ DOMAIN List(d) = 1 .. Len(Systems) + 2 /\ List(d)[1] = Recents /\ List(d)[2] = Favourites
          /\ \A i \in 3 .. Len(Systems) + 2 : List(d)[i] = Systems[i - 2]
      BY <2>2, <3>1
    <3>3. ASSUME NEW e \in Range(Systems) PROVE \E i \in DOMAIN List(d) : List(d)[i] = e
      <4>1. PICK k \in 1 .. Len(Systems) : Systems[k] = e
        BY <2>2 DEF Range
      <4>2. k + 2 \in 3 .. Len(Systems) + 2 /\ k + 2 \in DOMAIN List(d) /\ (k + 2) - 2 = k
        BY <2>2, <3>2
      <4>3. List(d)[k + 2] = Systems[k]
        BY <3>2, <4>2
      <4> QED
        BY <4>1, <4>2, <4>3
    <3>4. ASSUME NEW i \in DOMAIN List(d) PROVE List(d)[i] \in Range(Systems) \cup {Recents, Favourites}
      <4>1. i = 1 \/ i = 2 \/ (i \in 3 .. Len(Systems) + 2 /\ i - 2 \in 1 .. Len(Systems))
        BY <3>2, <2>2
      <4> QED
        BY <4>1, <3>2, <2>2 DEF Range
    <3>5. 1 \in DOMAIN List(d)
      BY <3>2, <2>2
    <3>6. \A e \in Lists(d) : \E i \in DOMAIN List(d) : List(d)[i] = e
      BY <2>1, <3>3
    <3>7. \A i \in DOMAIN List(d) :
            List(d)[i] \in Lists(d) \/ (d = Root /\ List(d)[i] \in {Recents, Favourites})
      BY <1>2, <2>1, <3>4
    <3> QED
      BY <3>2, <3>5, <3>6, <3>7
  <2> QED
    BY <2>3, <2>4
<1> QED
  BY <1>1, <1>2

\* p leads from the root to e, which d lists.
WayTo(p, d, e) ==
  /\ p # <<>> /\ p[Len(p)] = e
  /\ \/ Leads(Root, p) /\ d = ListOf(Root, p)
     \/ Skips(Root, p) /\ d = ListOf(Root, Tail(p))

\* The path of every entry is a way to it.
LEMMA PathWay ==
  ASSUME NEW e \in Inner \ {Collections}
  PROVE  \E d : WayTo(Path[e], d, e)
<1> DEFINE p == Path[e]
           n == Len(p)
<1>1. /\ p \in Seq(Inner) /\ p # <<>> /\ p[n] = e
      /\ \/ p[1] \in Range(Systems)
         \/ p[1] = Collections /\ Collections \notin Range(Systems) /\ n > 1 /\ p[2] \in Range(Systems)
      /\ \A i \in 2 .. n : p[i] \in Range(Files[p[i - 1]])
  BY WayAssumption
<1>2. n \in Nat \ {0} /\ \A i \in 1 .. n : p[i] \in Inner /\ (i < n => p[i] \in Dir)
  <2>1. \A i \in 1 .. n : i < n => p[i] \in Dir
    BY CardAssumption DEF Inner
  <2> QED
    BY <1>1, <2>1
<1> HIDE DEF p
<1>3. \A i \in 2 .. n : p[i - 1] \in Dir /\ p[i] \in Lists(p[i - 1])
  <2> SUFFICES ASSUME NEW i \in 2 .. n PROVE p[i - 1] \in Dir /\ p[i] \in Lists(p[i - 1])
    OBVIOUS
  <2>1. i - 1 \in 1 .. n /\ i - 1 < n
    BY <1>2
  <2>2. p[i - 1] \in Dir /\ p[i - 1] # Root
    BY <1>2, <2>1 DEF Inner
  <2> QED
    BY <1>1, <2>2 DEF Lists
<1>4. CASE p[1] \in Range(Systems)
  <2>1. Leads(Root, p)
    BY <1>1, <1>3, <1>4 DEF Leads, Lists
  <2> QED
    BY <1>1, <2>1 DEF WayTo, p
<1>5. CASE p[1] = Collections /\ Collections \notin Range(Systems) /\ n > 1 /\ p[2] \in Range(Systems)
  <2>1. /\ Tail(p) \in Seq(Inner) /\ Len(Tail(p)) = n - 1
        /\ \A i \in 1 .. n - 1 : Tail(p)[i] = p[i + 1]
    BY <1>1, HeadTailProperties
  <2>2. Tail(p) # <<>> /\ Tail(p)[1] = p[2]
    <3> DEFINE s == Tail(p)
    <3>1. 1 \in 1 .. n - 1 /\ n - 1 # 0 /\ 1 + 1 = 2
      BY <1>2, <1>5
    <3>2. s \in Seq(Inner) /\ Len(s) = n - 1 /\ \A i \in 1 .. n - 1 : s[i] = p[i + 1]
      BY <2>1
    <3> HIDE DEF s, n
    <3> QED
      BY <3>1, <3>2 DEF s
  <2>3. ASSUME NEW i \in 2 .. Len(Tail(p))
        PROVE  Tail(p)[i - 1] \in Dir /\ Tail(p)[i] \in Lists(Tail(p)[i - 1])
    <3>1. i - 1 \in 1 .. n - 1 /\ i \in 1 .. n - 1 /\ i + 1 \in 2 .. n /\ (i - 1) + 1 = i /\ (i + 1) - 1 = i
      BY <1>2, <2>1
    <3> QED
      BY <1>3, <2>1, <3>1
  <2>4. Leads(Root, Tail(p))
    BY <1>5, <2>1, <2>2, <2>3 DEF Leads, Lists
  <2>5. Skips(Root, p)
    BY <1>5, <2>4 DEF Skips, Lists
  <2> QED
    BY <1>1, <2>5 DEF WayTo, p
<1> QED
  BY <1>1, <1>4, <1>5

\* A way to a directory is a way to what it lists.
LEMMA LongerWay ==
  ASSUME NEW p \in Seq(Inner), NEW d \in Dir \cap Inner, NEW c, WayTo(p, c, d), NEW e \in Lists(d)
  PROVE  WayTo(Append(p, e), d, e)
<1> DEFINE q == Append(p, e)
           n == Len(p)
<1>1. e \in Inner
  BY ListsType
<1>2. /\ n \in Nat \ {0} /\ p[n] = d
      /\ q \in Seq(Inner) /\ Len(q) = n + 1 /\ q # <<>> /\ q[n + 1] = e /\ q[n] = d
      /\ \A i \in 1 .. n : q[i] = p[i]
  BY <1>1 DEF WayTo
\* What holds of p and of its tail.
<1>3. ASSUME NEW s \in Seq(Inner), s # <<>>, Leads(Root, s), s[Len(s)] = d
      PROVE  Leads(Root, Append(s, e)) /\ ListOf(Root, Append(s, e)) = d
  <2> DEFINE u == Append(s, e)
             m == Len(s)
  <2>1. /\ m \in Nat \ {0} /\ s[m] = d
        /\ u \in Seq(Inner) /\ Len(u) = m + 1 /\ u # <<>> /\ u[m + 1] = e /\ u[m] = d
        /\ \A i \in 1 .. m : u[i] = s[i]
    BY <1>1, <1>3
  <2> HIDE DEF u, m
  <2>2. \A i \in 2 .. m : s[i - 1] \in Dir /\ s[i] \in Lists(s[i - 1])
    BY <1>3 DEF Leads, m
  <2>3. ASSUME NEW i \in 2 .. m + 1 PROVE u[i - 1] \in Dir /\ u[i] \in Lists(u[i - 1])
    <3>1. CASE i = m + 1
      BY <2>1, <3>1
    <3>2. CASE i # m + 1
      <4>1. i \in 2 .. m /\ i - 1 \in 1 .. m /\ i \in 1 .. m
        BY <2>1, <3>2
      <4> QED
        BY <2>1, <2>2, <4>1
    <3> QED
      BY <3>1, <3>2
  <2>4. u[1] \in Lists(Root)
    BY <1>3, <2>1 DEF Leads
  <2>5. Leads(Root, u)
    BY <2>1, <2>3, <2>4 DEF Leads
  <2>6. ListOf(Root, u) = d
    BY <2>1 DEF ListOf
  <2> QED
    BY <2>5, <2>6 DEF u
<1>4. CASE Leads(Root, p)
  BY <1>2, <1>3, <1>4 DEF WayTo
<1>5. CASE Skips(Root, p)
  <2> DEFINE s == Tail(p)
  <2>1. /\ s \in Seq(Inner) /\ Len(s) = n - 1 /\ \A i \in 1 .. n - 1 : s[i] = p[i + 1]
    BY <1>2, HeadTailProperties
  <2>2. n > 1 /\ Leads(Root, s) /\ p[1] = Collections
    BY <1>5 DEF Skips
  <2>3. s # <<>> /\ s[Len(s)] = d
    <3>1. n - 1 \in 1 .. n - 1 /\ n - 1 # 0 /\ (n - 1) + 1 = n
      BY <1>2, <2>2
    <3> QED
      BY <1>2, <2>1, <3>1
  <2>4. Tail(q) = Append(s, e)
    <3>1. Tail(q) \in Seq(Inner) /\ Len(Tail(q)) = n /\ \A i \in 1 .. n : Tail(q)[i] = q[i + 1]
      <4> HIDE DEF q
      <4> QED
        BY <1>2, HeadTailProperties
    <3>a. /\ Append(s, e) \in Seq(Inner) /\ Len(Append(s, e)) = n
          /\ \A i \in 1 .. n - 1 : Append(s, e)[i] = s[i]
          /\ Append(s, e)[n] = e
      <4> HIDE DEF s
      <4> QED
        BY <1>1, <1>2, <2>1
    <3>2. ASSUME NEW i \in 1 .. n PROVE Tail(q)[i] = Append(s, e)[i]
      <4>1. CASE i = n
        BY <1>2, <3>1, <3>a, <4>1
      <4>2. CASE i # n
        <5>1. i \in 1 .. n - 1 /\ i + 1 \in 1 .. n
          BY <1>2, <4>2
        <5> QED
          BY <1>2, <2>1, <3>1, <3>a, <5>1
      <4> QED
        BY <4>1, <4>2
    <3> HIDE DEF q, s
    <3> QED
      BY <3>1, <3>a, <3>2, SeqEqual
  <2> HIDE DEF s
  <2>5. Leads(Root, Tail(q)) /\ ListOf(Root, Tail(q)) = d
    BY <1>3, <2>1, <2>2, <2>3, <2>4
  <2>6. Skips(Root, q)
    BY <1>2, <1>5, <2>2, <2>5 DEF Skips
  <2> QED
    BY <1>2, <2>5, <2>6 DEF WayTo
<1> QED
  BY <1>4, <1>5 DEF WayTo

\* The folder of the collections is only opened when the root lists it.
LEMMA CollectionsListed ==
  ASSUME Types, Live, top.dir = Collections
  PROVE  Collections \in Range(Systems)
<1> DEFINE n == Len(stack)
           u == stack[n]
<1>1. stack # <<>> /\ n \in DOMAIN stack
  BY WayAssumption DEF Live, Chain, Types
<1>2. u \in Directories /\ u.list # <<>> /\ Selected(u) = Collections /\ Current(u)
  <2>1. u \in Directories
    BY <1>1 DEF Types
  <2>2. Chain /\ Current(u)
    BY <1>1 DEF Live
  <2> QED
    BY <1>1, <2>1, <2>2 DEF Chain
<1>3. u.selected + 1 \in DOMAIN List(u.dir) /\ List(u.dir)[u.selected + 1] = Collections /\ u.dir \in Dir
  BY <1>2, RowDomain DEF Current, Selected, Directories
<1>4. CASE u.dir = Recents \/ u.dir = Favourites
  BY <1>3, <1>4, CardAssumption, WayAssumption DEF List, Types
<1>5. CASE u.dir \in (Dir \cap Inner) \cup {Root}
  <2>1. Collections \in Lists(u.dir)
    BY <1>3, <1>5, ListHolds, WayAssumption
  <2>2. CASE u.dir = Root
    BY <2>1, <2>2 DEF Lists
  <2>3. CASE u.dir \in Dir \cap Inner
    <3>1. Collections \in Range(Files[u.dir]) /\ Collections \in Dir
      BY <2>1, <2>3, <1>2 DEF Lists, Inner, Types, Directories
    <3>2. Path[Collections] = Append(Path[u.dir], Collections) /\ Path[Collections] = <<Collections>>
      BY <2>3, <3>1, WayAssumption DEF Entry
    <3>3. Path[u.dir] \in Seq(Entry) /\ Path[u.dir] # <<>>
      BY <2>3, CardAssumption, WayAssumption DEF Inner, Entry
    <3>4. Len(Append(Path[u.dir], Collections)) = Len(Path[u.dir]) + 1 /\ Len(Path[u.dir]) \in Nat \ {0}
      BY <3>3
    <3>5. Len(<<Collections>>) = 1
      OBVIOUS
    <3> QED
      BY <3>2, <3>4, <3>5
  <2> QED
    BY <1>5, <2>2, <2>3
<1> QED
  BY <1>3, <1>4, <1>5 DEF Inner, Entry

\* What is shown is reached by a way: directly, or, for what a collection lists
\* of other places, through the collection.
LEMMA ShownWay ==
  ASSUME Types, Live, NEW d \in (Dir \cap Inner) \cup {Root}, top.dir = d, NEW e \in Lists(d),
         e \notin Dir \/ ~InCollections(e)
  PROVE  /\ d # Root => WayTo(Append(Path[d], e), d, e)
         /\ ~InCollections(d) => WayTo(Path[e], d, e)
<1>1. ASSUME d # Root PROVE WayTo(Append(Path[d], e), d, e)
  <2>1. d \in Dir \cap Inner
    BY <1>1
  <2>2. CASE d = Collections
    <3>1. Path[d] = <<d>> /\ d \in Range(Systems)
      BY <2>1, <2>2, WayAssumption, CollectionsListed DEF Entry
    <3>2. <<d>> \in Seq(Inner) /\ Len(<<d>>) = 1 /\ <<d>>[1] = d /\ <<d>> # <<>>
      BY <2>1
    <3>3. Leads(Root, <<d>>)
      BY <3>1, <3>2 DEF Leads, Lists
    <3>4. WayTo(<<d>>, Root, d)
      BY <3>2, <3>3 DEF WayTo, ListOf
    <3> QED
      BY <2>1, <3>1, <3>2, <3>4, LongerWay
  <2>3. CASE d # Collections
    <3>1. Path[d] \in Seq(Inner)
      BY <2>1, <2>3, WayAssumption
    <3>2. PICK c : WayTo(Path[d], c, d)
      BY <2>1, <2>3, PathWay
    <3> QED
      BY <2>1, <3>1, <3>2, LongerWay
  <2> QED
    BY <2>2, <2>3
<1>2. ASSUME ~InCollections(d) PROVE WayTo(Path[e], d, e)
  <2>1. CASE d # Root
    <3>1. Path[e] = Append(Path[d], e)
      BY <1>2, <2>1, WayAssumption DEF Lists
    <3> QED
      BY <1>1, <2>1, <3>1
  <2>2. CASE d = Root
    <3>1. e \in Range(Systems) /\ e \in Inner /\ e # Root
      BY <2>2, ListsType DEF Lists, Inner
    <3>2. Path[e] = <<e>>
      <4>1. (Path[e] = <<Collections, e>> /\ e \in Dir) => InCollections(e)
        BY <3>1 DEF InCollections
      <4> QED
        BY <3>1, <4>1, WayAssumption
    <3>3. <<e>> \in Seq(Inner) /\ Len(<<e>>) = 1 /\ <<e>>[1] = e /\ <<e>> # <<>>
      BY <3>1
    <3>4. Leads(Root, <<e>>)
      BY <3>1, <3>3 DEF Leads, Lists
    <3> QED
      BY <2>2, <3>2, <3>3, <3>4 DEF WayTo, ListOf
  <2> QED
    BY <2>1, <2>2
<1> QED
  BY <1>1, <1>2

\* A step that leaves the launcher by a way to what was started, or by the list
\* of recents, which it is at the front of.
LEMMA LeaveReturn ==
  ASSUME NEW e, NEW d, NEW p, WayTo(p, d, e), NEW c \in Dir,
         launched'.entry \in Rom \cup Pak, e = launched'.entry \/ Game(e) = launched'.entry,
         \/ c \in {d, Favourites}
         \/ launched'.entry \in Pak /\ InCollections(c),
         launched'.from = c, last' = p, mode' = "leaving"
  PROVE  Return'
<1>1. Started(p[Len(p)])'
  BY DEF WayTo, Started, Game
<1>2. From(d)'
  BY DEF From
<1>3. WayBack(Root, last)'
  <2>1. CASE Leads(Root, p) /\ d = ListOf(Root, p)
    <3>1. (Leads(Root, last) /\ Started(last[Len(last)]) /\ From(ListOf(Root, last)))'
      BY <1>1, <1>2, <2>1 DEF Leads, Lists, ListOf, From, Started, Game
    <3> QED
      BY <3>1 DEF WayBack
  <2>2. CASE Skips(Root, p) /\ d = ListOf(Root, Tail(p))
    <3>1. (Skips(Root, last) /\ Started(last[Len(last)]) /\ From(ListOf(Root, Tail(last))))'
      BY <1>1, <1>2, <2>2 DEF Leads, Lists, ListOf, Skips, From, Started, Game
    <3> QED
      BY <3>1 DEF WayBack
  <2> QED
    BY <2>1, <2>2 DEF WayTo
<1> QED
  BY <1>3 DEF Return

LEMMA OpenReturn ==
  ASSUME Types, Live, RecentsInOrder, mode = "list", NEW t, MovedTop(t), t.list # <<>>, NEW r,
         NEW resume \in BOOLEAN, EntryOpen(t, r, Selected(t), resume)
  PROVE  Return'
<1> DEFINE e == Selected(t)
           d == t.dir
<1>1. /\ t \in Directories /\ d \in Dir /\ top.dir = d /\ t.list = List(d)
      /\ t.selected + 1 \in DOMAIN List(d) /\ List(d)[t.selected + 1] = e /\ e \in Entry \ {Root}
  BY RowDomain, SelectedInner DEF MovedTop, Live, Current, Directories, Selected
<1>2. d \in {Recents, Favourites} => e \in Rom
  BY <1>1, ListType, CardAssumption DEF Types, List
<1>3. d \notin {Recents, Favourites} => d \in (Dir \cap Inner) \cup {Root}
  BY <1>1 DEF Inner, Entry
\* Recents and Favourites launch nothing and are in no folder.
<1>4. (d \notin {Recents, Favourites} /\ (e \in Rom \cup Pak \/ (e \in Dir /\ Launches[e] # NoRom))) => e \in Lists(d)
  <2>1. e \in Rom \cup Pak => e \notin {Recents, Favourites}
    BY CardAssumption
  <2>2. (e \in Dir /\ Launches[e] # NoRom) => e \notin {Recents, Favourites}
    BY WayAssumption DEF Inner
  <2> QED
    BY <1>1, <1>3, <2>1, <2>2, ListHolds
<1>5. ~InCollections(Favourites) /\ ~InCollections(Recents)
  <2>1. Path[Favourites] = <<Favourites>> /\ Path[Recents] = <<Recents>>
    BY WayAssumption, CardAssumption DEF Entry
  <2>2. Path[Favourites][1] = Favourites /\ Path[Recents][1] = Recents
    BY <2>1
  <2> QED
    BY <2>2, WayAssumption DEF InCollections
\* A rom, started by a path.
<1>6. ASSUME NEW g \in Rom, NEW path, OpenRom(t, r, g, path, resume), e = g \/ Game(e) = g,
             d \notin {Recents} => (WayTo(path, d, e) \/ (d = Favourites /\ \E c : WayTo(path, c, e)))
      PROVE  Return'
  <2>1. /\ launched'.entry = g /\ launched'.from = d /\ launched'.hdmi = FALSE /\ mode' = "leaving"
        /\ recents' = AddRecent(g)
        /\ last' = IF d = Recents THEN <<Recents>> ELSE path
    BY <1>1, <1>6 DEF OpenRom, SaveLast, Leave
  <2>2. CASE d = Recents
    <3>1. AddRecent(g) # <<>> /\ AddRecent(g)[1] = g
      BY AddRecentOrder DEF Types, RecentsInOrder
    <3> QED
      BY <2>1, <2>2, <3>1 DEF Return, WayBack
  <2>3. CASE d # Recents
    <3>1. PICK c : WayTo(path, c, e) /\ d \in {c, Favourites}
      BY <1>6, <2>3
    <3> QED
      BY <1>1, <1>6, <2>1, <2>3, <3>1, LeaveReturn
  <2> QED
    BY <2>2, <2>3
<1>7. CASE e \in Pak /\ OpenPak(t, r, e)
  <2>1. d \notin {Recents, Favourites} /\ e \notin Dir
    BY <1>2, <1>7, CardAssumption
  <2>2. e \in Lists(d) /\ d \in (Dir \cap Inner) \cup {Root}
    BY <1>3, <1>4, <1>7, <2>1
  <2>3. /\ launched'.entry = e /\ launched'.from = d /\ mode' = "leaving"
        /\ last' = Path[e]
    BY <1>1, <1>7, <2>1 DEF OpenPak, SaveLast, Leave
  <2>4. CASE ~InCollections(d)
    <3>1. WayTo(Path[e], d, e)
      BY <1>1, <2>1, <2>2, <2>4, ShownWay
    <3> QED
      BY <1>1, <1>7, <2>3, <3>1, LeaveReturn
  <2>5. CASE InCollections(d)
    <3>1. e \in Inner \ {Collections}
      BY <1>7, <2>2, ListsType, WayAssumption
    <3>2. PICK c : WayTo(Path[e], c, e)
      BY <3>1, PathWay
    <3> QED
      BY <1>1, <1>7, <2>3, <2>5, <3>2, LeaveReturn
  <2> QED
    BY <2>4, <2>5
<1>8. CASE e \in Rom
           /\ OpenRom(t, r, e, IF InCollections(t.dir) THEN Append(Path[t.dir], e) ELSE Path[e], resume)
  <2>1. e \notin Dir /\ e \in Inner \ {Collections}
    BY <1>8, CardAssumption, WayAssumption DEF Inner, Entry
  <2>2. CASE d = Recents
    BY <1>6, <1>8, <2>2
  <2>3. CASE d = Favourites
    BY <1>5, <1>6, <1>8, <2>1, <2>3, PathWay
  <2>4. CASE d \notin {Recents, Favourites}
    <3>1. e \in Lists(d) /\ d \in (Dir \cap Inner) \cup {Root} /\ ~InCollections(Root)
      BY <1>3, <1>4, <1>8, <2>4 DEF InCollections
    <3>2. WayTo(IF InCollections(d) THEN Append(Path[d], e) ELSE Path[e], d, e)
      BY <1>1, <2>1, <3>1, ShownWay
    <3> QED
      BY <1>6, <1>8, <3>2
  <2> QED
    BY <2>2, <2>3, <2>4
<1>9. CASE e \in Dir /\ Launches[e] # NoRom /\ OpenRom(t, r, Launches[e], Path[e], resume)
  <2>1. e \notin Rom /\ Launches[e] \in Rom /\ ~InCollections(e) /\ Game(e) = Launches[e]
    BY <1>9, CardAssumption, WayAssumption DEF Game
  <2>2. d \notin {Recents, Favourites} /\ e \in Lists(d) /\ d \in (Dir \cap Inner) \cup {Root}
    BY <1>2, <1>3, <1>4, <1>9, <2>1
  <2>3. ~InCollections(d)
    <3>1. CASE d = Root
      BY <3>1 DEF InCollections
    <3>2. CASE d # Root /\ InCollections(d)
      <4>1. Path[e] = Append(Path[d], e) /\ d \in Dir \cap Inner
        BY <1>9, <2>2, <3>2, WayAssumption DEF Lists
      <4>2. Path[d] \in Seq(Entry) /\ Path[d] # <<>>
        <5>1. CASE d = Collections
          BY <4>1, <5>1, WayAssumption DEF Entry
        <5>2. CASE d # Collections
          BY <4>1, <5>2, CardAssumption, WayAssumption DEF Inner
        <5> QED
          BY <5>1, <5>2
      <4>3. Append(Path[d], e)[1] = Path[d][1]
        BY <1>1, <4>2
      <4> QED
        BY <1>1, <2>1, <3>2, <4>1, <4>3 DEF InCollections
    <3> QED
      BY <3>1, <3>2
  <2>4. WayTo(Path[e], d, e)
    BY <1>1, <2>1, <2>2, <2>3, ShownWay
  <2> QED
    BY <1>6, <1>9, <2>1, <2>4
<1>10. CASE launched' = NoLaunch
  BY <1>10 DEF Return, NoLaunch
<1> QED
  BY <1>7, <1>8, <1>9, <1>10 DEF EntryOpen

LEMMA TurnReturn ==
  ASSUME IInv, RecentsInOrder, NEW i \in Inputs, Turn(i)
  PROVE  Return'
<1>0. Types /\ Live /\ mode = "list"
  BY DEF IInv, Turn
<1>1. PICK t : t = IF top.list = <<>> THEN top ELSE Directory(top.dir, top.list, Moved(top, i))
  OBVIOUS
<1>2. MovedTop(t)
  <2>1. CASE top.list = <<>>
    BY <1>0, <1>1, <2>1 DEF MovedTop, Types, Live, Current
  <2>2. CASE top.list # <<>>
    BY <1>0, <1>1, <2>2, MovedShows DEF Live, Current
  <2> QED
    BY <2>1, <2>2
<1>3. PICK r :
        \/ PressResume(t, r)
        \/ PressA(t, r)
        \/ PressSelect(t, r)
        \/ PressB(t, r)
        \/ PressNothing(t, r, i.button)
  BY <1>1 DEF Turn
<1>4. CASE PressResume(t, r)
  BY <1>0, <1>2, <1>4, OpenReturn DEF PressResume
<1>5. CASE PressA(t, r)
  BY <1>0, <1>2, <1>5, OpenReturn DEF PressA
<1>6. CASE launched' = NoLaunch
  BY <1>6 DEF Return, NoLaunch
<1> QED
  BY <1>3, <1>4, <1>5, <1>6 DEF PressSelect, PressB, PressNothing, Stay

\* loadLast follows the way: it selects and opens what the way leads through,
\* and selects what was started.
LEMMA LoadComponentReturn ==
  ASSUME IInv, Return, LoadComponent
  PROVE  Return'
<1> SUFFICES ASSUME launched.entry # NoRom, ~launched.hdmi PROVE Return'
  BY DEF LoadComponent, Return
<1> DEFINE e == Head(rest)
           n == Len(rest)
           d == top.dir
           s == Tail(rest)
           opens == e \in Dir /\ (rest' # <<>> \/ e = Recents \/ (InCollections(e) /\ e # Collections))
<1>1. /\ Types /\ Live /\ mode = "load" /\ rest # <<>> /\ rest' = s
      /\ UNCHANGED <<mode, recents, favourites, launched>> /\ restore = NoRestore
      /\ launched.entry \in Rom \cup Pak /\ WayBack(d, rest)
  BY DEF LoadComponent, fileVars, IInv, Loading, Return
<1>2. /\ rest \in Seq(Entry) /\ n \in Nat \ {0} /\ e = rest[1] /\ s \in Seq(Entry) /\ Len(s) = n - 1
      /\ \A i \in 1 .. n - 1 : s[i] = rest[i + 1]
  BY <1>1, HeadTailProperties DEF Types, PathLike
<1>3. top.list = List(d) /\ d \in Dir /\ top \in Directories
  BY <1>1 DEF Live, Current, Types, Directories
\* The rest of a way.
<1>4. ASSUME Leads(d, rest), n > 1
      PROVE  Leads(e, s) /\ s # <<>> /\ s[Len(s)] = rest[n] /\ ListOf(e, s) = ListOf(d, rest)
  <2>1. rest \in Seq(Inner) /\ s \in Seq(Inner) /\ e \in Inner
    BY <1>1, <1>2, <1>4, HeadTailProperties DEF Leads
  <2> HIDE DEF s, e, n
  <2>2. n - 1 \in 1 .. n - 1 /\ 1 \in 1 .. n - 1 /\ 2 \in 2 .. n /\ 2 - 1 = 1 /\ 1 + 1 = 2 /\ n - 1 # 0 /\ (n - 1) + 1 = n
    BY <1>2, <1>4
  <2>3. s # <<>> /\ s[1] = rest[2] /\ s[n - 1] = rest[n]
    BY <1>2, <2>2
  <2>4. \A i \in 2 .. n : rest[i - 1] \in Dir /\ rest[i] \in Lists(rest[i - 1])
    BY <1>4 DEF Leads, n
  <2>5. s[1] \in Lists(e) /\ e \in Dir
    BY <1>2, <2>2, <2>3, <2>4
  <2>6. ASSUME NEW i \in 2 .. Len(s) PROVE s[i - 1] \in Dir /\ s[i] \in Lists(s[i - 1])
    <3>1. i - 1 \in 1 .. n - 1 /\ i \in 1 .. n - 1 /\ i + 1 \in 2 .. n /\ (i - 1) + 1 = i /\ (i + 1) - 1 = i
      BY <1>2, <2>6
    <3>2. s[i - 1] = rest[i] /\ s[i] = rest[i + 1]
      BY <1>2, <3>1
    <3> QED
      BY <2>4, <3>1, <3>2
  <2>7. ListOf(e, s) = ListOf(d, rest)
    <3>1. CASE n = 2
      BY <1>2, <3>1 DEF ListOf, n
    <3>2. CASE n # 2
      <4>1. n - 2 \in 1 .. n - 1 /\ (n - 1) - 1 = n - 2 /\ (n - 2) + 1 = n - 1 /\ n - 1 # 1 /\ n # 1
        BY <1>2, <1>4, <3>2
      <4> QED
        BY <1>2, <4>1 DEF ListOf, n
    <3> QED
      BY <3>1, <3>2
  <2>8. Leads(e, s)
    BY <2>1, <2>3, <2>5, <2>6 DEF Leads
  <2> QED
    BY <1>2, <2>3, <2>7, <2>8
<1>5. ASSUME Leads(d, rest)
      PROVE  /\ d \in (Dir \cap Inner) \cup {Root} /\ e \in Lists(d) /\ e \in Inner
             /\ \E i \in DOMAIN top.list : top.list[i] = e
  <2>1. d \in (Dir \cap Inner) \cup {Root} /\ e \in Lists(d)
    BY <1>2, <1>3, <1>5 DEF Leads
  <2> QED
    BY <1>1, <1>3, <2>1, ListHolds, ListsType
\* The component is not listed: the folder of collections that are in the root.
<1>6. CASE (\A i \in DOMAIN top.list : top.list[i] # e) /\ UNCHANGED listVars
  <2>1. ~(rest = <<Recents>> /\ d = Root /\ recents # <<>>)
    <3>1. rest = <<Recents>> => e = Recents
      BY <1>2
    <3> QED
      BY <1>1, <1>3, <1>6, <3>1, ListHolds
  <2>2. ~Leads(d, rest)
    BY <1>5, <1>6
  <2>3. Skips(d, rest) /\ Started(rest[n]) /\ From(ListOf(d, s))
    BY <1>1, <2>1, <2>2 DEF WayBack
  <2>4. Leads(d, s) /\ n > 1
    BY <2>3 DEF Skips
  <2>5. s # <<>> /\ s[Len(s)] = rest[n]
    <3> HIDE DEF s, n
    <3>1. n - 1 \in 1 .. n - 1 /\ (n - 1) + 1 = n
      BY <1>2, <2>4
    <3> QED
      BY <1>2, <2>4, <3>1 DEF Leads
  <2>6. WayBack(d, s)
    BY <2>3, <2>4, <2>5 DEF WayBack
  <2>7. WayBack(top.dir, rest)'
    BY <1>1, <1>6, <2>6 DEF WayBack, Leads, Lists, Skips, ListOf, From, Started, Game, listVars
  <2> QED
    BY <1>1, <2>5, <2>7 DEF Return
<1>7. ASSUME NEW i \in DOMAIN top.list, top.list[i] = e, NEW t, MovedTop(t), t.selected = i - 1, t.list # <<>>,
             IF opens THEN OpenDirectory(t, e) ELSE top' = t
      PROVE  Return'
  <2>1. t.dir = d /\ t.list = top.list /\ Selected(t) = e
    <3>1. (i - 1) + 1 = i
      BY <1>3, <1>7 DEF Directories
    <3> QED
      BY <1>7, <3>1 DEF MovedTop, Selected
  <2>2. opens => top'.dir = e /\ top'.list = List(e) /\ top'.selected = 0
    <3>1. restore.depth # Len(stack) + 1
      BY <1>1 DEF NoRestore, Types
    <3> QED
      BY <1>7, <3>1 DEF OpenDirectory, Opened, Directory, FirstPage
  <2>3. CASE rest = <<Recents>> /\ d = Root
             /\ recents # <<>> /\ recents[1] = launched.entry /\ launched.from = Recents
    <3>1. e = Recents /\ s = <<>> /\ Recents \in Dir /\ List(Recents) = recents
      BY <1>2, <2>3, CardAssumption DEF List
    <3>2. top'.dir = Recents /\ top'.list = recents /\ top'.selected = 0
      BY <2>2, <3>1
    <3>3. Selected(top') = recents[1]
      BY <3>2 DEF Selected
    <3>4. Arrived'
      BY <1>1, <2>3, <3>2, <3>3 DEF Arrived, Started, From, Selected
    <3> QED
      BY <1>1, <3>1, <3>4 DEF Return
  <2>4. CASE Leads(d, rest) /\ Started(rest[n]) /\ From(ListOf(d, rest))
    <3>1. CASE n > 1
      <4>1. Leads(e, s) /\ s # <<>> /\ s[Len(s)] = rest[n] /\ ListOf(e, s) = ListOf(d, rest)
        BY <1>4, <2>4, <3>1
      <4>2. e \in Dir
        <5>1. 2 \in 2 .. n /\ 2 - 1 = 1
          BY <1>2, <3>1
        <5> QED
          BY <1>2, <2>4, <5>1 DEF Leads
      <4>3. top'.dir = e
        BY <1>1, <2>2, <4>1, <4>2
      <4>4. WayBack(e, s)
        BY <2>4, <4>1 DEF WayBack
      <4>5. WayBack(top.dir, rest)'
        BY <1>1, <4>3, <4>4 DEF WayBack, Leads, Lists, Skips, ListOf, From, Started, Game
      <4> QED
        BY <1>1, <4>1, <4>5 DEF Return
    <3>2. CASE n = 1
      <4>a. s = <<>>
        <5> HIDE DEF s, n
        <5>1. s \in Seq(Entry) /\ Len(s) = 0
          BY <1>2, <3>2
        <5> QED
          BY <5>1
      <4>b. rest[n] = e /\ ListOf(d, rest) = d
        BY <1>2, <3>2 DEF ListOf
      <4>1. s = <<>> /\ Started(e) /\ From(d)
        BY <2>4, <4>a, <4>b
      <4>2. ~opens
        <5>1. e \in Dir => Launches[e] # NoRom
          BY <1>1, <4>1, CardAssumption DEF Started, Game
        <5>2. e \in Dir => e \in Inner /\ ~InCollections(e)
          BY <5>1, WayAssumption
        <5> QED
          BY <1>1, <4>1, <5>2 DEF Inner
      <4>3. top' = t
        BY <1>7, <4>2
      <4>4. Arrived'
        BY <1>1, <1>7, <2>1, <4>1, <4>3 DEF Arrived, Started, From, Selected, Game
      <4> QED
        BY <1>1, <4>1, <4>4 DEF Return
    <3> QED
      BY <1>2, <3>1, <3>2
  <2>5. ~Skips(d, rest)
    BY <1>1, <1>2, <1>3, <1>7, ListHolds, WayAssumption DEF Skips
  <2> QED
    BY <1>1, <2>3, <2>4, <2>5 DEF WayBack
<1> QED
  BY <1>6, <1>7, LoadComponentMoves

LEMMA NextReturn == IInv /\ RecentsInOrder /\ Return /\ [Next]_vars => Return'
<1> SUFFICES ASSUME IInv, RecentsInOrder, Return, [Next]_vars PROVE Return'
  OBVIOUS
<1>1. CASE \E i \in Inputs : Turn(i)
  BY <1>1, TurnReturn
<1>2. ASSUME UNCHANGED <<mode, top, launched, recents, last, rest>> PROVE Return'
  BY <1>2 DEF Return, Arrived, WayBack, Leads, Lists, Skips, ListOf, From, Started, Selected, Game
<1>3. CASE \E i \in Inputs : VersionTurn(i)
  BY <1>2, <1>3 DEF VersionTurn, listVars, fileVars
<1>4. CASE HdmiRestart
  BY <1>4 DEF HdmiRestart, Return, IInv, Types
<1>5. CASE Crash
  BY <1>5 DEF Crash, Return, Arrived
<1>6. CASE Restart
  <2>1. /\ launched' = launched /\ recents' = recents /\ rest' = last /\ mode' = "load"
        /\ top'.dir = Root
    BY <1>6 DEF Restart, Directory
  <2>2. CASE launched.entry # NoRom /\ ~launched.hdmi
    <3>1. WayBack(Root, last) /\ launched.entry \in Rom \cup Pak
      BY <1>6, <2>2 DEF Restart, Return
    <3>2. last # <<>>
      BY <3>1 DEF WayBack, Leads, Skips
    <3>3. WayBack(top.dir, rest)'
      BY <2>1, <3>1 DEF WayBack, Leads, Lists, Skips, ListOf, From, Started, Game
    <3> QED
      BY <2>1, <3>1, <3>2, <3>3 DEF Return
  <2> QED
    BY <2>1, <2>2 DEF Return
<1>7. CASE LoadComponent
  BY <1>7, LoadComponentReturn
<1>8. CASE Loaded
  BY <1>8 DEF Loaded, Return, Arrived, From, Started, Selected, Game, listVars, fileVars
<1>9. CASE UNCHANGED vars
  BY <1>2, <1>9 DEF vars, listVars, fileVars
<1> QED
  BY <1>1, <1>3, <1>4, <1>5, <1>6, <1>7, <1>8, <1>9 DEF Next

\* For every card that lists its entries where their paths lead, the launcher
\* comes back to what it started, in the list it was in.
THEOREM GameIsReturnedTo == Spec => []ReturnsToGame
<1>1. Init => Return
  BY DEF Init, Return, NoLaunch
<1>2. Return => ReturnsToGame
  BY DEF Return, Arrived, Started, From, ReturnsToGame
<1> QED
  BY <1>1, <1>2, NextReturn, MenuInvariant, RecentsAreInOrder, PTL DEF Spec
=============================================================================
