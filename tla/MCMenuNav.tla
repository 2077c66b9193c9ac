----------------------------- MODULE MCMenuNav -----------------------------
(* A card with a cartridge game, two games of several discs behind folders   *)
(* that launch them, a collection with games of both kinds, and a pak; lists *)
(* longer and shorter than the screen, and favourites that may be none.      *)
EXTENDS MenuNav, TLC

CONSTANTS root, recent, favs, colls, mix, gb, ps, disc1, disc2, g, d1, d2, clock

Idle == [v |-> "none", h |-> "none", shoulder |-> "none", button |-> "none", poked |-> FALSE]
AllInputs ==
  {[Idle EXCEPT !.button = b] : b \in Button} \cup {[Idle EXCEPT !.poked = TRUE]}
  \cup {[Idle EXCEPT !.v = v] : v \in UpDown} \cup {[Idle EXCEPT !.h = h] : h \in LeftRight}
  \cup {[Idle EXCEPT !.shoulder = s] : s \in Shoulder}

MCDir == {root, recent, favs, colls, mix, gb, ps, disc1, disc2}
MCSystems == <<colls, gb, ps>>
MCFiles ==
  colls :> <<mix>> @@ mix :> <<d1, clock, g>> @@ gb :> <<clock, g>> @@ ps :> <<disc1, disc2>>
  @@ disc1 :> <<d1>> @@ disc2 :> <<d2>>
MCLaunches == [d \in Dir |-> IF d = disc1 THEN d1 ELSE IF d = disc2 THEN d2 ELSE NoRom]
MCPath ==
  recent :> <<recent>> @@ favs :> <<favs>> @@ colls :> <<colls>> @@ mix :> <<colls, mix>>
  @@ gb :> <<gb>> @@ clock :> <<gb, clock>> @@ g :> <<gb, g>>
  @@ ps :> <<ps>> @@ disc1 :> <<ps, disc1>> @@ d1 :> <<ps, disc1, d1>>
  @@ disc2 :> <<ps, disc2>> @@ d2 :> <<ps, disc2, d2>>
MCLetter == [e \in Entry |-> IF e \in {gb, g} THEN 7 ELSE IF e = ps THEN 16 ELSE 3]
MCAlias == [r \in Rom |-> IF r = d1 THEN 1 ELSE 2]
=============================================================================
