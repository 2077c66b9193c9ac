------------------------------ MODULE MCConfig ------------------------------
(* Every option with two values, scaling with three; a system.cfg that locks *)
(* the effect, like gkdpixel's, and a pak that binds and sets a few.         *)
EXTENDS Config

Counts == [k \in Keys |-> IF k = "scaling" THEN 3 ELSE 2]
Initials == [k \in Keys |-> IF k \in {"scaling", "sharpness", "up"} THEN 1 ELSE 0]
System == [effect |-> 0, sharpness |-> 1]
Symmetry == Permutations(Games)
Pak == [speed |-> 1, cycle_effect |-> 1]
=============================================================================
