------------------------------ MODULE MCScaler ------------------------------
(* Calls of every routine: widths below, at and above its block, pitches     *)
(* that are left to the routine, even and odd.                               *)
EXTENDS Scaler, FiniteSets

\* Pixels per block of each table's routines.
BlockSize == [n16 |-> <<64, 32, 16, 16, 8, 8>>, n32 |-> <<32, 16, 8, 8, 4, 4>>,
              c16 |-> <<2, 2, 2, 2, 2, 2>>, c32 |-> <<1, 1, 1, 1, 1, 1>>,
              line |-> <<1, 1, 1, 1>>, grid |-> <<1, 1, 1>>]
Widths(s, x) == LET b == BlockSize[s][x] IN {2, b + 1} \cup (IF b > 2 THEN {b, b - 1, b + (b \div 2) + 2} ELSE {3})

\* A narrow 16 bit NEON copy takes even widths.
Even(c) == c.scaler = "n16" /\ c.xmul = 1 /\ c.ymul > 1 => c.sw % 2 = 0

Pitches(s, x, y, w) ==
  (IF s \in {"line", "grid"} \/ w % 4 # 0 THEN {<<w + (w % 2) + 2, x * w + ((x * w) % 2)>>} ELSE {<<0, 0>>})
  \cup (IF x = 1 /\ y = 1 /\ s = "n16" /\ w > 2 THEN {<<w + 2, w - (w % 2) - 2>>, <<w + 1, w>>} ELSE {})
Odd(s, w) == IF s \in {"n16", "n32"} /\ w = 2 THEN BOOLEAN ELSE {FALSE}
CallsOf(s, x, y) ==
  {[scaler |-> s, xmul |-> x, ymul |-> y, sw |-> wpo[1], sh |-> 2, sp |-> wpo[2][1], dp |-> wpo[2][2],
    odd |-> wpo[3]] :
     wpo \in UNION {{w} \X Pitches(s, x, y, w) \X Odd(s, w) : w \in Widths(s, x)}}
AllCalls ==
  UNION {UNION {UNION {CallsOf(s, x, y) : y \in DOMAIN Table[s][x]} : x \in DOMAIN Table[s]} : s \in DOMAIN Table}
MCCalls == {c \in AllCalls : Even(c)}
=============================================================================
