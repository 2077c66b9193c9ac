---------------------------- MODULE Scaler_proofs ----------------------------
(* What the routines of the scalers' tables have in common, whatever their   *)
(* factors; that their cursors keep to the line and that the picture they    *)
(* store is the one asked for, whatever the width and the pitches of the     *)
(* call.                                                                     *)
EXTENDS Scaler, SequenceTheorems, TLAPS

Sizes == {1, 2, 4, 8, 16, 32, 64}

\* What all routines of the tables have in common.
RoutineOK(r) ==
  /\ r.kind \in {"asm", "lines", "cells"}
  /\ r.mul \in 1..6 /\ r.lines \in 1..6
  /\ r.loop \in Sizes \cup {0} /\ r.small \in Sizes
  /\ r.loop # 0 => r.small <= r.loop
  /\ r.rest \in Nat \ {0}
  /\ IF r.kind = "asm" /\ r.mul = 1
     THEN r.loop # 0 /\ r.small = 2 * r.rest
     ELSE r.rest = 1
  /\ r.clips \in BOOLEAN

\* A routine widens and repeats by the factors it is listed under, in one shade.
Answers(r, x, y) == r.mul = x /\ r.lines = y /\ r.pattern = Plain(x, y)

\* One of a row that has a C scaler for up to four lines, and hands over to the
\* one of as many lines.
Fits(r, x, y) ==
  RoutineOK(r) /\ Answers(r, x, y) /\ y \in 1..4 /\ r.fallback = y

(* The tables: the routines of each row are of that kind, and a NEON routine *)
(* names a C scaler of its row to fall back on.                              *)
LEMMA N16OK ==
  ASSUME NEW x \in DOMAIN scaler_n16, NEW y \in DOMAIN scaler_n16[x]
  PROVE  /\ RoutineOK(scaler_n16[x][y]) /\ x \in 1..6
         /\ scaler_n16[x][y].mul = x /\ Answers(scaler_n16[x][y], x, y)
         /\ scaler_n16[x][y].fallback = y \/ (x = 2 /\ y = 4)
         /\ scaler_n16[x][y].fallback \in DOMAIN scaler_c16[x]
<1>0. x \in 1..6  BY DEF scaler_n16
<1>1. CASE x = 1
  <2>1. scaler_n16[1] = <<scale1x1_n16, scale1x2_n16, scale1x3_n16, scale1x4_n16>>
    BY DEF scaler_n16
  <2>2. /\ Fits(scale1x1_n16, 1, 1) 
        /\ Fits(scale1x2_n16, 1, 2) 
        /\ Fits(scale1x3_n16, 1, 3) 
        /\ Fits(scale1x4_n16, 1, 4)
    BY DEF Fits, Answers, RoutineOK, Sizes, Asm, AsmLine, memcpy_neon, scale1x1_n16, scale1x2_n16, scale1x3_n16, scale1x4_n16
  <2>3. y \in 1..4  BY <1>1, <2>1
  <2>4. DOMAIN scaler_c16[1] = 1..4  BY DEF scaler_c16
  <2> QED BY <1>0, <1>1, <2>1, <2>2, <2>3, <2>4 DEF Fits, Answers
<1>2. CASE x = 2
  <2>1. scaler_n16[2] = <<scale2x1_n16, scale2x2_n16, scale2x3_n16, scale2x4_n16>>
    BY DEF scaler_n16
  <2>2. /\ Fits(scale2x1_n16, 2, 1) 
        /\ Fits(scale2x2_n16, 2, 2) 
        /\ Fits(scale2x3_n16, 2, 3) 
        /\ RoutineOK(scale2x4_n16) /\ Answers(scale2x4_n16, 2, 4) /\ scale2x4_n16.fallback = 3
    BY DEF Fits, Answers, RoutineOK, Sizes, Asm, scale2x1_n16, scale2x2_n16, scale2x3_n16, scale2x4_n16
  <2>3. y \in 1..4  BY <1>2, <2>1
  <2>4. DOMAIN scaler_c16[2] = 1..4  BY DEF scaler_c16
  <2> QED BY <1>0, <1>2, <2>1, <2>2, <2>3, <2>4 DEF Fits, Answers
<1>3. CASE x = 3
  <2>1. scaler_n16[3] = <<scale3x1_n16, scale3x2_n16, scale3x3_n16, scale3x4_n16>>
    BY DEF scaler_n16
  <2>2. /\ Fits(scale3x1_n16, 3, 1) 
        /\ Fits(scale3x2_n16, 3, 2) 
        /\ Fits(scale3x3_n16, 3, 3) 
        /\ Fits(scale3x4_n16, 3, 4)
    BY DEF Fits, Answers, RoutineOK, Sizes, Asm, scale3x1_n16, scale3x2_n16, scale3x3_n16, scale3x4_n16
  <2>3. y \in 1..4  BY <1>3, <2>1
  <2>4. DOMAIN scaler_c16[3] = 1..4  BY DEF scaler_c16
  <2> QED BY <1>0, <1>3, <2>1, <2>2, <2>3, <2>4 DEF Fits, Answers
<1>4. CASE x = 4
  <2>1. scaler_n16[4] = <<scale4x1_n16, scale4x2_n16, scale4x3_n16, scale4x4_n16>>
    BY DEF scaler_n16
  <2>2. /\ Fits(scale4x1_n16, 4, 1) 
        /\ Fits(scale4x2_n16, 4, 2) 
        /\ Fits(scale4x3_n16, 4, 3) 
        /\ Fits(scale4x4_n16, 4, 4)
    BY DEF Fits, Answers, RoutineOK, Sizes, Asm, scale4x1_n16, scale4x2_n16, scale4x3_n16, scale4x4_n16
  <2>3. y \in 1..4  BY <1>4, <2>1
  <2>4. DOMAIN scaler_c16[4] = 1..4  BY DEF scaler_c16
  <2> QED BY <1>0, <1>4, <2>1, <2>2, <2>3, <2>4 DEF Fits, Answers
<1>5. CASE x = 5
  <2>1. scaler_n16[5] = [l \in 1..5 |-> scale5x_n16(l)]  BY DEF scaler_n16
  <2>2. y \in 1..5  BY <1>5, <2>1
  <2>3. /\ RoutineOK(scale5x_n16(y)) /\ Answers(scale5x_n16(y), 5, y)
        /\ scale5x_n16(y).mul = 5
        /\ scale5x_n16(y).fallback = y
    BY <2>2 DEF Answers, RoutineOK, Sizes, AsmLine, Asm, scale5x_n16
  <2>4. DOMAIN scaler_c16[5] = 1..5  BY DEF scaler_c16
  <2> QED BY <1>0, <1>5, <2>1, <2>2, <2>3, <2>4
<1>6. CASE x = 6
  <2>1. scaler_n16[6] = [l \in 1..6 |-> scale6x_n16(l)]  BY DEF scaler_n16
  <2>2. y \in 1..6  BY <1>6, <2>1
  <2>3. /\ RoutineOK(scale6x_n16(y)) /\ Answers(scale6x_n16(y), 6, y)
        /\ scale6x_n16(y).mul = 6
        /\ scale6x_n16(y).fallback = y
    BY <2>2 DEF Answers, RoutineOK, Sizes, AsmLine, Asm, scale6x_n16
  <2>4. DOMAIN scaler_c16[6] = 1..6  BY DEF scaler_c16
  <2> QED BY <1>0, <1>6, <2>1, <2>2, <2>3, <2>4
<1> QED BY <1>0, <1>1, <1>2, <1>3, <1>4, <1>5, <1>6

LEMMA N32OK ==
  ASSUME NEW x \in DOMAIN scaler_n32, NEW y \in DOMAIN scaler_n32[x]
  PROVE  /\ RoutineOK(scaler_n32[x][y]) /\ x \in 1..6
         /\ scaler_n32[x][y].mul = x /\ Answers(scaler_n32[x][y], x, y)
         /\ scaler_n32[x][y].fallback = y
         /\ scaler_n32[x][y].fallback \in DOMAIN scaler_c32[x]
<1>0. x \in 1..6  BY DEF scaler_n32
<1>1. CASE x = 1
  <2>1. scaler_n32[1] = <<scale1x1_n32, scale1x2_n32, scale1x3_n32, scale1x4_n32>>
    BY DEF scaler_n32
  <2>2. /\ Fits(scale1x1_n32, 1, 1) 
        /\ Fits(scale1x2_n32, 1, 2) 
        /\ Fits(scale1x3_n32, 1, 3) 
        /\ Fits(scale1x4_n32, 1, 4)
    BY DEF Fits, Answers, RoutineOK, Sizes, Asm, AsmLine, memcpy_neon, scale1x1_n32, scale1x2_n32, scale1x3_n32, scale1x4_n32
  <2>3. y \in 1..4  BY <1>1, <2>1
  <2>4. DOMAIN scaler_c32[1] = 1..4  BY DEF scaler_c32
  <2> QED BY <1>0, <1>1, <2>1, <2>2, <2>3, <2>4 DEF Fits, Answers
<1>2. CASE x = 2
  <2>1. scaler_n32[2] = <<scale2x1_n32, scale2x2_n32, scale2x3_n32, scale2x4_n32>>
    BY DEF scaler_n32
  <2>2. /\ Fits(scale2x1_n32, 2, 1) 
        /\ Fits(scale2x2_n32, 2, 2) 
        /\ Fits(scale2x3_n32, 2, 3) 
        /\ Fits(scale2x4_n32, 2, 4)
    BY DEF Fits, Answers, RoutineOK, Sizes, Asm, scale2x1_n32, scale2x2_n32, scale2x3_n32, scale2x4_n32
  <2>3. y \in 1..4  BY <1>2, <2>1
  <2>4. DOMAIN scaler_c32[2] = 1..4  BY DEF scaler_c32
  <2> QED BY <1>0, <1>2, <2>1, <2>2, <2>3, <2>4 DEF Fits, Answers
<1>3. CASE x = 3
  <2>1. scaler_n32[3] = <<scale3x1_n32, scale3x2_n32, scale3x3_n32, scale3x4_n32>>
    BY DEF scaler_n32
  <2>2. /\ Fits(scale3x1_n32, 3, 1) 
        /\ Fits(scale3x2_n32, 3, 2) 
        /\ Fits(scale3x3_n32, 3, 3) 
        /\ Fits(scale3x4_n32, 3, 4)
    BY DEF Fits, Answers, RoutineOK, Sizes, Asm, scale3x1_n32, scale3x2_n32, scale3x3_n32, scale3x4_n32
  <2>3. y \in 1..4  BY <1>3, <2>1
  <2>4. DOMAIN scaler_c32[3] = 1..4  BY DEF scaler_c32
  <2> QED BY <1>0, <1>3, <2>1, <2>2, <2>3, <2>4 DEF Fits, Answers
<1>4. CASE x = 4
  <2>1. scaler_n32[4] = <<scale4x1_n32, scale4x2_n32, scale4x3_n32, scale4x4_n32>>
    BY DEF scaler_n32
  <2>2. /\ Fits(scale4x1_n32, 4, 1) 
        /\ Fits(scale4x2_n32, 4, 2) 
        /\ Fits(scale4x3_n32, 4, 3) 
        /\ Fits(scale4x4_n32, 4, 4)
    BY DEF Fits, Answers, RoutineOK, Sizes, Asm, scale4x1_n32, scale4x2_n32, scale4x3_n32, scale4x4_n32
  <2>3. y \in 1..4  BY <1>4, <2>1
  <2>4. DOMAIN scaler_c32[4] = 1..4  BY DEF scaler_c32
  <2> QED BY <1>0, <1>4, <2>1, <2>2, <2>3, <2>4 DEF Fits, Answers
<1>5. CASE x = 5
  <2>1. scaler_n32[5] = [l \in 1..5 |-> scale5x_n32(l)]  BY DEF scaler_n32
  <2>2. y \in 1..5  BY <1>5, <2>1
  <2>3. /\ RoutineOK(scale5x_n32(y)) /\ Answers(scale5x_n32(y), 5, y)
        /\ scale5x_n32(y).mul = 5
        /\ scale5x_n32(y).fallback = y
    BY <2>2 DEF Answers, RoutineOK, Sizes, AsmLine, Asm, scale5x_n32
  <2>4. DOMAIN scaler_c32[5] = 1..5  BY DEF scaler_c32
  <2> QED BY <1>0, <1>5, <2>1, <2>2, <2>3, <2>4
<1>6. CASE x = 6
  <2>1. scaler_n32[6] = [l \in 1..6 |-> scale6x_n32(l)]  BY DEF scaler_n32
  <2>2. y \in 1..6  BY <1>6, <2>1
  <2>3. /\ RoutineOK(scale6x_n32(y)) /\ Answers(scale6x_n32(y), 6, y)
        /\ scale6x_n32(y).mul = 6
        /\ scale6x_n32(y).fallback = y
    BY <2>2 DEF Answers, RoutineOK, Sizes, AsmLine, Asm, scale6x_n32
  <2>4. DOMAIN scaler_c32[6] = 1..6  BY DEF scaler_c32
  <2> QED BY <1>0, <1>6, <2>1, <2>2, <2>3, <2>4
<1> QED BY <1>0, <1>1, <1>2, <1>3, <1>4, <1>5, <1>6

LEMMA C16OK ==
  ASSUME NEW x \in 1..6, NEW y \in DOMAIN scaler_c16[x]
  PROVE  /\ RoutineOK(scaler_c16[x][y]) /\ scaler_c16[x][y].mul = x /\ scaler_c16[x][y].kind = "lines"
         /\ Answers(scaler_c16[x][y], x, y)
<1>1. CASE x = 1
  <2>1. scaler_c16[1] = [l \in 1..4 |-> scale1x_c16(l)]  BY DEF scaler_c16
  <2>2. y \in 1..4  BY <1>1, <2>1
  <2>3. /\ RoutineOK(scale1x_c16(y)) /\ Answers(scale1x_c16(y), 1, y)
        /\ scale1x_c16(y).mul = 1
        /\ scale1x_c16(y).kind = "lines"
    BY <2>2 DEF Answers, RoutineOK, Sizes, Copy, scale1x_c16
  <2> QED BY <1>1, <2>1, <2>2, <2>3
<1>2. CASE x = 2
  <2>1. scaler_c16[2] = [l \in 1..4 |-> scale2x_c16(l)]  BY DEF scaler_c16
  <2>2. y \in 1..4  BY <1>2, <2>1
  <2>3. /\ RoutineOK(scale2x_c16(y)) /\ Answers(scale2x_c16(y), 2, y)
        /\ scale2x_c16(y).mul = 2
        /\ scale2x_c16(y).kind = "lines"
    BY <2>2 DEF Answers, RoutineOK, Sizes, CLines, scale2x_c16
  <2> QED BY <1>2, <2>1, <2>2, <2>3
<1>3. CASE x = 3
  <2>1. scaler_c16[3] = [l \in 1..4 |-> scale3x_c16(l)]  BY DEF scaler_c16
  <2>2. y \in 1..4  BY <1>3, <2>1
  <2>3. /\ RoutineOK(scale3x_c16(y)) /\ Answers(scale3x_c16(y), 3, y)
        /\ scale3x_c16(y).mul = 3
        /\ scale3x_c16(y).kind = "lines"
    BY <2>2 DEF Answers, RoutineOK, Sizes, CLines, scale3x_c16
  <2> QED BY <1>3, <2>1, <2>2, <2>3
<1>4. CASE x = 4
  <2>1. scaler_c16[4] = [l \in 1..4 |-> scale4x_c16(l)]  BY DEF scaler_c16
  <2>2. y \in 1..4  BY <1>4, <2>1
  <2>3. /\ RoutineOK(scale4x_c16(y)) /\ Answers(scale4x_c16(y), 4, y)
        /\ scale4x_c16(y).mul = 4
        /\ scale4x_c16(y).kind = "lines"
    BY <2>2 DEF Answers, RoutineOK, Sizes, CLines, scale4x_c16
  <2> QED BY <1>4, <2>1, <2>2, <2>3
<1>5. CASE x = 5
  <2>1. scaler_c16[5] = [l \in 1..5 |-> scale5x_c16(l)]  BY DEF scaler_c16
  <2>2. y \in 1..5  BY <1>5, <2>1
  <2>3. /\ RoutineOK(scale5x_c16(y)) /\ Answers(scale5x_c16(y), 5, y)
        /\ scale5x_c16(y).mul = 5
        /\ scale5x_c16(y).kind = "lines"
    BY <2>2 DEF Answers, RoutineOK, Sizes, CLines, scale5x_c16
  <2> QED BY <1>5, <2>1, <2>2, <2>3
<1>6. CASE x = 6
  <2>1. scaler_c16[6] = [l \in 1..6 |-> scale6x_c16(l)]  BY DEF scaler_c16
  <2>2. y \in 1..6  BY <1>6, <2>1
  <2>3. /\ RoutineOK(scale6x_c16(y)) /\ Answers(scale6x_c16(y), 6, y)
        /\ scale6x_c16(y).mul = 6
        /\ scale6x_c16(y).kind = "lines"
    BY <2>2 DEF Answers, RoutineOK, Sizes, CLines, scale6x_c16
  <2> QED BY <1>6, <2>1, <2>2, <2>3
<1> QED BY <1>1, <1>2, <1>3, <1>4, <1>5, <1>6

LEMMA C32OK ==
  ASSUME NEW x \in 1..6, NEW y \in DOMAIN scaler_c32[x]
  PROVE  /\ RoutineOK(scaler_c32[x][y]) /\ scaler_c32[x][y].mul = x /\ scaler_c32[x][y].kind = "lines"
         /\ Answers(scaler_c32[x][y], x, y)
<1>1. CASE x = 1
  <2>1. scaler_c32[1] = [l \in 1..4 |-> scale1x_c32(l)]  BY DEF scaler_c32
  <2>2. y \in 1..4  BY <1>1, <2>1
  <2>3. /\ RoutineOK(scale1x_c32(y)) /\ Answers(scale1x_c32(y), 1, y)
        /\ scale1x_c32(y).mul = 1
        /\ scale1x_c32(y).kind = "lines"
    BY <2>2 DEF Answers, RoutineOK, Sizes, Copy, scale1x_c32
  <2> QED BY <1>1, <2>1, <2>2, <2>3
<1>2. CASE x = 2
  <2>1. scaler_c32[2] = [l \in 1..4 |-> scale2x_c32(l)]  BY DEF scaler_c32
  <2>2. y \in 1..4  BY <1>2, <2>1
  <2>3. /\ RoutineOK(scale2x_c32(y)) /\ Answers(scale2x_c32(y), 2, y)
        /\ scale2x_c32(y).mul = 2
        /\ scale2x_c32(y).kind = "lines"
    BY <2>2 DEF Answers, RoutineOK, Sizes, CLines, scale2x_c32
  <2> QED BY <1>2, <2>1, <2>2, <2>3
<1>3. CASE x = 3
  <2>1. scaler_c32[3] = [l \in 1..4 |-> scale3x_c32(l)]  BY DEF scaler_c32
  <2>2. y \in 1..4  BY <1>3, <2>1
  <2>3. /\ RoutineOK(scale3x_c32(y)) /\ Answers(scale3x_c32(y), 3, y)
        /\ scale3x_c32(y).mul = 3
        /\ scale3x_c32(y).kind = "lines"
    BY <2>2 DEF Answers, RoutineOK, Sizes, CLines, scale3x_c32
  <2> QED BY <1>3, <2>1, <2>2, <2>3
<1>4. CASE x = 4
  <2>1. scaler_c32[4] = [l \in 1..4 |-> scale4x_c32(l)]  BY DEF scaler_c32
  <2>2. y \in 1..4  BY <1>4, <2>1
  <2>3. /\ RoutineOK(scale4x_c32(y)) /\ Answers(scale4x_c32(y), 4, y)
        /\ scale4x_c32(y).mul = 4
        /\ scale4x_c32(y).kind = "lines"
    BY <2>2 DEF Answers, RoutineOK, Sizes, CLines, scale4x_c32
  <2> QED BY <1>4, <2>1, <2>2, <2>3
<1>5. CASE x = 5
  <2>1. scaler_c32[5] = [l \in 1..5 |-> scale5x_c32(l)]  BY DEF scaler_c32
  <2>2. y \in 1..5  BY <1>5, <2>1
  <2>3. /\ RoutineOK(scale5x_c32(y)) /\ Answers(scale5x_c32(y), 5, y)
        /\ scale5x_c32(y).mul = 5
        /\ scale5x_c32(y).kind = "lines"
    BY <2>2 DEF Answers, RoutineOK, Sizes, CLines, scale5x_c32
  <2> QED BY <1>5, <2>1, <2>2, <2>3
<1>6. CASE x = 6
  <2>1. scaler_c32[6] = [l \in 1..6 |-> scale6x_c32(l)]  BY DEF scaler_c32
  <2>2. y \in 1..6  BY <1>6, <2>1
  <2>3. /\ RoutineOK(scale6x_c32(y)) /\ Answers(scale6x_c32(y), 6, y)
        /\ scale6x_c32(y).mul = 6
        /\ scale6x_c32(y).kind = "lines"
    BY <2>2 DEF Answers, RoutineOK, Sizes, CLines, scale6x_c32
  <2> QED BY <1>6, <2>1, <2>2, <2>3
<1> QED BY <1>1, <1>2, <1>3, <1>4, <1>5, <1>6

LEMMA EffectsOK ==
  /\ \A r \in {scale2x_line, scale2x_grid} : RoutineOK(r) /\ r.mul = 2 /\ r.lines = 2
  /\ \A r \in {scale3x_line, scale3x_grid} : RoutineOK(r) /\ r.mul = 3 /\ r.lines = 3
  /\ RoutineOK(scale4x_line) /\ scale4x_line.mul = 4 /\ scale4x_line.lines = 4
  /\ \A r \in {scale2x_line, scale2x_grid, scale3x_line, scale3x_grid, scale4x_line} :
       r.kind = "cells"
BY DEF RoutineOK, Sizes, Cells, scale2x_line, scale2x_grid, scale3x_line, scale3x_grid, scale4x_line

-----------------------------------------------------------------------------
(* Arithmetic of lines.                                                      *)
LEMMA Div == ASSUME NEW n \in Nat, NEW k \in Nat, k > 0
             PROVE  n % k \in 0..k - 1 /\ n % k <= n
OBVIOUS

LEMMA Times == \A a, b \in Nat : a * b \in Nat
OBVIOUS

LEMMA NextTimes == ASSUME NEW a \in Int, NEW n \in Int PROVE a * (n + 1) = a * n + a
OBVIOUS

(* What a bit of the width says of what is left below it.                    *)
LEMMA BitOf ==
  ASSUME NEW w \in Nat, NEW s \in Sizes, NEW small \in Sizes, s > small
  PROVE  /\ s \div 2 \in Sizes /\ small <= s \div 2
         /\ w % s = (w % (s \div 2)) + (IF (w \div (s \div 2)) % 2 = 1 THEN s \div 2 ELSE 0)
<1>1. CASE s = 2  BY <1>1 DEF Sizes
<1>2. CASE s = 4  BY <1>2 DEF Sizes
<1>3. CASE s = 8  BY <1>3 DEF Sizes
<1>4. CASE s = 16  BY <1>4 DEF Sizes
<1>5. CASE s = 32  BY <1>5 DEF Sizes
<1>6. CASE s = 64  BY <1>6 DEF Sizes
<1> QED BY <1>1, <1>2, <1>3, <1>4, <1>5, <1>6 DEF Sizes

(* The rest of a narrow copy is one word.                                    *)
LEMMA OneWord ==
  ASSUME NEW w \in Nat, NEW s \in Sizes, NEW r \in Nat \ {0}, s = 2 * r, w % r = 0, w % s # 0
  PROVE  w % s = r
<1>1. CASE s = 2  BY <1>1
<1>2. CASE s = 4  BY <1>2
<1>3. CASE s = 8  BY <1>3
<1>4. CASE s = 16  BY <1>4
<1>5. CASE s = 32  BY <1>5
<1>6. CASE s = 64  BY <1>6
<1> QED BY <1>1, <1>2, <1>3, <1>4, <1>5, <1>6 DEF Sizes

(* Whole blocks are left: after one of them none or at least one.            *)
LEMMA Blocks ==
  ASSUME NEW l \in Nat, l > 0, NEW d \in Nat, d % l = 0, d # 0
  PROVE  d >= l /\ (d - l) % l = 0
<1>1. /\ d = l * (d \div l) + (d % l)
      /\ d \div l \in Int /\ d % l \in 0..l - 1
  BY Z3
<1>2. d = l * (d \div l)  BY <1>1
<1> DEFINE q == d \div l
<1> HIDE DEF q
<1>3. q \in Int /\ d = l * q  BY <1>1, <1>2 DEF q
<1>4. q >= 1  BY <1>3
<1>5. d >= l  BY <1>3, <1>4
<1>6. d - l = l * (q - 1)  BY <1>3
<1>7. (l * (q - 1)) % l = 0  BY <1>3
<1> QED BY <1>5, <1>6, <1>7

LEMMA Whole ==
  ASSUME NEW w \in Nat, NEW l \in Nat, l > 0
  PROVE  (w - (w % l)) % l = 0
<1> DEFINE q == w \div l
           m == w % l
<1>1. /\ w = l * q + m /\ q \in Int /\ m \in Int
  BY Z3
<1> HIDE DEF q, m
<1>2. l * q \in Int /\ w - m = l * q  BY <1>1
<1>3. (l * q) % l = 0  BY <1>1
<1> QED BY <1>2, <1>3 DEF m

-----------------------------------------------------------------------------
(* A routine's blocks: the size is a power of two that is no smaller than    *)
(* the last bit tested, or the whole line.                                   *)
JobOK(j) ==
  /\ RoutineOK(j.r)
  /\ j.width \in Nat \ {0} /\ j.rows \in Nat \ {0} /\ j.sp \in Nat \ {0} /\ j.dp \in Nat
  /\ j.loop \in Nat \ {0}
  /\ j.loop = j.width \/ (j.loop \in Sizes /\ j.r.small <= j.loop)
  /\ j.r.kind = "asm" /\ j.r.mul = 1 => j.width % j.r.rest = 0

LEMMA TableOf ==
  ASSUME NEW c \in Calls
  PROVE  /\ c.scaler \in {"n16", "n32", "c16", "c32", "line", "grid"}
         /\ c.xmul \in 1..6 /\ c.ymul \in 1..6 /\ c.sw \in Nat /\ c.sh \in Nat
         /\ c.sp \in Nat /\ c.dp \in Nat /\ c.odd \in BOOLEAN
         /\ c.scaler = "n16" /\ c.xmul = 1 /\ c.ymul > 1 => c.sw % 2 = 0
BY CallsAssumption DEF Table

(* The effects of the tables.                                                *)
LEMMA LinesListed ==
  ASSUME NEW x \in DOMAIN Table.line, NEW y \in DOMAIN Table.line[x]
  PROVE  /\ y = x
         /\ \/ x = 2 /\ Table.line[x][y] = scale2x_line
            \/ x = 3 /\ Table.line[x][y] = scale3x_line
            \/ x = 4 /\ Table.line[x][y] = scale4x_line
<1> DEFINE of == <<scale2x_line, scale3x_line, scale4x_line>>
<1>1. Table.line = [v \in 2..4 |-> [w \in {v} |-> of[v - 1]]]
  BY DEF Table
<1>2. of[1] = scale2x_line /\ of[2] = scale3x_line /\ of[3] = scale4x_line
  OBVIOUS
<1> HIDE DEF of
<1>3. x \in 2..4 /\ y = x /\ Table.line[x][y] = of[x - 1]
  BY <1>1
<1> QED BY <1>2, <1>3

LEMMA GridsListed ==
  ASSUME NEW x \in DOMAIN Table.grid, NEW y \in DOMAIN Table.grid[x]
  PROVE  /\ y = x
         /\ \/ x = 2 /\ Table.grid[x][y] = scale2x_grid
            \/ x = 3 /\ Table.grid[x][y] = scale3x_grid
<1> DEFINE of == <<scale2x_grid, scale3x_grid>>
<1>1. Table.grid = [v \in 2..3 |-> [w \in {v} |-> of[v - 1]]]
  BY DEF Table
<1>2. of[1] = scale2x_grid /\ of[2] = scale3x_grid
  OBVIOUS
<1> HIDE DEF of
<1>3. x \in 2..3 /\ y = x /\ Table.grid[x][y] = of[x - 1]
  BY <1>1
<1> QED BY <1>2, <1>3

(* What a call asks for is a routine of its row, and of its factors.         *)
LEMMA AskedOK ==
  ASSUME NEW c \in Calls, Listed(c)
  PROVE  LET r == Table[c.scaler][c.xmul][c.ymul]
         IN /\ RoutineOK(r) /\ r.mul = c.xmul
            /\ c.scaler = "n16" => r.fallback \in DOMAIN scaler_c16[c.xmul]
            /\ c.scaler = "n32" => r.fallback \in DOMAIN scaler_c32[c.xmul]
            /\ r.kind = "asm" => c.scaler \in {"n16", "n32"}
            /\ r.lines = c.ymul /\ r.pattern = Shades(c)
            /\ c.scaler = "n16" => r.fallback = c.ymul \/ (c.xmul = 2 /\ c.ymul = 4)
            /\ c.scaler = "n32" => r.fallback = c.ymul
<1> DEFINE x == c.xmul
           y == c.ymul
           r == Table[c.scaler][x][y]
<1>0. /\ x \in 1..6
      /\ x \in DOMAIN Table[c.scaler] /\ y \in DOMAIN Table[c.scaler][x]
  BY TableOf DEF Listed
<1>1. CASE c.scaler = "n16"
  <2>1. Table[c.scaler] = scaler_n16  BY <1>1 DEF Table
  <2> QED BY <1>0, <1>1, <2>1, N16OK DEF Answers, Shades
<1>2. CASE c.scaler = "n32"
  <2>1. Table[c.scaler] = scaler_n32  BY <1>2 DEF Table
  <2> QED BY <1>0, <1>2, <2>1, N32OK DEF Answers, Shades
<1>3. CASE c.scaler = "c16"
  <2>1. Table[c.scaler] = scaler_c16  BY <1>3 DEF Table
  <2> QED BY <1>0, <1>3, <2>1, C16OK DEF Answers, Shades
<1>4. CASE c.scaler = "c32"
  <2>1. Table[c.scaler] = scaler_c32  BY <1>4 DEF Table
  <2> QED BY <1>0, <1>4, <2>1, C32OK DEF Answers, Shades
<1>5. CASE c.scaler = "line"
  <2>1. x = y /\ r \in {scale2x_line, scale3x_line, scale4x_line} /\ r.mul = x
        /\ (r = scale2x_line => x = 2) /\ (r = scale3x_line => x = 3) /\ (r = scale4x_line => x = 4)
    BY <1>0, <1>5, LinesListed, EffectsOK
  <2> QED BY <1>5, <2>1, EffectsOK DEF Shades
<1>6. CASE c.scaler = "grid"
  <2>1. x = y /\ r \in {scale2x_grid, scale3x_grid} /\ r.mul = x
        /\ (r = scale2x_grid => x = 2) /\ (r = scale3x_grid => x = 3)
    BY <1>0, <1>6, GridsListed, EffectsOK
  <2> QED BY <1>6, <2>1, EffectsOK DEF Shades
<1> QED BY <1>1, <1>2, <1>3, <1>4, <1>5, <1>6, TableOf

(* The narrow assembler copies of 16 bit pixels are those of several lines,  *)
(* and store two pixels as their rest; of 32 bit pixels one.                 *)
LEMMA NarrowRest ==
  ASSUME NEW c \in Calls, Listed(c), c.scaler \in {"n16", "n32"},
         LET r == Table[c.scaler][c.xmul][c.ymul] IN r.kind = "asm" /\ r.mul = 1
  PROVE  LET r == Table[c.scaler][c.xmul][c.ymul]
         IN c.sw % r.rest = 0 /\ r.clips = FALSE
<1> DEFINE r == Table[c.scaler][c.xmul][c.ymul]
<1>0. c.xmul = 1 /\ c.ymul \in DOMAIN Table[c.scaler][1] /\ r.kind = "asm"
  BY AskedOK DEF Listed
<1>1. CASE c.scaler = "n16"
  <2>1. r = <<scale1x1_n16, scale1x2_n16, scale1x3_n16, scale1x4_n16>>[c.ymul] /\ c.ymul \in 1..4
    BY <1>0, <1>1 DEF Table, scaler_n16
  <2>2. c.ymul # 1
    <3>1. scale1x1_n16.kind = "lines"  BY DEF scale1x1_n16, memcpy_neon, AsmLine, Asm
    <3> QED BY <1>0, <2>1, <3>1
  <2>3. r.rest = 2 /\ r.clips = FALSE
    BY <2>1, <2>2 DEF scale1x2_n16, scale1x3_n16, scale1x4_n16, Asm
  <2>4. c.sw % 2 = 0  BY <1>0, <1>1, <2>1, <2>2, TableOf
  <2> QED BY <2>3, <2>4
<1>2. CASE c.scaler = "n32"
  <2>1. r = <<scale1x1_n32, scale1x2_n32, scale1x3_n32, scale1x4_n32>>[c.ymul] /\ c.ymul \in 1..4
    BY <1>0, <1>2 DEF Table, scaler_n32
  <2>2. r.rest = 1 /\ r.clips = FALSE
    <3>1. scale1x1_n32.rest = 1 /\ scale1x1_n32.clips = FALSE
      BY DEF scale1x1_n32, memcpy_neon, AsmLine, Asm
    <3>2. \A s \in {scale1x2_n32, scale1x3_n32, scale1x4_n32} : s.rest = 1 /\ s.clips = FALSE
      BY DEF scale1x2_n32, scale1x3_n32, scale1x4_n32, Asm
    <3> QED BY <2>1, <3>1, <3>2
  <2>3. c.sw \in Nat  BY TableOf
  <2> QED BY <2>2, <2>3
<1> QED BY <1>1, <1>2

(* Every call that does something comes to a picture of at least a pixel and *)
(* a routine whose loops fit it.                                             *)
LEMMA JobIsOK ==
  ASSUME NEW c \in Calls, Listed(c), c.sw > 0, c.sh > 0
  PROVE  JobOK(Job(c))
<1> DEFINE asked == Table[c.scaler][c.xmul][c.ymul]
           sp == IF c.sp = 0 THEN c.sw ELSE c.sp
           dp == IF c.dp = 0 THEN c.xmul * c.sw ELSE c.dp
           r == IF Misaligned(c, sp, dp) THEN InC(c, asked.fallback) ELSE asked
           whole == r.kind = "lines" /\ r.mul = 1 /\ r.lines = 1 /\ sp = c.sw /\ dp = c.sw
           width == IF whole THEN sp * c.sh ELSE IF r.clips /\ c.sw > dp THEN dp ELSE c.sw
           loop == IF r.loop = 0 THEN width ELSE r.loop
           j == [call |-> c, r |-> r, width |-> width, rows |-> IF whole THEN 1 ELSE c.sh,
                 sp |-> IF whole THEN width ELSE sp, dp |-> IF whole THEN width ELSE dp,
                 loop |-> loop]
<1>0. Job(c) = j  BY DEF Job
<1>1. RoutineOK(r)
  <2>1. CASE Misaligned(c, sp, dp)
    BY <2>1, AskedOK, TableOf, C16OK, C32OK DEF Misaligned, InC
  <2>2. CASE ~Misaligned(c, sp, dp)
    BY <2>2, AskedOK
  <2> QED BY <2>1, <2>2
<1>2. r.kind = "asm" /\ r.mul = 1 => r = asked /\ c.scaler \in {"n16", "n32"}
  <2>1. CASE Misaligned(c, sp, dp)
    <3>1. r = InC(c, asked.fallback) /\ c.scaler \in {"n16", "n32"}
      BY <2>1 DEF Misaligned
    <3>2. r.kind = "lines"
      <4>1. CASE c.scaler = "n16"
        <5>1. asked.fallback \in DOMAIN scaler_c16[c.xmul] /\ c.xmul \in 1..6
          BY <4>1, AskedOK, TableOf
        <5>2. r = scaler_c16[c.xmul][asked.fallback]
          BY <3>1, <4>1 DEF InC
        <5> HIDE DEF asked, r
        <5> QED BY <5>1, <5>2, C16OK
      <4>2. CASE c.scaler = "n32"
        <5>1. asked.fallback \in DOMAIN scaler_c32[c.xmul] /\ c.xmul \in 1..6
          BY <4>2, AskedOK, TableOf
        <5>2. r = scaler_c32[c.xmul][asked.fallback]
          BY <3>1, <4>2 DEF InC
        <5> HIDE DEF asked, r
        <5> QED BY <5>1, <5>2, C32OK
      <4> QED BY <3>1, <4>1, <4>2
    <3> QED BY <3>2
  <2>2. CASE ~Misaligned(c, sp, dp)
    BY <2>2, AskedOK
  <2> QED BY <2>1, <2>2
<1>3. r.kind = "asm" /\ r.mul = 1 => c.sw % r.rest = 0 /\ r.clips = FALSE
  BY <1>2, NarrowRest
<1> HIDE DEF r
<1>4. sp \in Nat \ {0} /\ dp \in Nat /\ dp > 0
  BY TableOf
<1> HIDE DEF sp, dp
<1>5. width \in Nat \ {0}
  BY <1>4, TableOf
<1>6. r.kind = "asm" /\ r.mul = 1 => width = c.sw
  BY <1>3
<1> HIDE DEF width
<1>7. loop \in Nat \ {0} /\ (loop = width \/ (loop \in Sizes /\ r.small <= loop))
  BY <1>1, <1>5 DEF RoutineOK, Sizes
<1> HIDE DEF loop
<1>8. JobOK(j)
  BY <1>1, <1>3, <1>4, <1>5, <1>6, <1>7, TableOf DEF JobOK
<1> QED BY <1>0, <1>8

-----------------------------------------------------------------------------
(* The invariant of the cursors.  Only KeepsToLine is meant to be read; the  *)
(* rest says, for each place in the loops, what is left of the line.         *)

Narrow == job.r.kind = "asm" /\ job.r.mul = 1

Counts ==
  /\ JobOK(job)
  /\ pc \in {"line", "loop", "tail", "rest", "next", "done"}
  /\ row \in Nat /\ src \in Int /\ dst \in Int /\ lr \in Int /\ r8 \in Int /\ span \in Int

AtStart == pc = "line" => src = job.sp * row

\* The registers hold this line's marks.
Marked ==
  pc \in {"loop", "tail", "rest", "next"} =>
    /\ r8 = job.sp * row + job.width
    /\ lr = job.sp * row + (job.width - (job.width % job.loop))

\* Whole blocks are left, at least one.
BlocksLeft ==
  pc = "loop" => src < lr /\ (lr - src) % job.loop = 0 /\ span = job.loop

\* What is left is the width's bits below the last one looked at.
BitsLeft ==
  pc = "tail" =>
    /\ span > 0 /\ r8 - src = job.width % span
    /\ src = r8 \/ (span \in Sizes /\ job.r.small <= span)

\* What no bit stands for is at least a pixel; a narrow copy's is one word.
RestLeft == pc = "rest" => src < r8 /\ (Narrow => r8 - src = job.r.rest)

AtEnd == pc = "next" => src = r8

CInv == Counts /\ KeepsToLine /\ AtStart /\ Marked /\ BlocksLeft /\ BitsLeft /\ RestLeft /\ AtEnd

LEMMA Product == ASSUME NEW m \in Int, NEW a \in Int, NEW n \in Int
                 PROVE  m * (a + n) = m * a + n * m
OBVIOUS

LEMMA InitCInv == Init => CInv
<1> SUFFICES ASSUME Init PROVE CInv  OBVIOUS
<1>1. JobOK(job)  BY JobIsOK DEF Init
<1>2. /\ job.rows \in Nat \ {0} /\ job.width \in Nat /\ job.sp * 0 = 0
      /\ job.dp * job.r.lines * 0 = 0 /\ job.r.mul * 0 = 0
  BY <1>1 DEF JobOK, RoutineOK
<1>3. KeepsToLine
  BY <1>2 DEF Init, KeepsToLine
<1> QED
  BY <1>1, <1>2, <1>3 DEF Init, CInv, Counts, AtStart, Marked, BlocksLeft, BitsLeft, RestLeft, AtEnd

(* Storing n pixels that the line still has moves both cursors within it.    *)
LEMMA StoreKeeps ==
  ASSUME CInv, pc \in {"loop", "tail", "rest"}, NEW n \in Nat, src + n <= r8,
         NEW b \in BOOLEAN, Store(n, b), pc' \in {"loop", "tail", "rest", "next"}, span' \in Int
  PROVE  /\ Counts' /\ KeepsToLine' /\ Marked'
         /\ src' = src + n /\ r8' = r8 /\ lr' = lr /\ job' = job
<1>1. src' = src + n /\ dst' = dst + n * job.r.mul /\ UNCHANGED <<job, row, lr, r8>>
  BY DEF Store
<1>2. Counts'
  BY <1>1 DEF Counts, CInv, JobOK, RoutineOK
<1> DEFINE B == job.sp * row
           D == job.dp * job.r.lines * row
<1>3. B \in Int /\ D \in Int /\ job.r.mul \in Int /\ job.width \in Nat
  BY DEF CInv, Counts, JobOK, RoutineOK
<1>4. /\ row < job.rows /\ B <= src /\ src <= B + job.width
      /\ dst = D + job.r.mul * (src - B)
      /\ r8 = B + job.width
  BY DEF CInv, KeepsToLine, Marked
<1>5. B' = B /\ D' = D  BY <1>1
<1> HIDE DEF B, D
<1>6. src \in Int /\ src - B \in Int /\ src' - B = (src - B) + n
  BY <1>1, <1>3 DEF CInv, Counts
<1>7. job.r.mul * ((src - B) + n) = job.r.mul * (src - B) + n * job.r.mul
  BY <1>3, <1>6, Product
<1>8. /\ B <= src' /\ src' <= B + job.width
      /\ dst' = D + job.r.mul * (src' - B)
  BY <1>1, <1>3, <1>4, <1>6, <1>7
<1>9. KeepsToLine'
  BY <1>1, <1>4, <1>8 DEF KeepsToLine, B, D
<1> QED
  BY <1>1, <1>2, <1>9 DEF CInv, Marked

LEMMA LineKeeps == CInv /\ Line => CInv'
<1> SUFFICES ASSUME CInv, Line PROVE CInv'  OBVIOUS
<1> DEFINE B == job.sp * row
           w == job.width
           l == job.loop
<1>1. B \in Int /\ w \in Nat \ {0} /\ l \in Nat \ {0} /\ src = B
      /\ (l = w \/ (l \in Sizes /\ job.r.small <= l))
      /\ l > 0
  BY DEF CInv, Counts, JobOK, Line, AtStart
<1>2. /\ lr' = B + (w - (w % l)) /\ r8' = B + w /\ span' = l
      /\ pc' = IF lr' = src THEN "tail" ELSE "loop"
      /\ UNCHANGED <<job, row, src, dst>>
  BY <1>1 DEF Line
<1>3. w % l \in Nat /\ w % l <= w
  BY <1>1, Div
<1>4. Counts' /\ KeepsToLine'
  <2>1. Counts'
    BY <1>1, <1>2, <1>3 DEF CInv, Counts
  <2>2. KeepsToLine'
    BY <1>2 DEF CInv, KeepsToLine, Line
  <2> QED BY <2>1, <2>2
<1>5. Marked'
  BY <1>2 DEF Marked
<1>6. BlocksLeft'
  <2>1. (w - (w % l)) % l = 0
    <3> HIDE DEF w, l
    <3> QED BY <1>1, Whole
  <2> HIDE DEF B
  <2>2. lr' # src' => src' < lr' /\ lr' - src' = w - (w % l)
    BY <1>1, <1>2, <1>3
  <2> QED BY <1>1, <1>2, <2>1, <2>2 DEF BlocksLeft
<1>7. BitsLeft'
  <2> HIDE DEF B
  <2>1. r8' - src' = w
    BY <1>1, <1>2
  <2>2. ASSUME pc' = "tail" PROVE w = w % l
    <3>1. lr' = src  BY <1>2, <2>2
    <3> QED BY <1>1, <1>2, <1>3, <3>1
  <2>3. ASSUME pc' = "tail" PROVE l # w
    BY <1>1, <2>2, <2>3
  <2> QED BY <1>1, <1>2, <2>1, <2>2, <2>3 DEF BitsLeft
<1> QED
  BY <1>2, <1>4, <1>5, <1>6, <1>7 DEF CInv, AtStart, RestLeft, AtEnd

LEMMA LoopKeeps == CInv /\ Loop => CInv'
<1> SUFFICES ASSUME CInv, Loop PROVE CInv'  OBVIOUS
<1> DEFINE w == job.width
           l == job.loop
<1>1. w \in Nat \ {0} /\ l \in Nat \ {0} /\ (l = w \/ (l \in Sizes /\ job.r.small <= l))
      /\ src \in Int /\ lr \in Int /\ r8 \in Int /\ src < lr /\ (lr - src) % l = 0 /\ span = l
  BY DEF CInv, Counts, JobOK, Loop, BlocksLeft
<1>2. w % l \in Nat /\ r8 - lr = w % l
  <2>1. job.sp * row \in Int /\ r8 = job.sp * row + w /\ lr = job.sp * row + (w - (w % l))
    BY DEF CInv, Counts, JobOK, Loop, Marked
  <2>2. w % l \in Nat  BY <1>1, Div
  <2> QED BY <1>1, <2>1, <2>2
<1>3. lr - src >= l /\ ((lr - src) - l) % l = 0
  <2> DEFINE d == lr - src
  <2>1. d \in Nat /\ d # 0 /\ d % l = 0 /\ l \in Nat /\ l > 0
    BY <1>1
  <2> HIDE DEF d, l
  <2>2. d >= l /\ (d - l) % l = 0
    BY <2>1, Blocks
  <2> QED BY <2>2 DEF d
<1>4. Store(l, TRUE) /\ pc' \in {"loop", "tail"} /\ span' = span /\ src + l <= r8
      /\ pc = "loop"
  <2>1. Store(l, TRUE) /\ pc' \in {"loop", "tail"} /\ span' = span /\ pc = "loop"
    BY DEF Loop
  <2> HIDE DEF w, l
  <2>2. src + l <= r8
    BY <1>1, <1>2, <1>3
  <2> QED BY <2>1, <2>2
<1>5. /\ Counts' /\ KeepsToLine' /\ Marked'
      /\ src' = src + l /\ r8' = r8 /\ lr' = lr /\ job' = job
  <2> HIDE DEF l
  <2>1. l \in Nat /\ span' \in Int /\ TRUE \in BOOLEAN /\ pc' \in {"loop", "tail", "rest", "next"}
    BY <1>1, <1>4
  <2> QED BY <1>4, <2>1, StoreKeeps
<1>6. pc' = IF src' = lr THEN "tail" ELSE "loop"  BY DEF Loop
<1>7. BlocksLeft'
  <2>1. lr' - src' = (lr - src) - l  BY <1>1, <1>5
  <2>2. src' # lr => src' < lr'  BY <1>1, <1>3, <1>5
  <2> QED BY <1>1, <1>3, <1>4, <1>5, <1>6, <2>1, <2>2 DEF BlocksLeft
<1>8. BitsLeft'
  <2>1. ASSUME pc' = "tail" PROVE r8' - src' = w % l
    BY <1>1, <1>2, <1>5, <1>6, <2>1
  <2>2. l = w => w % l = 0  BY <1>1
  <2>3. l = w /\ pc' = "tail" => src' = r8'
    BY <1>1, <1>5, <2>1, <2>2
  <2> QED BY <1>1, <1>4, <1>5, <2>1, <2>3 DEF BitsLeft
<1> QED BY <1>4, <1>5, <1>7, <1>8 DEF CInv, AtStart, RestLeft, AtEnd

LEMMA BitsKeeps == CInv /\ Bits => CInv'
<1> SUFFICES ASSUME CInv, Bits PROVE CInv'  OBVIOUS
<1> DEFINE w == job.width
           small == job.r.small
<1>1. w \in Nat \ {0} /\ small \in Sizes /\ span \in Int /\ src \in Int /\ r8 \in Int
      /\ pc = "tail" /\ span > 0 /\ r8 - src = w % span
      /\ (src = r8 \/ (span \in Sizes /\ small <= span))
  BY DEF CInv, Counts, JobOK, RoutineOK, Bits, BitsLeft
<1>2. w % span \in Nat
  BY <1>1, Div
<1>3. CASE src = r8
  <2>1. pc' = "next" /\ UNCHANGED <<job, row, src, dst, lr, r8, span>>
    BY <1>3 DEF Bits
  <2> QED
    BY <1>1, <1>3, <2>1 DEF CInv, Counts, KeepsToLine, AtStart, Marked, BlocksLeft, BitsLeft, RestLeft, AtEnd
<1>4. CASE src # r8 /\ span > small
  <2> DEFINE h == span \div 2
             set == (w \div h) % 2 = 1
  <2>1. span \in Sizes /\ h \in Sizes /\ small <= h /\ w % span = (w % h) + (IF set THEN h ELSE 0)
    BY <1>1, <1>4, BitOf
  <2>2. h \in Nat \ {0}  BY <2>1 DEF Sizes
  <2>3. w % h \in Nat  BY <1>1, <2>2, Div
  <2>4. span' = h /\ pc' = "tail"
    BY <1>1, <1>4 DEF Bits
  <2>5. CASE set
    <3>1. Store(h, TRUE)
      BY <1>4, <2>5 DEF Bits
    <3> HIDE DEF h, set
    <3>2. src + h <= r8
      BY <1>1, <2>1, <2>2, <2>3, <2>5
    <3>3. /\ Counts' /\ KeepsToLine' /\ Marked'
          /\ src' = src + h /\ r8' = r8 /\ lr' = lr /\ job' = job
      <4>1. h \in Nat /\ span' \in Int /\ TRUE \in BOOLEAN /\ pc' \in {"loop", "tail", "rest", "next"}
        BY <2>2, <2>4
      <4> QED BY <1>1, <3>1, <3>2, <4>1, StoreKeeps
    <3>4. r8' - src' = w % h
      BY <1>1, <2>1, <2>2, <2>3, <2>5, <3>3
    <3> QED
      BY <2>1, <2>2, <2>4, <3>3, <3>4 DEF CInv, AtStart, BlocksLeft, BitsLeft, RestLeft, AtEnd
  <2>6. CASE ~set
    <3>1. UNCHANGED <<job, row, src, dst, lr, r8>>
      BY <1>4, <2>6 DEF Bits
    <3> HIDE DEF h, set
    <3>2. r8 - src = w % h
      BY <1>1, <2>1, <2>3, <2>6
    <3>3. Counts' /\ KeepsToLine' /\ Marked'
      BY <1>1, <2>2, <2>4, <3>1 DEF CInv, Counts, KeepsToLine, Marked
    <3> QED
      BY <2>1, <2>2, <2>4, <3>1, <3>2, <3>3 DEF CInv, AtStart, BlocksLeft, BitsLeft, RestLeft, AtEnd
  <2> QED BY <2>5, <2>6
<1>5. CASE src # r8 /\ ~(span > small)
  <2>1. pc' = "rest" /\ UNCHANGED <<job, row, src, dst, lr, r8, span>>
    BY <1>5 DEF Bits
  <2>2. small \in Int  BY <1>1 DEF Sizes
  <2>3. span = small /\ w % small # 0
    BY <1>1, <1>5, <2>2
  <2>4. src < r8
    BY <1>1, <1>2, <1>5
  <2>5. Narrow => r8 - src = job.r.rest
    <3> SUFFICES ASSUME Narrow PROVE r8 - src = job.r.rest  OBVIOUS
    <3>1. job.r.rest \in Nat \ {0} /\ small = 2 * job.r.rest /\ w % job.r.rest = 0
      BY DEF Narrow, CInv, Counts, JobOK, RoutineOK
    <3>2. w % small = job.r.rest
      BY <1>1, <2>3, <3>1, OneWord
    <3> QED BY <1>1, <2>3, <3>2
  <2> QED
    BY <1>1, <2>1, <2>4, <2>5 DEF CInv, Counts, KeepsToLine, AtStart, Marked, BlocksLeft, BitsLeft, RestLeft, AtEnd, Narrow
<1> QED BY <1>3, <1>4, <1>5

LEMMA RestKeeps == CInv /\ Rest => CInv'
<1> SUFFICES ASSUME CInv, Rest PROVE CInv'  OBVIOUS
<1> DEFINE n == job.r.rest
<1>1. n \in Nat \ {0} /\ src \in Int /\ r8 \in Int /\ span \in Int /\ pc = "rest" /\ src < r8
  BY DEF CInv, Counts, JobOK, RoutineOK, Rest, RestLeft
<1>2. IF Narrow THEN r8 - src = n ELSE n = 1
  BY <1>1 DEF CInv, Counts, JobOK, RoutineOK, RestLeft, Narrow
<1>3. Store(n, FALSE) /\ span' = span /\ pc' = (IF src' = r8 \/ Narrow THEN "next" ELSE "rest")
  BY DEF Rest, Narrow
<1>4. src + n <= r8  BY <1>1, <1>2
<1>5. /\ Counts' /\ KeepsToLine' /\ Marked'
      /\ src' = src + n /\ r8' = r8 /\ lr' = lr /\ job' = job
  <2>1. pc' \in {"rest", "next"}  BY <1>3
  <2> QED BY <1>1, <1>3, <1>4, <2>1, StoreKeeps
<1>6. CASE pc' = "next"
  <2>1. src' = r8
    BY <1>1, <1>2, <1>3, <1>5, <1>6
  <2> QED BY <1>5, <1>6, <2>1 DEF CInv, AtStart, BlocksLeft, BitsLeft, RestLeft, AtEnd
<1>7. CASE pc' = "rest"
  <2>1. src' < r8 /\ ~Narrow
    BY <1>1, <1>3, <1>4, <1>5, <1>7
  <2> QED BY <1>5, <1>7, <2>1 DEF CInv, AtStart, BlocksLeft, BitsLeft, RestLeft, AtEnd, Narrow
<1> QED BY <1>3, <1>6, <1>7

LEMMA NextLineKeeps == CInv /\ NextLine => CInv'
<1> SUFFICES ASSUME CInv, NextLine PROVE CInv'  OBVIOUS
<1> DEFINE B == job.sp * row
           P == job.dp * job.r.lines
           m == job.r.mul
           w == job.width
<1>1. /\ job.sp \in Nat \ {0} /\ row \in Nat /\ job.rows \in Nat /\ row < job.rows
      /\ B \in Int /\ P \in Int /\ P * row \in Int /\ m \in Int /\ w \in Int /\ w * m \in Int
      /\ src = B + w /\ dst = P * row + m * (src - B)
  BY DEF CInv, Counts, JobOK, RoutineOK, NextLine, KeepsToLine, Marked, AtEnd
<1>2. /\ src' = src + (job.sp - w) /\ dst' = dst + (P - w * m) /\ row' = row + 1
      /\ pc' = (IF src' = job.sp * job.rows THEN "done" ELSE "line")
      /\ UNCHANGED <<job, lr, r8, span>>
  BY DEF NextLine
<1>3. job.sp * (row + 1) = B + job.sp /\ P * (row + 1) = P * row + P
  <2>1. job.sp * (row + 1) = B + job.sp
    <3>1. job.sp \in Int /\ row \in Int  BY <1>1
    <3> QED BY <3>1, NextTimes
  <2> HIDE DEF P
  <2>2. P * (row + 1) = P * row + P  BY <1>1, NextTimes
  <2> QED BY <2>1, <2>2
<1>4. src' = job.sp * row'
  BY <1>1, <1>2, <1>3
<1>5. dst' = P * row'
  <2>1. src - B = w /\ m * w = w * m  BY <1>1
  <2>2. dst = P * row + w * m  BY <1>1, <2>1
  <2> HIDE DEF P
  <2> QED BY <1>1, <1>2, <1>3, <2>2
<1>6. pc' = "line" => row' < job.rows
  <2>1. pc' = "line" => src' # job.sp * job.rows  BY <1>2
  <2>2. pc' = "line" => row' # job.rows  BY <1>4, <2>1
  <2>3. row \in Nat /\ job.rows \in Nat /\ row < job.rows /\ row' = row + 1
    BY <1>1, <1>2
  <2> QED BY <2>2, <2>3
<1>7. P * row' \in Int /\ job.sp * row' \in Int
  BY <1>1, <1>2
<1>8. Counts'
  <2>1. src' \in Int /\ dst' \in Int  BY <1>4, <1>5, <1>7
  <2> QED BY <1>1, <1>2, <2>1 DEF CInv, Counts
<1>9. KeepsToLine'
  <2>1. src' - job.sp * row' = 0 /\ m * 0 = 0  BY <1>1, <1>4, <1>7
  <2>2. w >= 0 BY DEF CInv, Counts, JobOK
  <2>3. dst' = P * row' + m * (src' - job.sp * row')
    BY <1>5, <1>7, <2>1
  <2>4. job.sp * row' <= src' /\ src' <= job.sp * row' + w
    BY <1>1, <1>4, <1>7, <2>2
  <2> QED BY <1>2, <1>6, <2>3, <2>4 DEF KeepsToLine
<1> QED
  BY <1>2, <1>4, <1>8, <1>9 DEF CInv, AtStart, Marked, BlocksLeft, BitsLeft, RestLeft, AtEnd

LEMMA NextRowKeeps == CInv /\ NextRow => CInv'
<1> SUFFICES ASSUME CInv, NextRow PROVE CInv'  OBVIOUS
<1> DEFINE P == job.dp * job.r.lines
           m == job.r.mul
<1>1. /\ job.sp \in Nat /\ row \in Nat /\ job.rows \in Nat /\ row < job.rows
      /\ P \in Int /\ m \in Int /\ job.width \in Nat
  BY DEF CInv, Counts, JobOK, RoutineOK, NextRow, KeepsToLine
<1>2. /\ row' = row + 1 /\ src' = job.sp * row' /\ dst' = P * row'
      /\ pc' = (IF row' = job.rows THEN "done" ELSE "line")
      /\ UNCHANGED <<job, lr, r8, span>>
  BY DEF NextRow
<1>3. job.sp * row' \in Int /\ P * row' \in Int /\ row' \in Nat
  BY <1>1, <1>2
<1>4. pc' = "line" => row' < job.rows
  BY <1>1, <1>2
<1>5. Counts'
  BY <1>2, <1>3 DEF CInv, Counts
<1>6. KeepsToLine'
  <2>1. src' - job.sp * row' = 0 /\ m * 0 = 0  BY <1>1, <1>2, <1>3
  <2>3. dst' = P * row' + m * (src' - job.sp * row')
    BY <1>2, <1>3, <2>1
  <2>4. job.sp * row' <= src' /\ src' <= job.sp * row' + job.width
    BY <1>1, <1>2, <1>3
  <2> QED BY <1>2, <1>4, <2>3, <2>4 DEF KeepsToLine
<1> QED
  BY <1>2, <1>5, <1>6 DEF CInv, AtStart, Marked, BlocksLeft, BitsLeft, RestLeft, AtEnd

LEMMA NextCInv == CInv /\ [Next]_vars => CInv'
<1> SUFFICES ASSUME CInv, [Next]_vars PROVE CInv'  OBVIOUS
<1>1. CASE UNCHANGED vars
  BY <1>1 DEF vars, CInv, Counts, KeepsToLine, AtStart, Marked, BlocksLeft, BitsLeft, RestLeft, AtEnd, Narrow
<1> QED
  BY <1>1, LineKeeps, LoopKeeps, BitsKeeps, RestKeeps, NextLineKeeps, NextRowKeeps DEF Next

(* For every width, pitch, factor and routine the cursors meet the marks     *)
(* exactly: the equality tests of the assembler's loops stop them.           *)
THEOREM CursorsKeepToLine == Spec => []KeepsToLine
<1>1. CInv => KeepsToLine  BY DEF CInv
<1> QED BY <1>1, InitCInv, NextCInv, PTL DEF Spec

-----------------------------------------------------------------------------
(* Quotients, and the pixel a lane of a block holds.                         *)

LEMMA Parts ==
  ASSUME NEW a \in Nat, NEW d \in Nat \ {0}
  PROVE  /\ a = d * (a \div d) + (a % d)
         /\ a \div d \in Nat /\ a % d \in 0..d - 1
BY Z3

LEMMA Quotient ==
  ASSUME NEW d \in Nat \ {0}, NEW q \in Nat, NEW r \in 0..d - 1
  PROVE  (d * q + r) \div d = q /\ (d * q + r) % d = r
<1> DEFINE a == d * q + r
           p == a \div d
           s == a % d
<1>1. d * q \in Nat /\ a \in Nat
  OBVIOUS
<1>2. a = d * p + s /\ p \in Nat /\ s \in 0..d - 1
  <2> HIDE DEF a
  <2> QED BY <1>1, Parts
<1>3. d * q + r = d * p + s
  BY <1>2
<1> HIDE DEF p, s
<1>4. p = q
  <2>1. CASE p > q
    <3>1. d * p >= d * q + d
      <4>1. d * (p - q) >= d  BY <1>2, <2>1
      <4>2. d * (p - q) = d * p - d * q  BY <1>2
      <4> QED BY <1>1, <1>2, <4>1, <4>2
    <3> QED BY <1>1, <1>2, <1>3, <3>1
  <2>2. CASE p < q
    <3>1. d * q >= d * p + d
      <4>1. d * (q - p) >= d  BY <1>2, <2>2
      <4>2. d * (q - p) = d * q - d * p  BY <1>2
      <4> QED BY <1>1, <1>2, <4>1, <4>2
    <3> QED BY <1>1, <1>2, <1>3, <3>1
  <2> QED BY <1>2, <2>1, <2>2
<1>5. s = r
  BY <1>1, <1>2, <1>3, <1>4
<1> QED BY <1>4, <1>5 DEF p, s

(* A block's lane t of g pixels widened m times holds pixel t \div m.        *)
LaneOK(l, g, m) == \A t \in 0..g * m - 1 : l[t + 1] = t \div m

LEMMA LaneOf ==
  ASSUME NEW g \in Nat \ {0}, NEW m \in Nat \ {0}, NEW l, LaneOK(l, g, m), NEW k \in Nat
  PROVE  g * (k \div (g * m)) + l[(k % (g * m)) + 1] = k \div m
<1> DEFINE P == g * m
           q == k \div P
           t == k % P
<1>1. P \in Nat \ {0}  OBVIOUS
<1>2. k = P * q + t /\ q \in Nat /\ t \in 0..P - 1
  <2> HIDE DEF P
  <2> QED BY <1>1, Parts
<1>3. l[t + 1] = t \div m
  BY <1>2 DEF LaneOK
<1> DEFINE u == t \div m
           v == t % m
<1>4. t = m * u + v /\ u \in Nat /\ v \in 0..m - 1
  <2>1. t \in Nat  BY <1>2
  <2> HIDE DEF P, q, t
  <2> QED BY <2>1, Parts
<1> HIDE DEF q, t, u, v
<1>5. k = m * (g * q + u) + v
  <2>1. P * q = m * (g * q)  BY <1>2
  <2>2. g * q \in Nat  BY <1>2
  <2>3. m * (g * q + u) = m * (g * q) + m * u  BY <1>4, <2>2
  <2> QED BY <1>2, <1>4, <2>1, <2>2, <2>3
<1>6. g * q + u \in Nat  BY <1>2, <1>4
<1>7. k \div m = g * q + u
  BY <1>4, <1>5, <1>6, Quotient
<1> QED BY <1>3, <1>7 DEF u, t, q

-----------------------------------------------------------------------------
(* The lanes of a block, register by register: the first n hold the pixels   *)
(* they should.                                                              *)
Widened(l, n, m) == l \in Seq(Nat) /\ Len(l) = n /\ \A i \in 1..n : l[i] = (i - 1) \div m

LEMMA OneMore ==
  ASSUME NEW m \in Nat \ {0}, NEW n \in Nat, NEW s, Widened(s, n, m),
         NEW c \in Nat, NEW t \in Seq(Nat), Len(t) = c, \A j \in 1..c : t[j] = (n + j - 1) \div m
  PROVE  Widened(s \o t, n + c, m)
<1>1. s \in Seq(Nat) /\ Len(s) = n  BY DEF Widened
<1>2. s \o t \in Seq(Nat) /\ Len(s \o t) = n + c
  BY <1>1, ConcatProperties
<1>3. ASSUME NEW i \in 1..n + c  PROVE (s \o t)[i] = (i - 1) \div m
  <2>1. (s \o t)[i] = IF i <= n THEN s[i] ELSE t[i - n]
    BY <1>1, <1>2, ConcatProperties
  <2>2. CASE i <= n  BY <2>1, <2>2 DEF Widened
  <2>3. CASE i > n
    <3> DEFINE j == i - n
    <3>1. j \in 1..c /\ n + j - 1 = i - 1  BY <2>3
    <3>2. (s \o t)[i] = t[j]  BY <2>1, <2>3
    <3> HIDE DEF j
    <3>3. t[j] = (n + j - 1) \div m  BY <3>1
    <3>4. (n + j - 1) \div m = (i - 1) \div m  BY <3>1, Zenon
    <3> QED BY <3>2, <3>3, <3>4, Zenon
  <2>4. i <= n \/ i > n  OBVIOUS
  <2> QED BY <2>2, <2>3, <2>4, Zenon
<1> QED BY <1>2, <1>3 DEF Widened

LEMMA FirstRegister ==
  ASSUME NEW m \in Nat \ {0}, NEW c \in Nat, NEW t \in Seq(Nat), Len(t) = c,
         \A j \in 1..c : t[j] = (j - 1) \div m
  PROVE  Widened(t, c, m)
BY DEF Widened

LEMMA DupIs ==
  ASSUME NEW p \in Nat
  PROVE  Dup(p) \in Seq(Nat) /\ Len(Dup(p)) = 4 /\ \A j \in 1..4 : Dup(p)[j] = p
BY DEF Dup

LEMMA ExtIs ==
  ASSUME NEW p \in Nat, NEW q \in Nat, NEW n \in 1..3
  PROVE  /\ Ext(p, q, n) \in Seq(Nat) /\ Len(Ext(p, q, n)) = 4
         /\ \A j \in 1..4 : Ext(p, q, n)[j] = IF n + j <= 4 THEN p ELSE q
<1> DEFINE s == Dup(p) \o Dup(q)
<1>0. Dup(p) \in Seq(Nat) /\ Len(Dup(p)) = 4 /\ Dup(q) \in Seq(Nat) /\ Len(Dup(q)) = 4
  BY DupIs
<1>1. s \in Seq(Nat) /\ Len(s) = 8
  <2>1. s \in Seq(Nat)  BY <1>0, ConcatProperties
  <2>2. Len(s) = Len(Dup(p)) + Len(Dup(q))  BY <1>0, ConcatProperties
  <2> QED BY <1>0, <2>1, <2>2
<1>2. \A i \in 1..8 : s[i] = IF i <= 4 THEN p ELSE q
  <2> TAKE i \in 1..8
  <2>1. s[i] = IF i <= 4 THEN Dup(p)[i] ELSE Dup(q)[i - 4]
    <3>1. i \in 1..Len(Dup(p)) + Len(Dup(q))  BY <1>0
    <3>2. s[i] = IF i <= Len(Dup(p)) THEN Dup(p)[i] ELSE Dup(q)[i - Len(Dup(p))]
      BY <1>0, <3>1, ConcatProperties
    <3> QED BY <1>0, <3>2
  <2>2. i <= 4 => i \in 1..4  OBVIOUS
  <2>3. ~(i <= 4) => i - 4 \in 1..4  OBVIOUS
  <2> QED BY <2>1, <2>2, <2>3, DupIs
<1> HIDE DEF s
<1>3. /\ SubSeq(s, n + 1, n + 4) \in Seq(Nat)
      /\ Len(SubSeq(s, n + 1, n + 4)) = 4
      /\ \A j \in 1..4 : SubSeq(s, n + 1, n + 4)[j] = s[n + j]
  <2>1. \A i \in n + 1 .. n + 4 : s[i] \in Nat
    <3> TAKE i \in n + 1 .. n + 4
    <3>1. i \in 1..8  OBVIOUS
    <3> QED BY <1>2, <3>1
  <2>2. n + 1 \in Int /\ n + 4 \in Int /\ n + 1 <= n + 4 /\ (n + 4) - (n + 1) + 1 = 4  OBVIOUS
  <2>3. SubSeq(s, n + 1, n + 4) \in Seq(Nat)  BY <2>1, <2>2, SubSeqProperties
  <2>4. Len(SubSeq(s, n + 1, n + 4)) = 4  BY <2>1, <2>2, SubSeqProperties
  <2>5. \A j \in 1..4 : SubSeq(s, n + 1, n + 4)[j] = s[n + j]
    <3> TAKE j \in 1..4
    <3>1. j \in 1 .. (n + 4) - (n + 1) + 1 /\ (n + 1) + j - 1 = n + j  OBVIOUS
    <3>2. SubSeq(s, n + 1, n + 4)[j] = s[(n + 1) + j - 1]
      BY <2>1, <2>2, <3>1, SubSeqProperties
    <3> QED BY <3>1, <3>2
  <2> QED BY <2>3, <2>4, <2>5
<1>4. \A j \in 1..4 : n + j \in 1..8  OBVIOUS
<1> QED BY <1>2, <1>3, <1>4 DEF Ext, s

-----------------------------------------------------------------------------
(* The lanes the registers are put together to, factor by factor.            *)

LEMMA DupFirst == ASSUME NEW m \in 4..6 PROVE Widened(Dup(0), 4, m)
<1>1. \A j \in 1..4 : (j - 1) \div m = 0
  <2>1. CASE m = 4  BY <2>1
  <2>2. CASE m = 5  BY <2>2
  <2>3. CASE m = 6  BY <2>3
  <2> QED BY <2>1, <2>2, <2>3
<1> DEFINE t == Dup(0)
<1>2. t \in Seq(Nat) /\ Len(t) = 4 /\ \A j \in 1..4 : t[j] = 0
  BY DupIs
<1> HIDE DEF t
<1>3. \A j \in 1..4 : t[j] = (j - 1) \div m
  BY <1>1, <1>2
<1>4. Widened(t, 4, m)
  BY <1>2, <1>3, Zenon DEF Widened
<1> QED BY <1>4 DEF t

LEMMA DupMore ==
  ASSUME NEW m \in 1..6, NEW n \in Nat, NEW s, Widened(s, n, m), NEW p \in Nat,
         \A j \in 1..4 : (n + j - 1) \div m = p
  PROVE  Widened(s \o Dup(p), n + 4, m)
<1> DEFINE t == Dup(p)
<1>1. t \in Seq(Nat) /\ Len(t) = 4 /\ \A j \in 1..4 : t[j] = (n + j - 1) \div m
  BY DupIs
<1>2. m \in Nat \ {0} /\ 4 \in Nat  OBVIOUS
<1> HIDE DEF t
<1>3. Widened(s \o t, n + 4, m)  BY <1>1, <1>2, OneMore
<1> QED BY <1>3 DEF t

LEMMA ExtMore ==
  ASSUME NEW m \in 1..6, NEW n \in Nat, NEW s, Widened(s, n, m), NEW p \in Nat, NEW q \in Nat,
         NEW e \in 1..3,
         \A j \in 1..4 : (n + j - 1) \div m = IF e + j <= 4 THEN p ELSE q
  PROVE  Widened(s \o Ext(p, q, e), n + 4, m)
<1> DEFINE t == Ext(p, q, e)
<1>1. t \in Seq(Nat) /\ Len(t) = 4
  BY ExtIs
<1>2. ASSUME NEW j \in 1..4 PROVE t[j] = (n + j - 1) \div m
  <2>1. t[j] = IF e + j <= 4 THEN p ELSE q  BY ExtIs
  <2>2. (n + j - 1) \div m = IF e + j <= 4 THEN p ELSE q  OBVIOUS
  <2> HIDE DEF t
  <2> QED BY <2>1, <2>2, Zenon
<1>3. m \in Nat \ {0} /\ 4 \in Nat  OBVIOUS
<1> HIDE DEF t
<1>4. Widened(s \o t, n + 4, m)  BY <1>1, <1>2, <1>3, OneMore
<1> QED BY <1>4 DEF t

LEMMA ExtFirst ==
  ASSUME NEW m \in 1..6, NEW e \in 1..3,
         \A j \in 1..4 : (j - 1) \div m = IF e + j <= 4 THEN 0 ELSE 1
  PROVE  Widened(Ext(0, 1, e), 4, m)
<1> DEFINE t == Ext(0, 1, e)
<1>0. 0 \in Nat /\ 1 \in Nat  OBVIOUS
<1>1. t \in Seq(Nat) /\ Len(t) = 4 /\ \A j \in 1..4 : t[j] = IF e + j <= 4 THEN 0 ELSE 1
  BY <1>0, ExtIs, Zenon
<1>2. ASSUME NEW j \in 1..4 PROVE t[j] = (j - 1) \div m
  <2>1. t[j] = IF e + j <= 4 THEN 0 ELSE 1  BY <1>1
  <2>2. (j - 1) \div m = IF e + j <= 4 THEN 0 ELSE 1  OBVIOUS
  <2> HIDE DEF t
  <2> QED BY <2>1, <2>2, Zenon
<1>3. m \in Nat \ {0} /\ 4 \in Nat  OBVIOUS
<1> HIDE DEF t
<1>4. Widened(t, 4, m)  BY <1>1, <1>2, <1>3, FirstRegister
<1> QED BY <1>4 DEF t

(* The lanes the shifts put together are those of the pixels.                *)
LEMMA Lanes2 == Widened(Lanes[2], 8, 2)
<1>1. Widened(Ext(0,1,2), 4, 2)  BY ExtFirst
<1>2. Widened(Ext(0,1,2) \o Ext(2,3,2), 8, 2)  BY <1>1, ExtMore
<1> QED BY <1>2 DEF Lanes

LEMMA Lanes3 == Widened(Lanes[3], 12, 3)
<1>1. Widened(Ext(0,1,1), 4, 3)  BY ExtFirst
<1>2. Widened(Ext(0,1,1) \o Ext(1,2,2), 8, 3)  BY <1>1, ExtMore
<1>3. Widened(Ext(0,1,1) \o Ext(1,2,2) \o Ext(2,3,3), 12, 3)  BY <1>2, ExtMore
<1> QED BY <1>3 DEF Lanes

LEMMA Lanes4 == Widened(Lanes[4], 16, 4)
<1>1. Widened(Dup(0), 4, 4)  BY DupFirst
<1>2. Widened(Dup(0) \o Dup(1), 8, 4)  BY <1>1, DupMore
<1>3. Widened(Dup(0) \o Dup(1) \o Dup(2), 12, 4)  BY <1>2, DupMore
<1>4. Widened(Dup(0) \o Dup(1) \o Dup(2) \o Dup(3), 16, 4)  BY <1>3, DupMore
<1> QED BY <1>4 DEF Lanes

LEMMA Lanes5 == Widened(Lanes[5], 20, 5)
<1>1. Widened(Dup(0), 4, 5)  BY DupFirst
<1>2. Widened(Dup(0) \o Ext(0,1,3), 8, 5)  BY <1>1, ExtMore
<1>3. Widened(Dup(0) \o Ext(0,1,3) \o Ext(1,2,2), 12, 5)  BY <1>2, ExtMore
<1>4. Widened(Dup(0) \o Ext(0,1,3) \o Ext(1,2,2) \o Ext(2,3,1), 16, 5)  BY <1>3, ExtMore
<1>5. Widened(Dup(0) \o Ext(0,1,3) \o Ext(1,2,2) \o Ext(2,3,1) \o Dup(3), 20, 5)  BY <1>4, DupMore
<1> QED BY <1>5 DEF Lanes

LEMMA Lanes6 == Widened(Lanes[6], 24, 6)
<1>1. Widened(Dup(0), 4, 6)  BY DupFirst
<1>2. Widened(Dup(0) \o Ext(0,1,2), 8, 6)  BY <1>1, ExtMore
<1>3. Widened(Dup(0) \o Ext(0,1,2) \o Dup(1), 12, 6)  BY <1>2, DupMore
<1>4. Widened(Dup(0) \o Ext(0,1,2) \o Dup(1) \o Dup(2), 16, 6)  BY <1>3, DupMore
<1>5. Widened(Dup(0) \o Ext(0,1,2) \o Dup(1) \o Dup(2) \o Ext(2,3,2), 20, 6)  BY <1>4, ExtMore
<1>6. Widened(Dup(0) \o Ext(0,1,2) \o Dup(1) \o Dup(2) \o Ext(2,3,2) \o Dup(3), 24, 6)
  BY <1>5, DupMore
<1> QED BY <1>6 DEF Lanes

\* Words of two pixels.
LEMMA PairMore ==
  ASSUME NEW m \in 2..6, NEW n \in Nat, NEW s, Widened(s, n, m), NEW p \in 0..1, NEW q \in 0..1,
         n \div m = p, (n + 1) \div m = q
  PROVE  Widened(s \o <<p, q>>, n + 2, m)
<1>1. <<p, q>> \in Seq(Nat) /\ Len(<<p, q>>) = 2  OBVIOUS
<1>2. ASSUME NEW j \in 1..2 PROVE <<p, q>>[j] = (n + j - 1) \div m
  <2>1. CASE j = 1  BY <2>1
  <2>2. CASE j = 2  BY <2>2
  <2> QED BY <2>1, <2>2
<1>3. m \in Nat \ {0} /\ 2 \in Nat  OBVIOUS
<1> QED BY <1>1, <1>2, <1>3, OneMore

LEMMA PairFirst == ASSUME NEW m \in 2..6 PROVE Widened(<<0, 0>>, 2, m)
<1>1. <<0, 0>> \in Seq(Nat) /\ Len(<<0, 0>>) = 2  OBVIOUS
<1>2. ASSUME NEW j \in 1..2 PROVE <<0, 0>>[j] = (j - 1) \div m
  <2>1. (j - 1) \div m = 0
    <3>1. CASE m = 2  BY <3>1
    <3>2. CASE m = 3  BY <3>2
    <3>3. CASE m = 4  BY <3>3
    <3>4. CASE m = 5  BY <3>4
    <3>5. CASE m = 6  BY <3>5
    <3> QED BY <3>1, <3>2, <3>3, <3>4, <3>5
  <2> QED BY <2>1
<1>3. m \in Nat \ {0} /\ 2 \in Nat  OBVIOUS
<1> QED BY <1>1, <1>2, <1>3, FirstRegister

LEMMA PairsWidened == \A m \in 2..6 : Widened(Pairs[m], 2 * m, m)
<1> DEFINE a == <<0, 0>>
           b == <<0, 1>>
           c == <<1, 1>>
<1>2. Widened(a \o c, 4, 2)  BY PairFirst, PairMore
<1>3. Widened(a \o b \o c, 6, 3)
  <2>1. Widened(a \o b, 4, 3)  BY PairFirst, PairMore
  <2> QED BY <2>1, PairMore
<1>4. Widened(a \o a \o c \o c, 8, 4)
  <2>1. Widened(a \o a, 4, 4)  BY PairFirst, PairMore
  <2>2. Widened(a \o a \o c, 6, 4)  BY <2>1, PairMore
  <2> QED BY <2>2, PairMore
<1>5. Widened(a \o a \o b \o c \o c, 10, 5)
  <2>1. Widened(a \o a, 4, 5)  BY PairFirst, PairMore
  <2>2. Widened(a \o a \o b, 6, 5)  BY <2>1, PairMore
  <2>3. Widened(a \o a \o b \o c, 8, 5)  BY <2>2, PairMore
  <2> QED BY <2>3, PairMore
<1>6. Widened(a \o a \o a \o c \o c \o c, 12, 6)
  <2>1. Widened(a \o a, 4, 6)  BY PairFirst, PairMore
  <2>2. Widened(a \o a \o a, 6, 6)  BY <2>1, PairMore
  <2>3. Widened(a \o a \o a \o c, 8, 6)  BY <2>2, PairMore
  <2>4. Widened(a \o a \o a \o c \o c, 10, 6)  BY <2>3, PairMore
  <2> QED BY <2>4, PairMore
<1>7. /\ Pairs[2] = a \o c /\ Pairs[3] = a \o b \o c /\ Pairs[4] = a \o a \o c \o c
      /\ Pairs[5] = a \o a \o b \o c \o c /\ Pairs[6] = a \o a \o a \o c \o c \o c
  BY DEF Pairs, dpix1, pix, dpix2
<1> HIDE DEF a, b, c
<1>8. /\ Widened(Pairs[2], 4, 2) /\ Widened(Pairs[3], 6, 3) /\ Widened(Pairs[4], 8, 4)
      /\ Widened(Pairs[5], 10, 5) /\ Widened(Pairs[6], 12, 6)
  BY <1>2, <1>3, <1>4, <1>5, <1>6, <1>7, Zenon
<1> SUFFICES ASSUME NEW m \in 2..6 PROVE Widened(Pairs[m], 2 * m, m)  OBVIOUS
<1>9. /\ m = 2 \/ m = 3 \/ m = 4 \/ m = 5 \/ m = 6
      /\ 2 * 2 = 4 /\ 2 * 3 = 6 /\ 2 * 4 = 8 /\ 2 * 5 = 10 /\ 2 * 6 = 12
  OBVIOUS
<1> QED BY <1>8, <1>9

-----------------------------------------------------------------------------
(* What a routine stores: the lanes of a block are those of its pixels, and  *)
(* a line that is copied to the others has one shade.                        *)
StoresOK(r) ==
  /\ r.group \in {1, 2, 4}
  /\ Widened(r.lanes, r.group * r.mul, r.mul)
  /\ r.kind = "lines" => \A i \in 1..r.lines : \A k \in 1..r.mul : r.pattern[i][k] = "c1"

LEMMA LanesWidened ==
  ASSUME NEW mul \in 1..6
  PROVE  Widened(Lanes[mul], (IF mul = 1 THEN 1 ELSE 4) * mul, mul)
<1>1. Widened(Lanes[1], 1, 1)
  <2>1. Lanes[1] = <<0>>  BY DEF Lanes
  <2>2. <<0>> \in Seq(Nat) /\ Len(<<0>>) = 1 /\ \A i \in 1..1 : <<0>>[i] = (i - 1) \div 1
    OBVIOUS
  <2> QED BY <2>1, <2>2 DEF Widened
<1>2. /\ Widened(Lanes[1], 1 * 1, 1) /\ Widened(Lanes[2], 4 * 2, 2) /\ Widened(Lanes[3], 4 * 3, 3)
      /\ Widened(Lanes[4], 4 * 4, 4) /\ Widened(Lanes[5], 4 * 5, 5) /\ Widened(Lanes[6], 4 * 6, 6)
  BY <1>1, Lanes2, Lanes3, Lanes4, Lanes5, Lanes6
<1> QED BY <1>2

LEMMA ZerosWidened ==
  ASSUME NEW mul \in 1..6
  PROVE  Widened([j \in 1..mul |-> 0], 1 * mul, mul)
<1> DEFINE z == [j \in 1..mul |-> 0]
<1>1. z \in Seq(Nat) /\ Len(z) = mul
  <2>1. z \in [1..mul -> Nat] /\ mul \in Nat  OBVIOUS
  <2> QED BY <2>1, SeqDef
<1>2. ASSUME NEW i \in 1..mul PROVE (i - 1) \div mul = 0
  <2>1. CASE mul = 1  BY <2>1
  <2>2. CASE mul = 2  BY <2>2
  <2>3. CASE mul = 3  BY <2>3
  <2>4. CASE mul = 4  BY <2>4
  <2>5. CASE mul = 5  BY <2>5
  <2>6. CASE mul = 6  BY <2>6
  <2> QED BY <2>1, <2>2, <2>3, <2>4, <2>5, <2>6
<1>3. 1 * mul = mul /\ \A i \in 1..mul : z[i] = 0  OBVIOUS
<1> HIDE DEF z
<1>4. Widened(z, mul, mul)  BY <1>1, <1>2, <1>3 DEF Widened
<1> QED BY <1>3, <1>4 DEF z

LEMMA AsmStores ==
  ASSUME NEW mul \in 1..6, NEW lines \in 1..6, NEW bpp, NEW loop, NEW small, NEW rest, NEW back
  PROVE  StoresOK(Asm(mul, lines, bpp, loop, small, rest, back))
<1> DEFINE r == Asm(mul, lines, bpp, loop, small, rest, back)
<1>1. /\ r.group = (IF mul = 1 THEN 1 ELSE 4) /\ r.mul = mul /\ r.lanes = Lanes[mul]
      /\ r.kind = "asm"
  BY DEF Asm
<1> HIDE DEF r
<1>2. Widened(r.lanes, r.group * r.mul, r.mul)
  BY <1>1, LanesWidened
<1>3. StoresOK(r)  BY <1>1, <1>2 DEF StoresOK
<1> QED BY <1>3 DEF r

LEMMA AsmLineStores ==
  ASSUME NEW mul \in 1..6, NEW lines \in 1..6, NEW bpp, NEW loop, NEW small, NEW rest
  PROVE  StoresOK(AsmLine(mul, lines, bpp, loop, small, rest))
<1> DEFINE r == AsmLine(mul, lines, bpp, loop, small, rest)
<1>1. /\ r.group = (IF mul = 1 THEN 1 ELSE 4) /\ r.mul = mul /\ r.lanes = Lanes[mul]
      /\ r.lines = lines /\ r.pattern = Plain(mul, lines)
  BY DEF AsmLine, Asm
<1> HIDE DEF r
<1>2. Widened(r.lanes, r.group * r.mul, r.mul)
  BY <1>1, LanesWidened
<1>3. StoresOK(r)  BY <1>1, <1>2 DEF StoresOK, Plain
<1> QED BY <1>3 DEF r

LEMMA CopyStores ==
  ASSUME NEW lines \in 1..6, NEW bpp
  PROVE  StoresOK(Copy(lines, bpp))
<1> DEFINE r == Copy(lines, bpp)
<1>1. /\ r.group = 1 /\ r.mul = 1 /\ r.lanes = <<0>>
      /\ r.lines = lines /\ r.pattern = Plain(1, lines)
  BY DEF Copy
<1>2. Lanes[1] = <<0>>  BY DEF Lanes
<1> HIDE DEF r
<1>3. Widened(r.lanes, r.group * r.mul, r.mul)
  BY <1>1, <1>2, LanesWidened
<1>4. StoresOK(r)  BY <1>1, <1>3 DEF StoresOK, Plain
<1> QED BY <1>4 DEF r

LEMMA CLinesStores ==
  ASSUME NEW mul \in 2..6, NEW lines \in 1..6, NEW bpp \in {2, 4}
  PROVE  StoresOK(CLines(mul, lines, bpp))
<1> DEFINE r == CLines(mul, lines, bpp)
<1>1. /\ r.group = (IF bpp = 2 THEN 2 ELSE 1) /\ r.mul = mul
      /\ r.lanes = (IF bpp = 2 THEN Pairs[mul] ELSE [j \in 1..mul |-> 0])
      /\ r.lines = lines /\ r.pattern = Plain(mul, lines)
  BY DEF CLines
<1> HIDE DEF r
<1>2. Widened(r.lanes, r.group * r.mul, r.mul)
  <2>1. CASE bpp = 2
    <3>1. Widened(Pairs[mul], 2 * mul, mul)  BY PairsWidened
    <3> QED BY <1>1, <2>1, <3>1, Zenon
  <2>2. CASE bpp # 2
    <3>0. mul \in 1..6  OBVIOUS
    <3>1. Widened([j \in 1..mul |-> 0], 1 * mul, mul)  BY <3>0, ZerosWidened
    <3> QED BY <1>1, <2>2, <3>1, Zenon
  <2> QED BY <2>1, <2>2
<1>3. StoresOK(r)  BY <1>1, <1>2 DEF StoresOK, Plain
<1> QED BY <1>3 DEF r

LEMMA CellsStores ==
  \A r \in {scale2x_line, scale2x_grid, scale3x_line, scale3x_grid, scale4x_line} : StoresOK(r)
<1> SUFFICES ASSUME NEW r \in {scale2x_line, scale2x_grid, scale3x_line, scale3x_grid, scale4x_line}
             PROVE  StoresOK(r)
  OBVIOUS
<1>1. r.mul \in 1..6 /\ r.kind = "cells"  BY EffectsOK
<1>2. r.group = 1 /\ r.lanes = [j \in 1..r.mul |-> 0]
  <2>1. CASE r = scale2x_line  BY <2>1 DEF Cells, scale2x_line
  <2>2. CASE r = scale2x_grid  BY <2>2 DEF Cells, scale2x_grid
  <2>3. CASE r = scale3x_line  BY <2>3 DEF Cells, scale3x_line
  <2>4. CASE r = scale3x_grid  BY <2>4 DEF Cells, scale3x_grid
  <2>5. CASE r = scale4x_line  BY <2>5 DEF Cells, scale4x_line
  <2> QED BY <2>1, <2>2, <2>3, <2>4, <2>5
<1> QED BY <1>1, <1>2, ZerosWidened DEF StoresOK

LEMMA N16Stores ==
  ASSUME NEW x \in DOMAIN scaler_n16, NEW y \in DOMAIN scaler_n16[x]
  PROVE  StoresOK(scaler_n16[x][y])
<1>0. x \in 1..6  BY DEF scaler_n16
<1>1. CASE x = 1
  <2>1. scaler_n16[1] = <<scale1x1_n16, scale1x2_n16, scale1x3_n16, scale1x4_n16>>
    BY DEF scaler_n16
  <2>2. StoresOK(scale1x1_n16)
    <3> DEFINE r == memcpy_neon(2)
    <3>1. StoresOK(r)  BY AsmLineStores DEF memcpy_neon
    <3>2. /\ scale1x1_n16.group = r.group /\ scale1x1_n16.lanes = r.lanes /\ scale1x1_n16.mul = r.mul
          /\ scale1x1_n16.kind = r.kind /\ scale1x1_n16.lines = r.lines
          /\ scale1x1_n16.pattern = r.pattern
      BY DEF scale1x1_n16, memcpy_neon, AsmLine, Asm
    <3> HIDE DEF r
    <3> QED BY <3>1, <3>2 DEF StoresOK
  <2>3. /\ StoresOK(scale1x2_n16) /\ StoresOK(scale1x3_n16)
        /\ StoresOK(scale1x4_n16)
    BY AsmStores DEF scale1x2_n16, scale1x3_n16, scale1x4_n16
  <2>4. y \in 1..4  BY <1>1, <2>1
  <2> QED BY <1>1, <2>1, <2>2, <2>3, <2>4
<1>2. CASE x = 2
  <2>1. scaler_n16[2] = <<scale2x1_n16, scale2x2_n16, scale2x3_n16, scale2x4_n16>>
    BY DEF scaler_n16
  <2>2. StoresOK(scale2x1_n16)
    BY AsmStores DEF scale2x1_n16
  <2>3. /\ StoresOK(scale2x2_n16) /\ StoresOK(scale2x3_n16)
        /\ StoresOK(scale2x4_n16)
    BY AsmStores DEF scale2x2_n16, scale2x3_n16, scale2x4_n16
  <2>4. y \in 1..4  BY <1>2, <2>1
  <2> QED BY <1>2, <2>1, <2>2, <2>3, <2>4
<1>3. CASE x = 3
  <2>1. scaler_n16[3] = <<scale3x1_n16, scale3x2_n16, scale3x3_n16, scale3x4_n16>>
    BY DEF scaler_n16
  <2>2. StoresOK(scale3x1_n16)
    BY AsmStores DEF scale3x1_n16
  <2>3. /\ StoresOK(scale3x2_n16) /\ StoresOK(scale3x3_n16)
        /\ StoresOK(scale3x4_n16)
    BY AsmStores DEF scale3x2_n16, scale3x3_n16, scale3x4_n16
  <2>4. y \in 1..4  BY <1>3, <2>1
  <2> QED BY <1>3, <2>1, <2>2, <2>3, <2>4
<1>4. CASE x = 4
  <2>1. scaler_n16[4] = <<scale4x1_n16, scale4x2_n16, scale4x3_n16, scale4x4_n16>>
    BY DEF scaler_n16
  <2>2. StoresOK(scale4x1_n16)
    BY AsmStores DEF scale4x1_n16
  <2>3. /\ StoresOK(scale4x2_n16) /\ StoresOK(scale4x3_n16)
        /\ StoresOK(scale4x4_n16)
    BY AsmStores DEF scale4x2_n16, scale4x3_n16, scale4x4_n16
  <2>4. y \in 1..4  BY <1>4, <2>1
  <2> QED BY <1>4, <2>1, <2>2, <2>3, <2>4
<1>5. CASE x = 5
  <2>1. scaler_n16[5] = [l \in 1..5 |-> scale5x_n16(l)]  BY DEF scaler_n16
  <2>2. y \in 1..5  BY <1>5, <2>1
  <2>3. StoresOK(scale5x_n16(y))  BY <2>2, AsmLineStores DEF scale5x_n16
  <2> QED BY <1>5, <2>1, <2>2, <2>3
<1>6. CASE x = 6
  <2>1. scaler_n16[6] = [l \in 1..6 |-> scale6x_n16(l)]  BY DEF scaler_n16
  <2>2. y \in 1..6  BY <1>6, <2>1
  <2>3. StoresOK(scale6x_n16(y))  BY <2>2, AsmLineStores DEF scale6x_n16
  <2> QED BY <1>6, <2>1, <2>2, <2>3
<1> QED BY <1>0, <1>1, <1>2, <1>3, <1>4, <1>5, <1>6

LEMMA N32Stores ==
  ASSUME NEW x \in DOMAIN scaler_n32, NEW y \in DOMAIN scaler_n32[x]
  PROVE  StoresOK(scaler_n32[x][y])
<1>0. x \in 1..6  BY DEF scaler_n32
<1>1. CASE x = 1
  <2>1. scaler_n32[1] = <<scale1x1_n32, scale1x2_n32, scale1x3_n32, scale1x4_n32>>
    BY DEF scaler_n32
  <2>2. StoresOK(scale1x1_n32)
    <3> DEFINE r == memcpy_neon(4)
    <3>1. StoresOK(r)  BY AsmLineStores DEF memcpy_neon
    <3>2. /\ scale1x1_n32.group = r.group /\ scale1x1_n32.lanes = r.lanes /\ scale1x1_n32.mul = r.mul
          /\ scale1x1_n32.kind = r.kind /\ scale1x1_n32.lines = r.lines
          /\ scale1x1_n32.pattern = r.pattern
      BY DEF scale1x1_n32, memcpy_neon, AsmLine, Asm
    <3> HIDE DEF r
    <3> QED BY <3>1, <3>2 DEF StoresOK
  <2>3. /\ StoresOK(scale1x2_n32) /\ StoresOK(scale1x3_n32)
        /\ StoresOK(scale1x4_n32)
    BY AsmStores DEF scale1x2_n32, scale1x3_n32, scale1x4_n32
  <2>4. y \in 1..4  BY <1>1, <2>1
  <2> QED BY <1>1, <2>1, <2>2, <2>3, <2>4
<1>2. CASE x = 2
  <2>1. scaler_n32[2] = <<scale2x1_n32, scale2x2_n32, scale2x3_n32, scale2x4_n32>>
    BY DEF scaler_n32
  <2>2. StoresOK(scale2x1_n32)
    BY AsmStores DEF scale2x1_n32
  <2>3. /\ StoresOK(scale2x2_n32) /\ StoresOK(scale2x3_n32)
        /\ StoresOK(scale2x4_n32)
    BY AsmStores DEF scale2x2_n32, scale2x3_n32, scale2x4_n32
  <2>4. y \in 1..4  BY <1>2, <2>1
  <2> QED BY <1>2, <2>1, <2>2, <2>3, <2>4
<1>3. CASE x = 3
  <2>1. scaler_n32[3] = <<scale3x1_n32, scale3x2_n32, scale3x3_n32, scale3x4_n32>>
    BY DEF scaler_n32
  <2>2. StoresOK(scale3x1_n32)
    BY AsmStores DEF scale3x1_n32
  <2>3. /\ StoresOK(scale3x2_n32) /\ StoresOK(scale3x3_n32)
        /\ StoresOK(scale3x4_n32)
    BY AsmStores DEF scale3x2_n32, scale3x3_n32, scale3x4_n32
  <2>4. y \in 1..4  BY <1>3, <2>1
  <2> QED BY <1>3, <2>1, <2>2, <2>3, <2>4
<1>4. CASE x = 4
  <2>1. scaler_n32[4] = <<scale4x1_n32, scale4x2_n32, scale4x3_n32, scale4x4_n32>>
    BY DEF scaler_n32
  <2>2. StoresOK(scale4x1_n32)
    BY AsmStores DEF scale4x1_n32
  <2>3. /\ StoresOK(scale4x2_n32) /\ StoresOK(scale4x3_n32)
        /\ StoresOK(scale4x4_n32)
    BY AsmStores DEF scale4x2_n32, scale4x3_n32, scale4x4_n32
  <2>4. y \in 1..4  BY <1>4, <2>1
  <2> QED BY <1>4, <2>1, <2>2, <2>3, <2>4
<1>5. CASE x = 5
  <2>1. scaler_n32[5] = [l \in 1..5 |-> scale5x_n32(l)]  BY DEF scaler_n32
  <2>2. y \in 1..5  BY <1>5, <2>1
  <2>3. StoresOK(scale5x_n32(y))  BY <2>2, AsmLineStores DEF scale5x_n32
  <2> QED BY <1>5, <2>1, <2>2, <2>3
<1>6. CASE x = 6
  <2>1. scaler_n32[6] = [l \in 1..6 |-> scale6x_n32(l)]  BY DEF scaler_n32
  <2>2. y \in 1..6  BY <1>6, <2>1
  <2>3. StoresOK(scale6x_n32(y))  BY <2>2, AsmLineStores DEF scale6x_n32
  <2> QED BY <1>6, <2>1, <2>2, <2>3
<1> QED BY <1>0, <1>1, <1>2, <1>3, <1>4, <1>5, <1>6

LEMMA C16Stores ==
  ASSUME NEW x \in 1..6, NEW y \in DOMAIN scaler_c16[x]
  PROVE  StoresOK(scaler_c16[x][y])
<1>1. CASE x = 1
  <2>1. scaler_c16[1] = [l \in 1..4 |-> scale1x_c16(l)]  BY DEF scaler_c16
  <2>2. y \in 1..4  BY <1>1, <2>1
  <2>3. StoresOK(scale1x_c16(y))  BY <2>2, CopyStores DEF scale1x_c16
  <2> QED BY <1>1, <2>1, <2>2, <2>3
<1>2. CASE x = 2
  <2>1. scaler_c16[2] = [l \in 1..4 |-> scale2x_c16(l)]  BY DEF scaler_c16
  <2>2. y \in 1..4  BY <1>2, <2>1
  <2>3. StoresOK(scale2x_c16(y))  BY <2>2, CLinesStores DEF scale2x_c16
  <2> QED BY <1>2, <2>1, <2>2, <2>3
<1>3. CASE x = 3
  <2>1. scaler_c16[3] = [l \in 1..4 |-> scale3x_c16(l)]  BY DEF scaler_c16
  <2>2. y \in 1..4  BY <1>3, <2>1
  <2>3. StoresOK(scale3x_c16(y))  BY <2>2, CLinesStores DEF scale3x_c16
  <2> QED BY <1>3, <2>1, <2>2, <2>3
<1>4. CASE x = 4
  <2>1. scaler_c16[4] = [l \in 1..4 |-> scale4x_c16(l)]  BY DEF scaler_c16
  <2>2. y \in 1..4  BY <1>4, <2>1
  <2>3. StoresOK(scale4x_c16(y))  BY <2>2, CLinesStores DEF scale4x_c16
  <2> QED BY <1>4, <2>1, <2>2, <2>3
<1>5. CASE x = 5
  <2>1. scaler_c16[5] = [l \in 1..5 |-> scale5x_c16(l)]  BY DEF scaler_c16
  <2>2. y \in 1..5  BY <1>5, <2>1
  <2>3. StoresOK(scale5x_c16(y))  BY <2>2, CLinesStores DEF scale5x_c16
  <2> QED BY <1>5, <2>1, <2>2, <2>3
<1>6. CASE x = 6
  <2>1. scaler_c16[6] = [l \in 1..6 |-> scale6x_c16(l)]  BY DEF scaler_c16
  <2>2. y \in 1..6  BY <1>6, <2>1
  <2>3. StoresOK(scale6x_c16(y))  BY <2>2, CLinesStores DEF scale6x_c16
  <2> QED BY <1>6, <2>1, <2>2, <2>3
<1> QED BY <1>1, <1>2, <1>3, <1>4, <1>5, <1>6

LEMMA C32Stores ==
  ASSUME NEW x \in 1..6, NEW y \in DOMAIN scaler_c32[x]
  PROVE  StoresOK(scaler_c32[x][y])
<1>1. CASE x = 1
  <2>1. scaler_c32[1] = [l \in 1..4 |-> scale1x_c32(l)]  BY DEF scaler_c32
  <2>2. y \in 1..4  BY <1>1, <2>1
  <2>3. StoresOK(scale1x_c32(y))  BY <2>2, CopyStores DEF scale1x_c32
  <2> QED BY <1>1, <2>1, <2>2, <2>3
<1>2. CASE x = 2
  <2>1. scaler_c32[2] = [l \in 1..4 |-> scale2x_c32(l)]  BY DEF scaler_c32
  <2>2. y \in 1..4  BY <1>2, <2>1
  <2>3. StoresOK(scale2x_c32(y))  BY <2>2, CLinesStores DEF scale2x_c32
  <2> QED BY <1>2, <2>1, <2>2, <2>3
<1>3. CASE x = 3
  <2>1. scaler_c32[3] = [l \in 1..4 |-> scale3x_c32(l)]  BY DEF scaler_c32
  <2>2. y \in 1..4  BY <1>3, <2>1
  <2>3. StoresOK(scale3x_c32(y))  BY <2>2, CLinesStores DEF scale3x_c32
  <2> QED BY <1>3, <2>1, <2>2, <2>3
<1>4. CASE x = 4
  <2>1. scaler_c32[4] = [l \in 1..4 |-> scale4x_c32(l)]  BY DEF scaler_c32
  <2>2. y \in 1..4  BY <1>4, <2>1
  <2>3. StoresOK(scale4x_c32(y))  BY <2>2, CLinesStores DEF scale4x_c32
  <2> QED BY <1>4, <2>1, <2>2, <2>3
<1>5. CASE x = 5
  <2>1. scaler_c32[5] = [l \in 1..5 |-> scale5x_c32(l)]  BY DEF scaler_c32
  <2>2. y \in 1..5  BY <1>5, <2>1
  <2>3. StoresOK(scale5x_c32(y))  BY <2>2, CLinesStores DEF scale5x_c32
  <2> QED BY <1>5, <2>1, <2>2, <2>3
<1>6. CASE x = 6
  <2>1. scaler_c32[6] = [l \in 1..6 |-> scale6x_c32(l)]  BY DEF scaler_c32
  <2>2. y \in 1..6  BY <1>6, <2>1
  <2>3. StoresOK(scale6x_c32(y))  BY <2>2, CLinesStores DEF scale6x_c32
  <2> QED BY <1>6, <2>1, <2>2, <2>3
<1> QED BY <1>1, <1>2, <1>3, <1>4, <1>5, <1>6

LEMMA AskedStores ==
  ASSUME NEW c \in Calls, Listed(c)
  PROVE  StoresOK(Table[c.scaler][c.xmul][c.ymul])
<1> DEFINE x == c.xmul
           y == c.ymul
           r == Table[c.scaler][x][y]
<1>0. /\ x \in 1..6
      /\ x \in DOMAIN Table[c.scaler] /\ y \in DOMAIN Table[c.scaler][x]
  BY TableOf DEF Listed
<1>1. CASE c.scaler = "n16"
  <2>1. Table[c.scaler] = scaler_n16  BY <1>1 DEF Table
  <2> QED BY <1>0, <2>1, N16Stores
<1>2. CASE c.scaler = "n32"
  <2>1. Table[c.scaler] = scaler_n32  BY <1>2 DEF Table
  <2> QED BY <1>0, <2>1, N32Stores
<1>3. CASE c.scaler = "c16"
  <2>1. Table[c.scaler] = scaler_c16  BY <1>3 DEF Table
  <2> QED BY <1>0, <2>1, C16Stores
<1>4. CASE c.scaler = "c32"
  <2>1. Table[c.scaler] = scaler_c32  BY <1>4 DEF Table
  <2> QED BY <1>0, <2>1, C32Stores
<1>5. CASE c.scaler \in {"line", "grid"}
  <2>1. r \in {scale2x_line, scale2x_grid, scale3x_line, scale3x_grid, scale4x_line}
    <3>1. CASE c.scaler = "line"  BY <1>0, <3>1, LinesListed
    <3>2. CASE c.scaler = "grid"  BY <1>0, <3>2, GridsListed
    <3> QED BY <1>5, <3>1, <3>2
  <2> HIDE DEF r
  <2>2. StoresOK(r)  BY <2>1, CellsStores
  <2> QED BY <2>2 DEF r
<1> QED BY <1>1, <1>2, <1>3, <1>4, <1>5, TableOf

(* Whatever a call asks for, the routine that runs stores it in place.       *)
LEMMA JobStores ==
  ASSUME NEW c \in Calls, Listed(c)
  PROVE  StoresOK(Job(c).r)
<1> DEFINE asked == Table[c.scaler][c.xmul][c.ymul]
           sp == IF c.sp = 0 THEN c.sw ELSE c.sp
           dp == IF c.dp = 0 THEN c.xmul * c.sw ELSE c.dp
           r == IF Misaligned(c, sp, dp) THEN InC(c, asked.fallback) ELSE asked
<1>1. Job(c).r = r  BY DEF Job
<1>2. CASE ~Misaligned(c, sp, dp)
  <2>1. r = asked  BY <1>2
  <2> QED BY <1>1, <2>1, AskedStores
<1>3. CASE Misaligned(c, sp, dp)
  <2>1. r = InC(c, asked.fallback) /\ c.scaler \in {"n16", "n32"}
    BY <1>3 DEF Misaligned
  <2> HIDE DEF r
  <2>2. CASE c.scaler = "n16"
    <3>1. asked.fallback \in DOMAIN scaler_c16[c.xmul] /\ c.xmul \in 1..6
      BY <2>2, AskedOK, TableOf
    <3>2. r = scaler_c16[c.xmul][asked.fallback]
      BY <2>1, <2>2 DEF InC
    <3> HIDE DEF asked
    <3> QED BY <1>1, <3>1, <3>2, C16Stores
  <2>3. CASE c.scaler = "n32"
    <3>1. asked.fallback \in DOMAIN scaler_c32[c.xmul] /\ c.xmul \in 1..6
      BY <2>3, AskedOK, TableOf
    <3>2. r = scaler_c32[c.xmul][asked.fallback]
      BY <2>1, <2>3 DEF InC
    <3> HIDE DEF asked
    <3> QED BY <1>1, <3>1, <3>2, C32Stores
  <2> QED BY <2>1, <2>2, <2>3
<1> QED BY <1>2, <1>3

(* The routine that runs has the factors and the shades asked for, but for   *)
(* the C scaler of three lines that stands in for one of four.               *)
AsAsked ==
  /\ job.r.mul = job.call.xmul
  /\ ~ShortFallback => job.r.lines = job.call.ymul /\ job.r.pattern = Shades(job.call)

LEMMA InitAsAsked == Init => AsAsked
<1> SUFFICES ASSUME NEW c \in Calls, Listed(c), job = Job(c) PROVE AsAsked
  BY DEF Init
<1> DEFINE asked == Table[c.scaler][c.xmul][c.ymul]
           sp == IF c.sp = 0 THEN c.sw ELSE c.sp
           dp == IF c.dp = 0 THEN c.xmul * c.sw ELSE c.dp
           r == IF Misaligned(c, sp, dp) THEN InC(c, asked.fallback) ELSE asked
<1>1. job.call = c /\ job.r = r  BY DEF Job
<1>2. CASE ~Misaligned(c, sp, dp)
  <2>1. r = asked  BY <1>2
  <2>2. r.mul = c.xmul /\ r.lines = c.ymul /\ r.pattern = Shades(c)  BY <2>1, AskedOK
  <2> HIDE DEF r
  <2> QED BY <1>1, <2>2 DEF AsAsked
<1>3. CASE Misaligned(c, sp, dp)
  <2>1. r = InC(c, asked.fallback) /\ c.scaler \in {"n16", "n32"}
    BY <1>3 DEF Misaligned
  <2> HIDE DEF r
  <2>2. r.kind = "lines" /\ Answers(r, c.xmul, asked.fallback)
    <3>1. CASE c.scaler = "n16"
      <4>1. asked.fallback \in DOMAIN scaler_c16[c.xmul] /\ c.xmul \in 1..6
        BY <3>1, AskedOK, TableOf
      <4>2. r = scaler_c16[c.xmul][asked.fallback]
        BY <2>1, <3>1 DEF InC
      <4> HIDE DEF asked
      <4> QED BY <4>1, <4>2, C16OK
    <3>2. CASE c.scaler = "n32"
      <4>1. asked.fallback \in DOMAIN scaler_c32[c.xmul] /\ c.xmul \in 1..6
        BY <3>2, AskedOK, TableOf
      <4>2. r = scaler_c32[c.xmul][asked.fallback]
        BY <2>1, <3>2 DEF InC
      <4> HIDE DEF asked
      <4> QED BY <4>1, <4>2, C32OK
    <3> QED BY <2>1, <3>1, <3>2
  <2>3. asked.fallback = c.ymul \/ (c.scaler = "n16" /\ c.xmul = 2 /\ c.ymul = 4)
    BY <2>1, AskedOK
  <2>4. Shades(c) = Plain(c.xmul, c.ymul)
    BY <2>1 DEF Shades
  <2> HIDE DEF asked
  <2> QED BY <1>1, <2>2, <2>3, <2>4 DEF AsAsked, ShortFallback, Answers
<1> QED BY <1>2, <1>3

LEMMA NextAsAsked == AsAsked /\ [Next]_vars => AsAsked'
<1> SUFFICES ASSUME AsAsked, [Next]_vars PROVE AsAsked'  OBVIOUS
<1>1. job' = job
  BY DEF Next, Line, Loop, Bits, Rest, NextLine, NextRow, Store, vars
<1> QED BY <1>1 DEF AsAsked, ShortFallback

-----------------------------------------------------------------------------
(* The picture, cell by cell.                                                *)

\* What the picture of the routine at work holds at an address, and in place m of line n.
Val(a) ==
  <<(a \div (job.dp * job.r.lines)) * job.sp + ((a % job.dp) \div job.r.mul),
    job.r.pattern[((a \div job.dp) % job.r.lines) + 1][((a % job.dp) % job.r.mul) + 1]>>
Cell(n, m) ==
  <<(n \div job.r.lines) * job.sp + (m \div job.r.mul),
    job.r.pattern[(n % job.r.lines) + 1][(m % job.r.mul) + 1]>>

\* Place m of line n, d places to a line, l lines to a row of the source.
Folds(n, d, l, m) ==
  /\ (n * d + m) \div d = n /\ (n * d + m) % d = m
  /\ (n * d + m) \div (d * l) = n \div l

LEMMA Fold ==
  ASSUME NEW n \in Nat, NEW d \in Nat \ {0}, NEW l \in Nat \ {0}, NEW m \in 0..d - 1
  PROVE  Folds(n, d, l, m)
<1>1. n * d = d * n /\ d * n \in Nat  OBVIOUS
<1>2. (d * n + m) \div d = n /\ (d * n + m) % d = m
  BY Quotient
<1> DEFINE y == n \div l
           i == n % l
<1>3. n = l * y + i /\ y \in Nat /\ i \in 0..l - 1
  BY Parts
<1> HIDE DEF y, i
<1> DEFINE D == d * l
           r == d * i + m
<1>4. D \in Nat \ {0}  OBVIOUS
<1>5. r \in 0..D - 1
  <2>1. d * i + d = d * (i + 1)  BY <1>3
  <2>2. d * (i + 1) <= d * l  BY <1>3
  <2>3. d * i \in Nat  BY <1>3
  <2> QED BY <2>1, <2>2, <2>3, <1>4
<1>6. d * n + m = D * y + r
  <2>1. d * (l * y + i) = d * (l * y) + d * i  BY <1>3
  <2>2. d * (l * y) = (d * l) * y  BY <1>3
  <2>3. d * n = d * (l * y) + d * i  BY <1>3, <2>1
  <2>4. d * n = D * y + d * i  BY <2>2, <2>3, Zenon
  <2>5. D * y \in Nat /\ d * i \in Nat /\ m \in Nat  BY <1>3, <1>4
  <2> DEFINE u == D * y
             v == d * i
             w == d * n
  <2>6. u \in Nat /\ v \in Nat /\ w = u + v /\ r = v + m  BY <2>4, <2>5
  <2> HIDE DEF u, v, w, r
  <2>7. w + m = u + r  BY <2>5, <2>6
  <2> QED BY <2>7 DEF u, w
<1> HIDE DEF D, r
<1>7. (D * y + r) \div D = y
  BY <1>3, <1>4, <1>5, Quotient
<1>8. (d * n + m) \div D = y
  BY <1>6, <1>7
<1> QED BY <1>1, <1>2, <1>8 DEF D, y, Folds

LEMMA Along ==
  ASSUME NEW m \in Nat \ {0}, NEW o \in Nat, NEW k \in Nat
  PROVE  (m * o + k) \div m = o + (k \div m) /\ (m * o + k) % m = k % m
<1> DEFINE u == k \div m
           v == k % m
<1>1. k = m * u + v /\ u \in Nat /\ v \in 0..m - 1
  BY Parts
<1> HIDE DEF u, v
<1>2. m * o + k = m * (o + u) + v
  <2>1. m * (o + u) = m * o + m * u  BY <1>1
  <2>2. m * o \in Nat /\ m * u \in Nat  BY <1>1
  <2> QED BY <1>1, <2>1, <2>2
<1>3. o + u \in Nat  BY <1>1
<1>4. (m * (o + u) + v) \div m = o + u /\ (m * (o + u) + v) % m = v
  BY <1>1, <1>3, Quotient
<1> QED BY <1>2, <1>4 DEF u, v

\* The numbers of a job whose lines are apart.
Sound(j) ==
  /\ j.dp \in Nat \ {0} /\ j.sp \in Nat \ {0} /\ j.width \in Nat \ {0}
  /\ j.r.lines \in Nat \ {0} /\ j.r.mul \in Nat \ {0} /\ j.r.group \in Nat \ {0}
  /\ j.width * j.r.mul <= j.dp

LEMMA SoundJob == JobOK(job) /\ StoresOK(job.r) /\ LineFits => Sound(job)
<1> SUFFICES ASSUME JobOK(job), StoresOK(job.r), LineFits PROVE Sound(job)  OBVIOUS
<1>1. job.width \in Nat \ {0} /\ job.r.mul \in 1..6 /\ job.r.lines \in 1..6 /\ job.dp \in Nat
      /\ job.sp \in Nat \ {0} /\ job.r.group \in {1, 2, 4} /\ job.width * job.r.mul <= job.dp
  BY DEF JobOK, RoutineOK, StoresOK, LineFits
<1>2. job.width * job.r.mul >= 1  BY <1>1
<1>3. job.dp # 0  BY <1>1, <1>2
<1> QED BY <1>1, <1>3 DEF Sound

LEMMA ValIsCell ==
  ASSUME Sound(job), NEW n \in Nat, NEW m \in 0..job.dp - 1
  PROVE  Val(n * job.dp + m) = Cell(n, m)
<1> DEFINE a == n * job.dp + m
<1>1. a \div job.dp = n /\ a % job.dp = m /\ a \div (job.dp * job.r.lines) = n \div job.r.lines
  <2>1. job.dp \in Nat \ {0} /\ job.r.lines \in Nat \ {0}  BY DEF Sound
  <2>2. Folds(n, job.dp, job.r.lines, m)  BY <2>1, Fold
  <2> QED BY <2>2, Zenon DEF Folds
<1> HIDE DEF a
<1>2. Val(a) = Cell(n, m)  BY <1>1 DEF Val, Cell
<1> QED BY <1>2 DEF a

\* Line i of row y, k places on from pixel o.
CellShows(y, i, o, k) ==
  Cell(job.r.lines * y + i, job.r.mul * o + k) =
    <<y * job.sp + (o + (k \div job.r.mul)), job.r.pattern[i + 1][(k % job.r.mul) + 1]>>

LEMMA CellOf ==
  ASSUME Sound(job), NEW y \in Nat, NEW i \in 0..job.r.lines - 1, NEW o \in Nat, NEW k \in Nat
  PROVE  CellShows(y, i, o, k)
<1>1. (job.r.lines * y + i) \div job.r.lines = y /\ (job.r.lines * y + i) % job.r.lines = i
  BY Quotient DEF Sound
<1>2. /\ (job.r.mul * o + k) \div job.r.mul = o + (k \div job.r.mul)
      /\ (job.r.mul * o + k) % job.r.mul = k % job.r.mul
  BY Along DEF Sound
<1> QED BY <1>1, <1>2, Zenon DEF Cell, CellShows

\* The addresses of the places ms of the lines ls.
Box(ls, ms) == {n * job.dp + m : n \in ls, m \in ms}

LEMMA OverIs ==
  ASSUME NEW new, NEW A, NEW B, DOMAIN new = A, \A a \in A : new[a] = Val(a),
         mem = [a \in B |-> Val(a)]
  PROVE  Over(new, mem) = [a \in A \cup B |-> Val(a)]
<1>1. DOMAIN mem = B /\ \A a \in B : mem[a] = Val(a)
  OBVIOUS
<1>2. Over(new, mem) = [a \in A \cup B |-> IF a \in A THEN new[a] ELSE mem[a]]
  BY <1>1 DEF Over
<1>3. \A a \in A \cup B : (IF a \in A THEN new[a] ELSE mem[a]) = Val(a)
  BY <1>1
<1> QED BY <1>2, <1>3

-----------------------------------------------------------------------------
(* What has been stored so far: the lines of the rows that are done and, of  *)
(* the row at work, the pixels the cursors have passed.                      *)

High == job.r.lines
Wide == job.r.mul
Passed == src - job.sp * row
\* The lines of the row at work that the loops store.
AtWork == IF job.r.kind = "lines" THEN {High * row} ELSE High * row .. High * row + High - 1

Filled ==
  Box(0..High * row - 1, 0..job.width * Wide - 1)
    \cup (IF pc = "done" THEN {} ELSE Box(AtWork, 0..Wide * Passed - 1))

Remembers ==
  /\ StoresOK(job.r)
  /\ LineFits => mem = [a \in Filled |-> Val(a)]
  /\ pc = "done" => row = job.rows

LEMMA BoxParts ==
  ASSUME NEW ls, NEW p \in Nat, NEW q \in Nat
  PROVE  Box(ls, p..p + q - 1) \cup Box(ls, 0..p - 1) = Box(ls, 0..p + q - 1)
<1>1. 0..p + q - 1 = (p..p + q - 1) \cup (0..p - 1)  OBVIOUS
<1> QED BY <1>1 DEF Box

LEMMA BoxLines ==
  ASSUME NEW ms, NEW ks, NEW ls
  PROVE  Box(ks, ms) \cup Box(ls, ms) = Box(ks \cup ls, ms)
BY DEF Box

LEMMA EmptyBox == ASSUME NEW ls, NEW ms PROVE Box({}, ms) = {} /\ Box(ls, {}) = {}
BY DEF Box

(* A pixel of a block, or one alone, is the one its place belongs to.        *)
LEMMA PixelOf ==
  ASSUME StoresOK(job.r), job.r.mul \in Nat \ {0}, NEW k \in Nat
  PROVE  Block(k) = k \div job.r.mul /\ Single(k) = k \div job.r.mul
<1>1. job.r.group \in Nat \ {0}  BY DEF StoresOK
<1>2. LaneOK(job.r.lanes, job.r.group, job.r.mul)
  <2> DEFINE g == job.r.group
             m == job.r.mul
             l == job.r.lanes
  <2>1. \A i \in 1..g * m : l[i] = (i - 1) \div m  BY DEF StoresOK, Widened
  <2>2. g * m \in Nat  BY <1>1
  <2>3. ASSUME NEW t \in 0..g * m - 1 PROVE l[t + 1] = t \div m
    <3> DEFINE i == t + 1
    <3>1. i \in 1..g * m /\ i - 1 = t  BY <2>2
    <3> HIDE DEF i, g, m, l
    <3>2. l[i] = (i - 1) \div m  BY <2>1, <3>1
    <3>3. l[i] = t \div m  BY <3>1, <3>2, Zenon
    <3> QED BY <3>3 DEF i
  <2> QED BY <2>3 DEF LaneOK
<1>3. Block(k) = k \div job.r.mul
  BY <1>1, <1>2, LaneOf DEF Block
<1> QED BY <1>3 DEF Single

(* The address of a store: line i of the row at work, k places on.           *)
LEMMA AddressOf ==
  ASSUME NEW dp \in Nat, NEW l \in Nat, NEW y \in Nat, NEW m \in Nat, NEW o \in Nat,
         NEW i \in Nat, NEW k \in Nat
  PROVE  (dp * l * y + m * o) + i * dp + k = (l * y + i) * dp + (m * o + k)
<1>1. (l * y + i) * dp = (l * y) * dp + i * dp  OBVIOUS
<1>2. (l * y) * dp = dp * l * y  OBVIOUS
<1> DEFINE u == (l * y + i) * dp
           v == dp * l * y
           w == m * o
           x == i * dp
<1>3. u = v + x  BY <1>1, <1>2
<1>4. u \in Nat /\ v \in Nat /\ w \in Nat /\ x \in Nat  OBVIOUS
<1> HIDE DEF u, v, w, x
<1>5. (v + w) + x + k = u + (w + k)  BY <1>3, <1>4
<1> QED BY <1>5 DEF u, v, w, x

LEMMA WithinLine ==
  ASSUME NEW w \in Nat, NEW o \in Nat, NEW n \in Nat, NEW m \in Nat \ {0}, o + n <= w
  PROVE  /\ m * o \in Nat /\ n * m \in Nat /\ m * (o + n) = m * o + n * m
         /\ m * o + n * m <= w * m
<1>1. m * (o + n) = m * o + n * m  OBVIOUS
<1>2. m * (o + n) <= m * w
  <2> DEFINE u == o + n
             e == w - u
  <2>1. u \in Nat /\ e \in Nat /\ w = u + e  OBVIOUS
  <2> HIDE DEF u, e
  <2>2. m * (u + e) = m * u + m * e  BY <2>1
  <2>3. m * u \in Nat /\ m * e \in Nat  BY <2>1
  <2>4. m * u <= m * w  BY <2>1, <2>2, <2>3
  <2> QED BY <2>4 DEF u
<1>3. m * w = w * m  OBVIOUS
<1> QED BY <1>1, <1>2, <1>3

\* An address taken from a cursor: line i, k places on.
TakenApart(a, d, p, i, k) == (a - d) \div p = i /\ (a - d) % p = k

LEMMA Apart ==
  ASSUME NEW p \in Nat \ {0}, NEW i \in Nat, NEW k \in 0..p - 1, NEW d \in Int
  PROVE  TakenApart(d + i * p + k, d, p, i, k)
<1> DEFINE x == i * p
           e == (d + i * p + k) - d
<1>1. x \in Int /\ k \in Int  OBVIOUS
<1>2. e = x + k
  <2>1. e = (d + x + k) - d  OBVIOUS
  <2> HIDE DEF x, e
  <2> QED BY <1>1, <2>1
<1>3. Folds(i, p, 1, k)
  <2>1. 1 \in Nat \ {0}  OBVIOUS
  <2> QED BY <2>1, Fold
<1>4. e \div p = i /\ e % p = k
  <2>1. e = i * p + k  BY <1>2
  <2> HIDE DEF e
  <2> QED BY <1>3, <2>1, Zenon DEF Folds
<1> QED BY <1>4, Zenon DEF TakenApart

\* Where the cursors are, o pixels into the line.
CursorsAt(o) ==
  /\ o \in Nat /\ row \in Nat
  /\ src = job.sp * row + o
  /\ dst = job.dp * job.r.lines * row + job.r.mul * o

LEMMA StoredCell ==
  ASSUME Sound(job), StoresOK(job.r), NEW o, CursorsAt(o), NEW b \in BOOLEAN,
         NEW i \in 0..job.r.lines - 1, NEW k \in Nat
  PROVE  Lane(b, i, k) = Cell(job.r.lines * row + i, job.r.mul * o + k)
<1>1. row \in Nat /\ o \in Nat /\ job.r.mul \in Nat \ {0}  BY DEF CursorsAt, Sound
<1>2. Cell(job.r.lines * row + i, job.r.mul * o + k) =
        <<row * job.sp + (o + (k \div job.r.mul)), job.r.pattern[i + 1][(k % job.r.mul) + 1]>>
  <2>1. CellShows(row, i, o, k)  BY <1>1, CellOf
  <2> QED BY <2>1, Zenon DEF CellShows
<1>3. Pixel(b, k) = row * job.sp + (o + (k \div job.r.mul))
  <2> DEFINE z == k \div job.r.mul
             s == job.sp * row
  <2>1. (IF b THEN Block(k) ELSE Single(k)) = z  BY <1>1, PixelOf
  <2>2. z \in Nat  BY <1>1, Parts
  <2>3. s \in Nat /\ row * job.sp = s /\ src = s + o
    BY DEF CursorsAt, Sound
  <2>4. Pixel(b, k) = src + z  BY <2>1 DEF Pixel
  <2> HIDE DEF z, s
  <2>5. src + z = s + (o + z)  BY <1>1, <2>2, <2>3
  <2>6. Pixel(b, k) = row * job.sp + (o + z)  BY <2>3, <2>4, <2>5, Zenon
  <2> QED BY <2>6, Zenon DEF z
<1> QED BY <1>2, <1>3, Zenon DEF Lane

\* A store's address, i lines and k places from the cursor.
Hits(a, o, b, i, k) ==
  /\ a = (job.r.lines * row + i) * job.dp + (job.r.mul * o + k)
  /\ Lane(b, (a - dst) \div job.dp, (a - dst) % job.dp) = Val(a)

LEMMA TargetOf ==
  ASSUME Sound(job), StoresOK(job.r), NEW o, CursorsAt(o), NEW b \in BOOLEAN,
         NEW n \in Nat, o + n <= job.width,
         NEW i \in Lines, NEW k \in 0..n * job.r.mul - 1, NEW a, a = dst + i * job.dp + k
  PROVE  Hits(a, o, b, i, k)
<1> DEFINE dp == job.dp
           m == job.r.mul
           l == job.r.lines
           w == job.width
<1>1. /\ dp \in Nat \ {0} /\ m \in Nat \ {0} /\ l \in Nat \ {0} /\ w \in Nat
      /\ w * m <= dp /\ row \in Nat /\ o \in Nat /\ i \in 0..l - 1
      /\ dst = dp * l * row + m * o
  BY DEF Sound, CursorsAt, Lines
<1>2. k \in 0..n * m - 1 /\ o + n <= w /\ a = dst + i * dp + k  OBVIOUS
<1>3. k \in Nat /\ k \in 0..dp - 1 /\ m * o + k \in 0..dp - 1 /\ l * row + i \in Nat /\ dst \in Int
  <2> HIDE DEF dp, m, l, w
  <2>1. m * o \in Nat /\ n * m \in Nat /\ m * o + n * m <= w * m
    BY <1>1, <1>2, WithinLine
  <2>2. l * row \in Nat /\ dp * l * row \in Int  BY <1>1
  <2> QED BY <1>1, <1>2, <2>1, <2>2
<1>4. a = (l * row + i) * dp + (m * o + k)
  <2> HIDE DEF dp, m, l, w
  <2>1. (dp * l * row + m * o) + i * dp + k = (l * row + i) * dp + (m * o + k)
    <3>1. dp \in Nat /\ l \in Nat /\ m \in Nat /\ i \in Nat  BY <1>1
    <3> QED BY <1>1, <1>3, <3>1, AddressOf
  <2> QED BY <1>1, <1>2, <2>1, Zenon
<1>5. (a - dst) \div dp = i /\ (a - dst) % dp = k
  <2> HIDE DEF dp, m, l, w
  <2>1. i \in Nat  BY <1>1
  <2>2. TakenApart(dst + i * dp + k, dst, dp, i, k)
    BY <1>1, <1>3, <2>1, Apart
  <2> QED BY <1>2, <2>2, Zenon DEF TakenApart
<1>6. Lane(b, i, k) = Cell(l * row + i, m * o + k)
  BY <1>1, <1>3, StoredCell, Zenon
<1>7. Val(a) = Cell(l * row + i, m * o + k)
  <2>1. Val((l * row + i) * dp + (m * o + k)) = Cell(l * row + i, m * o + k)
    BY <1>3, ValIsCell, Zenon
  <2> QED BY <1>4, <2>1, Zenon
<1>8. Lane(b, (a - dst) \div dp, (a - dst) % dp) = Val(a)
  BY <1>5, <1>6, <1>7, Zenon
<1> QED BY <1>4, <1>8, Zenon DEF Hits

(* The addresses of a store are the next n pixels' places.                   *)
LEMMA TargetsBox ==
  ASSUME Sound(job), StoresOK(job.r), NEW o, CursorsAt(o), NEW n \in Nat, o + n <= job.width
  PROVE  Targets(n) = Box(AtWork, job.r.mul * o..job.r.mul * o + n * job.r.mul - 1)
<1> DEFINE m == job.r.mul
           l == job.r.lines
           ps == m * o..m * o + n * m - 1
           ks == 0..n * m - 1
<1>1. m \in Nat \ {0} /\ l \in Nat \ {0} /\ row \in Nat /\ o \in Nat
  BY DEF Sound, CursorsAt
<1>2. \A i \in Lines, k \in ks :
        dst + i * job.dp + k = (l * row + i) * job.dp + (m * o + k)
  <2> SUFFICES ASSUME NEW i \in Lines, NEW k \in ks
               PROVE  dst + i * job.dp + k = (l * row + i) * job.dp + (m * o + k)
    OBVIOUS
  <2> DEFINE a == dst + i * job.dp + k
  <2>1. a = dst + i * job.dp + k /\ TRUE \in BOOLEAN  OBVIOUS
  <2> HIDE DEF a
  <2>2. Hits(a, o, TRUE, i, k)
    BY <2>1, TargetOf
  <2> QED BY <2>1, <2>2, Zenon DEF Hits
<1>3. \A i \in Lines : l * row + i \in AtWork
  BY <1>1 DEF AtWork, High, Lines
<1>4. \A j \in AtWork : \E i \in Lines : j = l * row + i
  <2> SUFFICES ASSUME NEW j \in AtWork PROVE \E i \in Lines : j = l * row + i  OBVIOUS
  <2>1. l * row \in Nat  BY <1>1
  <2>2. CASE job.r.kind = "lines"
    <3>1. j = l * row + 0 /\ 0 \in Lines  BY <2>1, <2>2 DEF AtWork, High, Lines
    <3> QED BY <3>1
  <2>3. CASE job.r.kind # "lines"
    <3>1. j \in l * row .. l * row + l - 1  BY <2>3 DEF AtWork, High
    <3>2. j - l * row \in 0..l - 1 /\ j = l * row + (j - l * row)
      <4> HIDE DEF l
      <4> QED BY <1>1, <2>1, <3>1
    <3>3. j - l * row \in Lines  BY <2>3, <3>2 DEF Lines
    <3> QED BY <3>2, <3>3
  <2> QED BY <2>2, <2>3
<1> HIDE DEF m, l
<1>5. m * o \in Nat /\ n * m \in Nat  BY <1>1
<1>6. \A k \in ks : m * o + k \in ps  BY <1>5
<1>7. \A p \in ps : \E k \in ks : p = m * o + k
  <2> SUFFICES ASSUME NEW p \in ps PROVE \E k \in ks : p = m * o + k  OBVIOUS
  <2>1. p - m * o \in ks /\ p = m * o + (p - m * o)  BY <1>5
  <2> QED BY <2>1
<1>8. Targets(n) = {dst + i * job.dp + k : i \in Lines, k \in ks}  BY DEF Targets, m
<1> HIDE DEF ps, ks
<1>9. Targets(n) \subseteq Box(AtWork, ps)
  BY <1>2, <1>3, <1>6, <1>8 DEF Box
<1>10. Box(AtWork, ps) \subseteq Targets(n)
  <2> SUFFICES ASSUME NEW j \in AtWork, NEW p \in ps PROVE j * job.dp + p \in Targets(n)
    BY DEF Box
  <2>1. PICK i \in Lines : j = l * row + i  BY <1>4
  <2>2. PICK k \in ks : p = m * o + k  BY <1>7
  <2>3. j * job.dp + p = dst + i * job.dp + k  BY <1>2, <2>1, <2>2, Zenon
  <2> QED BY <1>8, <2>3
<1> QED BY <1>9, <1>10 DEF ps, m

(* Storing n pixels fills their places in the lines at work.                 *)
LEMMA StoreFills ==
  ASSUME CInv, Remembers, pc \in {"loop", "tail", "rest"}, NEW n \in Nat, src + n <= r8,
         NEW b \in BOOLEAN, Store(n, b), pc' \in {"loop", "tail", "rest", "next"}
  PROVE  Remembers'
<1>0. UNCHANGED <<job, row>> /\ src' = src + n /\ StoresOK(job.r)
  BY DEF Store, Remembers
<1> SUFFICES ASSUME LineFits PROVE (mem = [a \in Filled |-> Val(a)])'
  BY <1>0 DEF Remembers, LineFits
<1>1. Sound(job)
  BY SoundJob DEF CInv, Counts, Remembers
<1> DEFINE o == src - job.sp * row
<1>2. CursorsAt(o) /\ o + n <= job.width
  <2>1. job.sp * row <= src /\ dst = job.dp * job.r.lines * row + job.r.mul * o
        /\ r8 = job.sp * row + job.width
    BY DEF CInv, KeepsToLine, Marked
  <2>2. row \in Nat /\ src \in Int /\ job.sp * row \in Int /\ job.width \in Nat
    BY <1>1 DEF Sound, CInv, Counts
  <2>3. o \in Nat /\ o + n <= job.width /\ src = job.sp * row + o
    BY <2>1, <2>2
  <2> HIDE DEF o
  <2> QED BY <2>1, <2>2, <2>3 DEF CursorsAt
<1> HIDE DEF o
<1>3. mem' = Over(Stored(n, b), mem)
  BY DEF Store
<1>4. \A a \in Targets(n) : Stored(n, b)[a] = Val(a)
  <2> SUFFICES ASSUME NEW a \in Targets(n) PROVE Stored(n, b)[a] = Val(a)  OBVIOUS
  <2>1. PICK i \in Lines, k \in 0..n * job.r.mul - 1 : a = dst + i * job.dp + k
    BY DEF Targets
  <2>2. Lane(b, (a - dst) \div job.dp, (a - dst) % job.dp) = Val(a)
    <3>1. Hits(a, o, b, i, k)  BY <1>0, <1>1, <1>2, <2>1, TargetOf
    <3> QED BY <3>1, Zenon DEF Hits
  <2>3. Stored(n, b)[a] = Lane(b, (a - dst) \div job.dp, (a - dst) % job.dp)
    BY Zenon DEF Stored
  <2> QED BY <2>2, <2>3, Zenon
<1>5. Over(Stored(n, b), mem) = [a \in Targets(n) \cup Filled |-> Val(a)]
  <2>1. DOMAIN Stored(n, b) = Targets(n)  BY Zenon DEF Stored
  <2>2. mem = [a \in Filled |-> Val(a)]  BY DEF Remembers
  <2> DEFINE new == Stored(n, b)
  <2>3. DOMAIN new = Targets(n) /\ \A a \in Targets(n) : new[a] = Val(a)  BY <1>4, <2>1
  <2> HIDE DEF new
  <2>4. Over(new, mem) = [a \in Targets(n) \cup Filled |-> Val(a)]  BY <2>2, <2>3, OverIs
  <2> QED BY <2>4 DEF new
<1>6. Targets(n) \cup Filled = Filled'
  <2> DEFINE m == job.r.mul
             p == m * o
             q == n * m
             done == Box(0..High * row - 1, 0..job.width * Wide - 1)
  <2>1. p \in Nat /\ q \in Nat /\ m * (o + n) = p + q
    BY <1>1, <1>2 DEF Sound, CursorsAt
  <2>2. Targets(n) = Box(AtWork, p..p + q - 1)
    BY <1>0, <1>1, <1>2, TargetsBox
  <2>3. Filled = done \cup Box(AtWork, 0..p - 1)
    BY DEF Filled, Passed, Wide, o
  <2>4. Passed' = o + n
    <3>1. Passed' = (src + n) - job.sp * row  BY <1>0 DEF Passed
    <3>2. src \in Int /\ job.sp * row \in Int  BY <1>1 DEF CInv, Counts, Sound
    <3> QED BY <3>1, <3>2 DEF o
  <2>5. Filled' = done \cup Box(AtWork, 0..m * (o + n) - 1)
    <3>1. AtWork' = AtWork  BY <1>0 DEF AtWork, High
    <3>2. done' = done  BY <1>0 DEF Box, Wide, High
    <3>3. Box(AtWork, 0..Wide * Passed - 1)' = Box(AtWork, 0..m * (o + n) - 1)
      BY <1>0, <2>4, <3>1 DEF Box, Wide
    <3>4. pc' # "done"  OBVIOUS
    <3>5. Filled' = done' \cup Box(AtWork, 0..Wide * Passed - 1)'
      BY <3>4 DEF Filled
    <3> QED BY <3>2, <3>3, <3>5, Zenon
  <2> DEFINE e == m * (o + n)
  <2>6. e - 1 = p + q - 1
    <3>1. e = p + q  BY <2>1
    <3> HIDE DEF e, p, q
    <3> QED BY <2>1, <3>1
  <2> HIDE DEF p, q, m, done
  <2>7. Box(AtWork, p..p + q - 1) \cup Box(AtWork, 0..p - 1) = Box(AtWork, 0..p + q - 1)
    <3>1. p \in Nat /\ q \in Nat  BY <2>1
    <3> DEFINE ls == AtWork
    <3> HIDE DEF ls
    <3>2. Box(ls, p..p + q - 1) \cup Box(ls, 0..p - 1) = Box(ls, 0..p + q - 1)
      BY ONLY <3>1, BoxParts
    <3> QED BY <3>2 DEF ls
  <2>8. Filled' = done \cup Box(AtWork, 0..p + q - 1)  BY <2>5, <2>6, Zenon
  <2> QED BY <2>2, <2>3, <2>7, <2>8
<1>7. mem' = [a \in Filled' |-> Val(a)]
  BY <1>3, <1>5, <1>6, Zenon
<1>8. \A a : Val(a)' = Val(a)
  BY <1>0 DEF Val
<1>9. [a \in Filled' |-> Val(a)] = [a \in Filled' |-> Val(a)']
  BY <1>8
<1> QED BY <1>7, <1>9

-----------------------------------------------------------------------------
(* The invariant of what is stored: it starts, and each step keeps it.       *)

LEMMA InitRemembers == Init => Remembers
<1> SUFFICES ASSUME Init PROVE Remembers  OBVIOUS
<1>1. StoresOK(job.r)  BY JobStores DEF Init
<1>2. JobOK(job)  BY JobIsOK DEF Init
<1>3. job.r.lines \in Nat /\ job.r.mul \in Nat /\ job.sp \in Nat /\ row = 0 /\ src = 0
  BY <1>2 DEF Init, JobOK, RoutineOK
<1>4. 0..High * row - 1 = {} /\ 0..Wide * Passed - 1 = {}
  BY <1>3 DEF High, Wide, Passed
<1>5. Filled = {}
  BY <1>4, EmptyBox DEF Filled
<1>6. mem = [a \in {} |-> Val(a)]
  <2>1. mem = <<>>  BY DEF Init
  <2>2. <<>> = [a \in {} |-> Val(a)]  OBVIOUS
  <2> QED BY <2>1, <2>2
<1> QED BY <1>1, <1>5, <1>6 DEF Remembers, Init

(* A step that leaves the cursors and the memory alone, within the line.     *)
LEMMA SameRemembers ==
  ASSUME Remembers, pc # "done", pc' # "done", UNCHANGED <<job, row, src, mem>>
  PROVE  Remembers'
<1>1. Filled' = Filled
  <2>1. High' = High /\ Wide' = Wide /\ Passed' = Passed /\ AtWork' = AtWork
    BY DEF High, Wide, Passed, AtWork
  <2>2. Box(0..High * row - 1, 0..job.width * Wide - 1)' = Box(0..High * row - 1, 0..job.width * Wide - 1)
    BY <2>1 DEF Box
  <2>3. Box(AtWork, 0..Wide * Passed - 1)' = Box(AtWork, 0..Wide * Passed - 1)
    BY <2>1 DEF Box
  <2> QED BY <2>2, <2>3 DEF Filled
<1>2. \A a : Val(a)' = Val(a)  BY DEF Val
<1>3. [a \in Filled' |-> Val(a)'] = [a \in Filled |-> Val(a)]
  BY <1>1, <1>2
<1>4. LineFits' = LineFits /\ StoresOK(job.r)' = StoresOK(job.r)
  BY DEF LineFits, StoresOK
<1> QED BY <1>3, <1>4 DEF Remembers

(* What a step has stored lies within the line, as the next state shows.     *)
LEMMA StoredWithin ==
  ASSUME CInv, CInv', pc \in {"loop", "tail", "rest"}, NEW n \in Nat, NEW b \in BOOLEAN,
         Store(n, b), pc' # "done"
  PROVE  src + n <= r8
<1>1. src' = src + n /\ UNCHANGED <<job, row>>  BY DEF Store
<1>2. src' <= job.sp * row + job.width  BY <1>1 DEF CInv, KeepsToLine
<1>3. r8 = job.sp * row + job.width  BY DEF CInv, Marked
<1> QED BY <1>1, <1>2, <1>3

(* A row that is done: all its lines are stored, and the next one's are not  *)
(* begun.                                                                    *)
LEMMA RowDone ==
  ASSUME CInv, Sound(job), pc = "next", job' = job, row' = row + 1, src' = job.sp * row'
  PROVE  LET ms == 0..job.width * job.r.mul - 1
         IN /\ Filled = Box(0..High * row - 1, ms) \cup Box(AtWork, ms)
            /\ Filled' = Box(0..High * row + High - 1, ms)
<1> DEFINE w == job.width
           m == job.r.mul
           l == job.r.lines
           ms == 0..w * m - 1
<1>1. /\ w \in Nat /\ m \in Nat /\ l \in Nat \ {0} /\ row \in Nat /\ job.sp * row \in Int
      /\ src = job.sp * row + w
  BY DEF Sound, CInv, Counts, AtEnd, Marked
<1>2. Passed = w /\ m * w = w * m
  <2>1. src - job.sp * row = w
    <3> HIDE DEF w
    <3> QED BY <1>1
  <2>2. m * w = w * m  BY <1>1
  <2> QED BY <2>1, <2>2 DEF Passed
<1>3. Filled = Box(0..High * row - 1, ms) \cup Box(AtWork, ms)
  <2>1. Wide * Passed - 1 = w * m - 1  BY <1>2 DEF Wide
  <2>2. Filled = Box(0..High * row - 1, 0..w * m - 1) \cup Box(AtWork, 0..Wide * Passed - 1)
    BY DEF Filled, Wide
  <2> QED BY <2>1, <2>2, Zenon
<1>4. High' * row' - 1 = High * row + High - 1 /\ High' = High /\ Wide' = Wide
  <2>1. l \in Int /\ row \in Int  BY <1>1
  <2>2. High = l /\ High' = l /\ Wide' = Wide  BY DEF High, Wide
  <2> HIDE DEF l
  <2>3. l * (row + 1) = l * row + l  BY <2>1, NextTimes
  <2>4. High' * row' = l * (row + 1)  BY <2>2
  <2>5. High * row = l * row  BY <2>2
  <2>6. l * (row + 1) - 1 = l * row + l - 1
    <3>1. l * row \in Int  BY <2>1
    <3> QED BY <2>1, <2>3, <3>1
  <2>7. High' * row' - 1 = l * (row + 1) - 1 /\ High * row + High - 1 = l * row + l - 1
    BY <2>2, <2>4, <2>5, Zenon
  <2> QED BY <2>2, <2>6, <2>7, Zenon
<1>5. Passed' = 0 /\ Wide' * 0 = 0
  <2>1. src' - job.sp * row' = 0
    <3>1. job.sp \in Int /\ row' \in Int  BY <1>1 DEF Sound
    <3>2. job.sp * row' \in Int  BY <3>1
    <3> QED BY <3>2
  <2> QED BY <1>1, <2>1 DEF Passed, Wide
<1>6. Box(AtWork, 0..Wide * Passed - 1)' = {}
  <2>1. (0..Wide * Passed - 1)' = {}  BY <1>5
  <2> QED BY <2>1 DEF Box
<1>7. Box(0..High * row - 1, 0..job.width * Wide - 1)' = Box(0..High * row + High - 1, ms)
  <2> DEFINE A == 0..High' * row' - 1
             B == 0..job.width * Wide' - 1
             C == 0..High * row + High - 1
  <2>1. A = C  BY <1>4
  <2>2. B = ms  BY <1>4 DEF Wide
  <2> DEFINE S == {n * job.dp + k : n \in A, k \in B}
             T == {n * job.dp + k : n \in C, k \in ms}
  <2>3. Box(0..High * row - 1, 0..job.width * Wide - 1)' = S
    BY DEF Box
  <2>4. Box(C, ms) = T  BY DEF Box
  <2> HIDE DEF ms, A, B, C
  <2>5. S = T  BY <2>1, <2>2
  <2> HIDE DEF S, T
  <2>6. Box(0..High * row - 1, 0..job.width * Wide - 1)' = Box(C, ms)
    BY <2>3, <2>4, <2>5, Zenon
  <2> QED BY <2>6 DEF C
<1>8. Filled' = Box(0..High * row + High - 1, ms)
  BY <1>6, <1>7 DEF Filled
<1> QED BY <1>3, <1>8

\* The lines of a row, the first and the others.
LEMMA RowLines ==
  ASSUME NEW r \in Nat, NEW h \in Nat \ {0}
  PROVE  /\ (0..h * r - 1) \cup (h * r .. h * r + h - 1) = 0..h * r + h - 1
         /\ (0..h * r - 1) \cup {h * r} \cup (h * r + 1 .. h * r + h - 1) = 0..h * r + h - 1
<1> DEFINE p == h * r
<1>1. p \in Nat  OBVIOUS
<1> HIDE DEF p
<1>2. (0..p - 1) \cup (p .. p + h - 1) = 0..p + h - 1  BY <1>1
<1>3. (0..p - 1) \cup {p} \cup (p + 1 .. p + h - 1) = 0..p + h - 1  BY <1>1
<1> QED BY <1>2, <1>3 DEF p

LEMMA LastRow ==
  ASSUME NEW s \in Nat \ {0}, NEW x \in Nat, NEW y \in Nat, s * x = s * y
  PROVE  x = y
<1>1. s * (x - y) = 0
  <2>1. s * (x - y) = s * x - s * y  OBVIOUS
  <2>2. s * x \in Nat  OBVIOUS
  <2> QED BY <2>1, <2>2
<1> QED BY <1>1

(* A row ends whose lines are all stored by the loops.                       *)
LEMMA RowRemembers ==
  ASSUME CInv, Remembers, pc = "next", job' = job, row' = row + 1, src' = job.sp * row',
         mem' = mem, job.r.kind # "lines", pc' = "done" => row' = job.rows
  PROVE  Remembers'
<1>0. StoresOK(job.r)  BY DEF Remembers
<1> SUFFICES ASSUME LineFits PROVE (mem = [a \in Filled |-> Val(a)])'
  BY <1>0 DEF Remembers, LineFits
<1>1. Sound(job)  BY SoundJob DEF CInv, Counts, Remembers
<1> DEFINE ms == 0..job.width * job.r.mul - 1
<1>2. /\ Filled = Box(0..High * row - 1, ms) \cup Box(AtWork, ms)
      /\ Filled' = Box(0..High * row + High - 1, ms)
  BY <1>1, RowDone
<1>3. AtWork = High * row .. High * row + High - 1  BY DEF AtWork
<1>4. (0..High * row - 1) \cup AtWork = 0..High * row + High - 1
  <2>1. row \in Nat /\ High \in Nat \ {0}  BY <1>1 DEF CInv, Counts, Sound, High
  <2> QED BY <1>3, <2>1, RowLines
<1>5. Filled' = Filled
  <2> HIDE DEF ms
  <2> DEFINE done == 0..High * row - 1
  <2>1. Box(done, ms) \cup Box(AtWork, ms) = Box(done \cup AtWork, ms)
    BY BoxLines
  <2> QED BY <1>2, <1>4, <2>1, Zenon
<1>6. \A a : Val(a)' = Val(a)  BY DEF Val
<1>7. [a \in Filled' |-> Val(a)'] = [a \in Filled |-> Val(a)]
  BY <1>5, <1>6
<1> QED BY <1>7 DEF Remembers

LEMMA NextLineRemembers == CInv /\ Remembers /\ NextLine => Remembers'
<1> SUFFICES ASSUME CInv, Remembers, NextLine PROVE Remembers'  OBVIOUS
<1>1. /\ job.sp \in Nat \ {0} /\ row \in Nat /\ job.rows \in Nat /\ job.width \in Int
      /\ job.sp * row \in Int /\ src = job.sp * row + job.width
  BY DEF CInv, Counts, JobOK, NextLine, AtEnd, Marked
<1>2. /\ src' = src + (job.sp - job.width) /\ row' = row + 1 /\ job' = job /\ mem' = mem
      /\ pc' = (IF src' = job.sp * job.rows THEN "done" ELSE "line") /\ pc = "next"
      /\ job.r.kind = "asm"
  BY DEF NextLine
<1>3. src' = job.sp * row'
  <2>1. job.sp * (row + 1) = job.sp * row + job.sp
    <3>1. job.sp \in Int /\ row \in Int  BY <1>1
    <3> QED BY <3>1, NextTimes
  <2> QED BY <1>1, <1>2, <2>1
<1>4. pc' = "done" => row' = job.rows
  <2> SUFFICES ASSUME pc' = "done" PROVE row' = job.rows  OBVIOUS
  <2>1. job.sp * row' = job.sp * job.rows  BY <1>2, <1>3
  <2>2. row' \in Nat /\ job.rows \in Nat /\ job.sp \in Nat \ {0}  BY <1>1, <1>2
  <2> QED BY <2>1, <2>2, LastRow
<1> QED BY <1>2, <1>3, <1>4, RowRemembers

(* The other lines of a row are copies of its first.                         *)
LEMMA RepeatedIs ==
  ASSUME CInv, Remembers, Sound(job), LineFits, pc = "next", job.r.kind = "lines"
  PROVE  LET from == row * job.r.lines * job.dp
             ms == 0..job.width * job.r.mul - 1
             new == Repeated(from)
         IN /\ DOMAIN new = Box(High * row + 1 .. High * row + High - 1, ms)
            /\ \A a \in DOMAIN new : new[a] = Val(a)
<1> DEFINE dp == job.dp
           m == job.r.mul
           l == job.r.lines
           w == job.width * m
           from == row * l * dp
           ms == 0..w - 1
           new == Repeated(from)
<1>1. /\ dp \in Nat \ {0} /\ m \in Nat \ {0} /\ l \in Nat \ {0} /\ row \in Nat
      /\ job.width \in Nat /\ w <= dp
  BY DEF Sound, CInv, Counts
<1>2. w \in Nat /\ from \in Nat /\ l * row \in Nat
  <2> HIDE DEF dp, m, l
  <2> QED BY <1>1
<1>3. ASSUME NEW i \in 0..l - 1, NEW k \in ms
      PROVE  /\ from + i * dp + k = (l * row + i) * dp + k
             /\ l * row + i \in Nat /\ k \in 0..dp - 1 /\ k \in Nat
  <2>1. k \in 0..dp - 1 /\ i \in Nat /\ k \in Nat
    <3> HIDE DEF dp, w, l
    <3> QED BY <1>1, <1>2
  <2> HIDE DEF dp, m, l, w
  <2>2. (l * row + i) * dp = (l * row) * dp + i * dp
    BY <1>1, <2>1
  <2>3. (l * row) * dp = from  BY <1>1
  <2> DEFINE u == (l * row + i) * dp
             v == i * dp
  <2>4. u \in Nat /\ v \in Nat /\ u = from + v  BY <1>1, <2>1, <2>2, <2>3
  <2> HIDE DEF u, v, from
  <2>5. from + v + k = u + k  BY <1>2, <2>1, <2>4
  <2>6. l * row + i \in Nat  BY <1>2, <2>1
  <2> QED BY <2>1, <2>5, <2>6 DEF u, v
<1>4. new = [a \in {from + i * dp + k : i \in 1..l - 1, k \in ms} |-> mem[from + ((a - from) % dp)]]
  BY DEF Repeated
<1>5. DOMAIN new = Box(High * row + 1 .. High * row + High - 1, ms)
  <2> DEFINE js == l * row + 1 .. l * row + l - 1
             is == 1..l - 1
  <2>1. DOMAIN new = {from + i * dp + k : i \in is, k \in ms}
    <3> HIDE DEF from, dp, l, ms
    <3>1. DOMAIN new = {from + i * dp + k : i \in 1..l - 1, k \in ms}  BY <1>4
    <3> HIDE DEF new
    <3> QED BY <3>1
  <2>2. \A i \in is, k \in ms : from + i * dp + k = (l * row + i) * dp + k
    <3> SUFFICES ASSUME NEW i \in is, NEW k \in ms PROVE from + i * dp + k = (l * row + i) * dp + k
      OBVIOUS
    <3>1. i \in 0..l - 1  BY <1>1
    <3> HIDE DEF from, dp, l, ms
    <3> QED BY <1>3, <3>1
  <2> HIDE DEF l, dp, ms, from, new
  <2>3. \A i \in is : l * row + i \in js  BY <1>2, <1>1
  <2>4. \A j \in js : \E i \in is : j = l * row + i
    <3> SUFFICES ASSUME NEW j \in js PROVE \E i \in is : j = l * row + i  OBVIOUS
    <3>1. j - l * row \in is /\ j = l * row + (j - l * row)  BY <1>1, <1>2
    <3> QED BY <3>1
  <2> HIDE DEF js, is
  <2>5. DOMAIN new \subseteq Box(js, ms)
    BY <2>1, <2>2, <2>3 DEF Box, dp
  <2>6. Box(js, ms) \subseteq DOMAIN new
    <3> SUFFICES ASSUME NEW j \in js, NEW k \in ms PROVE j * dp + k \in DOMAIN new
      BY DEF Box, dp
    <3>1. PICK i \in is : j = l * row + i  BY <2>4
    <3>2. j * dp + k = from + i * dp + k  BY <2>2, <3>1
    <3> QED BY <2>1, <3>2
  <2> QED BY <2>5, <2>6 DEF js, High, l
<1>6. ASSUME NEW a \in DOMAIN new PROVE new[a] = Val(a)
  <2>1. PICK i \in 1..l - 1, k \in ms : a = from + i * dp + k
    <3> HIDE DEF from, dp, l, ms
    <3>1. DOMAIN new = {from + i * dp + k : i \in 1..l - 1, k \in ms}  BY <1>4
    <3> HIDE DEF new
    <3> QED BY <3>1
  <2>2. i \in 0..l - 1 /\ 0 \in 0..l - 1  BY <1>1
  <2>3. /\ a = (l * row + i) * dp + k /\ l * row + i \in Nat /\ k \in 0..dp - 1 /\ k \in Nat
        /\ from + 0 * dp + k = (l * row + 0) * dp + k /\ l * row + 0 \in Nat
    <3> HIDE DEF from, dp, l, ms
    <3> QED BY <1>3, <2>1, <2>2
  <2>4. (a - from) % dp = k
    <3>1. TakenApart(from + i * dp + k, from, dp, i, k)
      <4>1. i \in Nat /\ from \in Int  BY <1>2, <2>2
      <4> HIDE DEF from, dp, l, ms
      <4> QED BY <1>1, <2>3, <4>1, Apart
    <3> QED BY <2>1, <3>1, Zenon DEF TakenApart
  <2>5. new[a] = mem[from + k]
    <3> HIDE DEF from, dp, l, ms
    <3>1. new[a] = mem[from + ((a - from) % dp)]
      BY <1>4
    <3> HIDE DEF new
    <3> QED BY <2>4, <3>1, Zenon
  <2>6. from + k = (l * row + 0) * dp + k
    <3>1. from \in Nat /\ 0 * dp = 0 /\ k \in Nat  BY <1>1, <1>2, <2>3
    <3>2. from + 0 * dp + k = from + k
      <4> HIDE DEF from, dp
      <4> QED BY <3>1
    <3> QED BY <2>3, <3>2, Zenon
  <2>7. mem[from + k] = Val(from + k)
    <3>1. mem = [c \in Filled |-> Val(c)]  BY DEF Remembers
    <3>2. from + k \in Filled
      <4>1. Passed = job.width
        <5>1. src = job.sp * row + job.width /\ job.sp * row \in Int /\ job.width \in Int
          BY DEF CInv, Counts, AtEnd, Marked, Sound
        <5> QED BY <5>1 DEF Passed
      <4>2. m * job.width = w  BY <1>1
      <4>3. Wide * Passed - 1 = w - 1  BY <4>1, <4>2 DEF Wide
      <4>4. k \in 0..Wide * Passed - 1  BY <4>3, <2>1, Zenon
      <4>5. l * row + 0 \in AtWork  BY <1>2 DEF AtWork, High
      <4>6. (l * row + 0) * dp + k \in Box(AtWork, 0..Wide * Passed - 1)
        BY <4>4, <4>5 DEF Box
      <4>7. Box(AtWork, 0..Wide * Passed - 1) \subseteq Filled  BY DEF Filled
      <4>8. (l * row + 0) * dp + k \in Filled  BY <4>6, <4>7, Zenon
      <4> QED BY <2>6, <4>8, Zenon
    <3> HIDE DEF from
    <3> QED BY <3>1, <3>2
  <2>8. Val(from + k) = Cell(l * row + 0, k) /\ Val(a) = Cell(l * row + i, k)
    <3>1. Val((l * row + 0) * dp + k) = Cell(l * row + 0, k)  BY <2>3, ValIsCell, Zenon
    <3>2. Val((l * row + i) * dp + k) = Cell(l * row + i, k)  BY <2>3, ValIsCell, Zenon
    <3> QED BY <2>3, <2>6, <3>1, <3>2, Zenon
  <2>9. Cell(l * row + i, k) = Cell(l * row + 0, k)
    <3>1. (l * row + i) \div l = row /\ (l * row + i) % l = i
          /\ (l * row + 0) \div l = row /\ (l * row + 0) % l = 0
      BY <1>1, <2>2, Quotient
    <3> DEFINE v == (k % m) + 1
    <3>2. v \in 1..m
      <4>1. k % m \in 0..m - 1  BY <1>1, <2>3, Parts
      <4> HIDE DEF m
      <4> QED BY <1>1, <4>1
    <3>3. i + 1 \in 1..l /\ 0 + 1 \in 1..l  BY <1>1, <2>2
    <3> HIDE DEF v
    <3>4. job.r.pattern[i + 1][v] = "c1" /\ job.r.pattern[0 + 1][v] = "c1"
      BY <3>2, <3>3 DEF Remembers, StoresOK
    <3>5. /\ Cell(l * row + i, k) = <<row * job.sp + (k \div m), job.r.pattern[i + 1][v]>>
          /\ Cell(l * row + 0, k) = <<row * job.sp + (k \div m), job.r.pattern[0 + 1][v]>>
      BY <3>1, Zenon DEF Cell, v
    <3> QED BY <3>4, <3>5, Zenon
  <2> QED BY <2>5, <2>7, <2>8, <2>9, Zenon
<1> QED BY <1>5, <1>6

LEMMA NextRowRemembers == CInv /\ Remembers /\ NextRow => Remembers'
<1> SUFFICES ASSUME CInv, Remembers, NextRow PROVE Remembers'  OBVIOUS
<1>1. /\ row' = row + 1 /\ src' = job.sp * row' /\ job' = job /\ pc = "next"
      /\ pc' = (IF row' = job.rows THEN "done" ELSE "line")
      /\ mem' = IF job.r.kind = "lines" THEN Over(Repeated(row * job.r.lines * job.dp), mem) ELSE mem
  BY DEF NextRow
<1>2. CASE job.r.kind # "lines"
  BY <1>1, <1>2, RowRemembers
<1>3. CASE job.r.kind = "lines"
  <2>0. StoresOK(job.r)  BY DEF Remembers
  <2> SUFFICES ASSUME LineFits PROVE (mem = [a \in Filled |-> Val(a)])'
    BY <1>1, <2>0 DEF Remembers, LineFits
  <2>1. Sound(job)  BY SoundJob DEF CInv, Counts, Remembers
  <2> DEFINE ms == 0..job.width * job.r.mul - 1
             new == Repeated(row * job.r.lines * job.dp)
             others == Box(High * row + 1 .. High * row + High - 1, ms)
  <2>2. DOMAIN new = others /\ \A a \in DOMAIN new : new[a] = Val(a)
    BY <1>1, <1>3, <2>1, RepeatedIs
  <2>3. mem = [a \in Filled |-> Val(a)]  BY DEF Remembers
  <2>4. mem' = Over(new, mem)  BY <1>1, <1>3
  <2>5. /\ Filled = Box(0..High * row - 1, ms) \cup Box({High * row}, ms)
        /\ Filled' = Box(0..High * row + High - 1, ms)
    <3>1. AtWork = {High * row}  BY <1>3 DEF AtWork
    <3>2. /\ Filled = Box(0..High * row - 1, ms) \cup Box(AtWork, ms)
          /\ Filled' = Box(0..High * row + High - 1, ms)
      BY <1>1, <2>1, RowDone
    <3> QED BY <3>1, <3>2, Zenon
  <2> HIDE DEF new
  <2>6. others \cup Filled = Filled'
    <3> DEFINE done == 0..High * row - 1
               rest == High * row + 1 .. High * row + High - 1
    <3>1. done \cup {High * row} \cup rest = 0..High * row + High - 1
      <4>1. row \in Nat /\ High \in Nat \ {0}  BY <2>1 DEF CInv, Counts, Sound, High
      <4> QED BY <4>1, RowLines
    <3> HIDE DEF ms, done, rest
    <3>2. Box(rest, ms) \cup (Box(done, ms) \cup Box({High * row}, ms)) = Box(done \cup {High * row} \cup rest, ms)
      BY DEF Box
    <3> QED BY <2>5, <3>1, <3>2, Zenon DEF done, rest
  <2> HIDE DEF others
  <2>7. mem' = [a \in Filled' |-> Val(a)]
    <3>1. Over(new, mem) = [a \in others \cup Filled |-> Val(a)]
      BY <2>2, <2>3, OverIs
    <3> QED BY <2>4, <2>6, <3>1, Zenon
  <2>8. \A a : Val(a)' = Val(a)  BY <1>1 DEF Val
  <2>9. [a \in Filled' |-> Val(a)] = [a \in Filled' |-> Val(a)']  BY <2>8
  <2> QED BY <2>7, <2>9
<1> QED BY <1>2, <1>3

LEMMA NextRemembers == CInv /\ CInv' /\ Remembers /\ [Next]_vars => Remembers'
<1> SUFFICES ASSUME CInv, CInv', Remembers, [Next]_vars PROVE Remembers'  OBVIOUS
<1>1. CASE Line
  BY <1>1, SameRemembers DEF Line
<1>2. CASE Loop
  <2>1. Store(job.loop, TRUE) /\ pc = "loop" /\ pc' \in {"loop", "tail", "rest", "next"}
        /\ job.loop \in Nat /\ TRUE \in BOOLEAN
    BY <1>2 DEF Loop, CInv, Counts, JobOK
  <2>2. src + job.loop <= r8  BY <2>1, StoredWithin
  <2> QED BY <2>1, <2>2, StoreFills
<1>3. CASE Bits
  <2> DEFINE h == span \div 2
             stores == src # r8 /\ span > job.r.small /\ (job.width \div h) % 2 = 1
  <2>1. CASE stores
    <3>1. Store(h, TRUE) /\ pc = "tail" /\ pc' \in {"loop", "tail", "rest", "next"} /\ TRUE \in BOOLEAN
      BY <1>3, <2>1 DEF Bits
    <3>2. h \in Nat
      <4>1. span \in Sizes  BY <1>3, <2>1 DEF Bits, CInv, BitsLeft, Counts
      <4> QED BY <4>1 DEF Sizes
    <3> HIDE DEF h
    <3>3. src + h <= r8  BY <3>1, <3>2, StoredWithin
    <3> QED BY <3>1, <3>2, <3>3, StoreFills
  <2>2. CASE ~stores
    <3>1. UNCHANGED <<job, row, src, mem>> /\ pc # "done" /\ pc' # "done"
      BY <1>3, <2>2 DEF Bits
    <3> QED BY <3>1, SameRemembers
  <2> QED BY <2>1, <2>2
<1>4. CASE Rest
  <2>1. Store(job.r.rest, FALSE) /\ pc = "rest" /\ pc' \in {"loop", "tail", "rest", "next"}
        /\ job.r.rest \in Nat /\ FALSE \in BOOLEAN
    BY <1>4 DEF Rest, CInv, Counts, JobOK, RoutineOK
  <2>2. src + job.r.rest <= r8  BY <2>1, StoredWithin
  <2> QED BY <2>1, <2>2, StoreFills
<1>5. CASE UNCHANGED vars
  <2>1. UNCHANGED <<job, row, src, mem, pc>>  BY <1>5 DEF vars
  <2>2. CASE pc # "done"  BY <2>1, <2>2, SameRemembers
  <2>3. CASE pc = "done"
    <3>1. Filled' = Filled
      BY <2>1 DEF Filled, Box, High, Wide, Passed, AtWork
    <3>2. \A a : Val(a)' = Val(a)  BY <2>1 DEF Val
    <3>3. [a \in Filled' |-> Val(a)'] = [a \in Filled |-> Val(a)]  BY <3>1, <3>2
    <3>4. LineFits' = LineFits /\ StoresOK(job.r)' = StoresOK(job.r)
      BY <2>1 DEF LineFits, StoresOK
    <3> QED BY <2>1, <3>3, <3>4 DEF Remembers
  <2> QED BY <2>2, <2>3
<1> QED
  BY <1>1, <1>2, <1>3, <1>4, <1>5, NextLineRemembers, NextRowRemembers DEF Next

(* For every routine of the tables but the one stand-in of three lines for    *)
(* four, every width and every pitch that keeps the destination's lines      *)
(* apart, what is stored is the picture the call's factors ask for: no pixel *)
(* is dropped, doubled or stored in another's place, and nothing else is     *)
(* touched.                                                                  *)
THEOREM PictureIsScaled == Spec => []Scaled
<1>1. CInv /\ Remembers /\ AsAsked => Scaled
  <2> SUFFICES ASSUME CInv, Remembers, AsAsked, pc = "done", LineFits, ~ShortFallback
               PROVE  mem = Picture
    BY DEF Scaled
  <2> DEFINE all == {n * job.dp + m : n \in 0..job.rows * job.r.lines - 1, m \in 0..job.width * job.r.mul - 1}
  <2>1. mem = [a \in Filled |-> Val(a)] /\ row = job.rows  BY DEF Remembers
  <2>2. job.r.lines * job.rows = job.rows * job.r.lines
    <3>1. job.r.lines \in Int /\ job.rows \in Int  BY DEF CInv, Counts, JobOK, RoutineOK
    <3> QED BY <3>1
  <2>3. High * row = job.rows * job.r.lines /\ Wide = job.r.mul
    BY <2>1, <2>2 DEF High, Wide
  <2>4. Filled = Box(0..High * row - 1, 0..job.width * Wide - 1)  BY DEF Filled
  <2>5. Filled = Box(0..job.rows * job.r.lines - 1, 0..job.width * job.r.mul - 1)
    BY <2>3, <2>4, Zenon
  <2>6. Filled = all  BY <2>5 DEF Box
  <2>7. /\ job.call.ymul = job.r.lines /\ job.call.xmul = job.r.mul
        /\ Shades(job.call) = job.r.pattern
    BY DEF AsAsked
  <2> DEFINE Of(l, m, shades) ==
               [a \in {n * job.dp + o : n \in 0..job.rows * l - 1, o \in 0..job.width * m - 1} |->
                  <<(a \div (job.dp * l)) * job.sp + ((a % job.dp) \div m),
                    shades[((a \div job.dp) % l) + 1][((a % job.dp) % m) + 1]>>]
  <2>8. Picture = Of(job.call.ymul, job.call.xmul, Shades(job.call))  BY DEF Picture
  <2>9. Of(job.r.lines, job.r.mul, job.r.pattern) = [a \in all |-> Val(a)]  BY DEF Val
  <2> HIDE DEF all, Of
  <2>10. Picture = [a \in all |-> Val(a)]  BY <2>7, <2>8, <2>9, Zenon
  <2> QED BY <2>1, <2>6, <2>10, Zenon
<1>2. Spec => [](CInv)
  BY InitCInv, NextCInv, PTL DEF Spec
<1>3. Spec => []AsAsked
  BY InitAsAsked, NextAsAsked, PTL DEF Spec
<1> QED BY <1>1, <1>2, <1>3, InitRemembers, NextRemembers, PTL DEF Spec

-----------------------------------------------------------------------------
(* A call comes to an end: what is left of it, a number that every step makes *)
(* smaller and none makes negative.  The width is what remains of the line,   *)
(* the places of the code are counted down to "next", and a new line is worth *)
(* more than whatever a line begins with.                                     *)

ToLineEnd == job.sp * row + job.width - src
InLine ==
  CASE pc = "line" -> 4 + ToLineEnd + job.loop
    [] pc = "loop" -> 3 + ToLineEnd + span
    [] pc = "tail" -> 2 + ToLineEnd + span
    [] pc = "rest" -> 1 + ToLineEnd
    [] OTHER -> 0
Left == (job.rows - row) * (5 + job.width + job.loop) + InLine

\* The numbers it is made of, before and after a step.
OfLine ==
  /\ job.rows \in Nat /\ row \in Nat /\ job.width \in Nat /\ job.loop \in Nat \ {0}
  /\ pc # "done" => row < job.rows /\ ToLineEnd \in 0..job.width

LEMMA BeforeStep == CInv => OfLine
<1> SUFFICES ASSUME CInv PROVE OfLine  OBVIOUS
<1>1. /\ job.rows \in Nat /\ row \in Nat /\ job.width \in Nat /\ job.loop \in Nat \ {0}
      /\ job.sp \in Int /\ src \in Int
  BY DEF CInv, Counts, JobOK
<1> DEFINE B == job.sp * row
<1>2. B \in Int  BY <1>1
<1>3. pc # "done" => row < job.rows /\ B <= src /\ src <= B + job.width
  BY DEF CInv, KeepsToLine
<1> HIDE DEF B
<1>4. B + job.width - src \in Int
      /\ (pc # "done" => row < job.rows /\ B + job.width - src \in 0..job.width)
  BY <1>1, <1>2, <1>3
<1> QED BY <1>1, <1>4 DEF OfLine, ToLineEnd, B

LEMMA AfterStep == CInv' => OfLine'
  BY BeforeStep, PTL

\* Within a line it is enough that the line's number falls.
LEMMA SameLine ==
  ASSUME CInv, pc # "done", job' = job, row' = row, InLine \in Int, InLine' \in 0..InLine - 1
  PROVE  Left' \in 0..Left - 1
<1> DEFINE n == job.rows - row
           k == 5 + job.width + job.loop
<1>1. n \in Nat /\ k \in Nat
  BY BeforeStep DEF OfLine
<1>2. n * k \in Nat
  <2> HIDE DEF n, k
  <2> QED BY <1>1
<1>3. Left = n * k + InLine /\ Left' = n * k + InLine'
  BY DEF Left
<1> HIDE DEF n, k
<1> QED BY <1>2, <1>3

\* The next line: one line less, and the new one is worth less than that.
LEMMA OtherLine ==
  ASSUME CInv, CInv', pc = "next", job' = job, row' = row + 1, pc' \in {"line", "done"}
  PROVE  Left' \in 0..Left - 1
<1> DEFINE n == job.rows - row
           k == 5 + job.width + job.loop
<1>1. n \in Nat \ {0} /\ k \in Nat /\ job.rows - row' = n - 1 /\ row' \in Nat
  BY BeforeStep DEF OfLine
<1>2. InLine = 0  BY DEF InLine
<1>3. InLine' \in 0..k - 1
  <2>1. CASE pc' = "line"
    <3>1. InLine' = 4 + ToLineEnd' + job.loop  BY <2>1 DEF InLine
    <3>2. ToLineEnd' \in 0..job.width
      <4>1. pc' # "done" => ToLineEnd' \in 0..job'.width
        BY AfterStep DEF OfLine
      <4> QED BY <2>1, <4>1
    <3> QED BY <3>1, <3>2, BeforeStep DEF OfLine
  <2>2. CASE pc' = "done"
    <3>1. InLine' = 0  BY <2>2 DEF InLine
    <3> QED BY <3>1, BeforeStep DEF OfLine
  <2> QED BY <2>1, <2>2
<1>4. Left = n * k + InLine /\ Left' = (n - 1) * k + InLine'
  BY <1>1 DEF Left
<1> HIDE DEF n, k
<1> DEFINE a == (n - 1) * k
<1>5. a \in Nat /\ n * k = a + k
  <2>1. n - 1 \in Nat  BY <1>1
  <2>2. n * k = (n - 1) * k + k  BY <1>1
  <2> QED BY <1>1, <2>1, <2>2
<1>6. Left = a + k /\ Left' = a + InLine'
  BY <1>1, <1>2, <1>4, <1>5
<1> HIDE DEF a
<1>7. ASSUME NEW b \in 0..k - 1  PROVE a + b \in 0..(a + k) - 1
  BY <1>1, <1>5
<1> QED BY <1>3, <1>6, <1>7

\* A step along the line: so many pixels on, to the same place or a later one.
LEMMA AlongLine ==
  ASSUME CInv, CInv', pc # "done", pc' # "done", job' = job, row' = row, src' \in Int,
         NEW n \in Nat, src' = src + n
  PROVE  ToLineEnd' = ToLineEnd - n /\ ToLineEnd' \in Nat /\ ToLineEnd \in Nat /\ job.loop \in Nat
<1>1. ToLineEnd \in Nat /\ job.width \in Nat /\ job.loop \in Nat
  BY BeforeStep DEF OfLine
<1>2. job.sp \in Int /\ row \in Int /\ src \in Int
  BY DEF CInv, Counts, JobOK
<1> DEFINE B == job.sp * row
<1>3. B \in Int /\ B' = B  BY <1>2
<1>4. ToLineEnd = B + job.width - src /\ ToLineEnd' = B + job.width - (src + n)
  BY DEF ToLineEnd
<1> HIDE DEF B
<1>5. ToLineEnd' = ToLineEnd - n  BY <1>1, <1>2, <1>3, <1>4
<1>6. ToLineEnd' >= 0
  <2>1. pc' # "done" => ToLineEnd' \in 0..job'.width  BY AfterStep DEF OfLine
  <2> QED BY <1>1, <2>1
<1> QED BY <1>1, <1>5, <1>6

LEMMA LineSmaller == ASSUME CInv, CInv', Line PROVE Left' \in 0..Left - 1
<1>1. pc = "line" /\ pc' \in {"loop", "tail"} /\ UNCHANGED <<job, row, src>> /\ span' = job.loop
  BY DEF Line
<1>2. src \in Int /\ src' = src + 0  BY <1>1 DEF CInv, Counts
<1>3. ToLineEnd' = ToLineEnd - 0 /\ ToLineEnd \in Nat /\ job.loop \in Nat
  BY <1>1, <1>2, AlongLine
<1>4. InLine = 4 + ToLineEnd + job.loop /\ InLine' \in {2 + ToLineEnd + job.loop, 3 + ToLineEnd + job.loop}
  BY <1>1, <1>3 DEF InLine
<1> QED BY <1>1, <1>3, <1>4, SameLine

LEMMA LoopSmaller == ASSUME CInv, CInv', Loop PROVE Left' \in 0..Left - 1
<1>1. /\ pc = "loop" /\ pc' \in {"loop", "tail"} /\ UNCHANGED <<job, row>>
      /\ src' = src + job.loop /\ span' = span
  BY DEF Loop, Store
<1>2. src' \in Int /\ job.loop \in Nat \ {0} /\ span = job.loop
  BY <1>1 DEF CInv, Counts, JobOK, BlocksLeft
<1>3. ToLineEnd' = ToLineEnd - job.loop /\ ToLineEnd' \in Nat /\ ToLineEnd \in Nat
  BY <1>1, <1>2, AlongLine
<1>4. InLine = 3 + ToLineEnd + span /\ InLine' \in {2 + ToLineEnd' + span, 3 + ToLineEnd' + span}
  BY <1>1 DEF InLine
<1> QED BY <1>1, <1>2, <1>3, <1>4, SameLine

LEMMA BitsSmaller == ASSUME CInv, CInv', Bits PROVE Left' \in 0..Left - 1
<1>1. pc = "tail" /\ UNCHANGED <<job, row>> /\ span \in Nat \ {0} /\ src \in Int /\ src' \in Int
  <2>1. pc = "tail" /\ UNCHANGED <<job, row>>  BY DEF Bits, Store
  <2>2. span \in Nat \ {0} /\ src \in Int  BY <2>1 DEF CInv, Counts, BitsLeft
  <2>3. src' \in Int  BY DEF CInv, Counts
  <2> QED BY <2>1, <2>2, <2>3
<1>2. InLine = 2 + ToLineEnd + span
  BY <1>1 DEF InLine
<1>3. CASE pc' = "tail" /\ span' = span \div 2 /\ src' \in {src, src + (span \div 2)}
  <2>1. span \div 2 \in 0..span - 1  BY <1>1, Z3
  <2>2. PICK n \in Nat : src' = src + n
    BY <1>1, <1>3, <2>1
  <2>3. ToLineEnd' = ToLineEnd - n /\ ToLineEnd' \in Nat /\ ToLineEnd \in Nat
    BY <1>1, <1>3, <2>2, AlongLine
  <2>4. InLine' = 2 + ToLineEnd' + span'
    BY <1>3 DEF InLine
  <2> QED BY <1>1, <1>2, <1>3, <2>1, <2>3, <2>4, SameLine
<1>4. CASE pc' \in {"rest", "next"} /\ src' = src
  <2>1. src' = src + 0  BY <1>1, <1>4
  <2>2. ToLineEnd' = ToLineEnd - 0 /\ ToLineEnd \in Nat
    BY <1>1, <1>4, <2>1, AlongLine
  <2>3. InLine' \in {0, 1 + ToLineEnd}
    BY <1>4, <2>2 DEF InLine
  <2> QED BY <1>1, <1>2, <2>2, <2>3, SameLine
<1> QED BY <1>1, <1>3, <1>4 DEF Bits, Store

LEMMA RestSmaller == ASSUME CInv, CInv', Rest PROVE Left' \in 0..Left - 1
<1>1. /\ pc = "rest" /\ pc' \in {"rest", "next"} /\ UNCHANGED <<job, row>>
      /\ src' = src + job.r.rest
  BY DEF Rest, Store
<1>2. src' \in Int /\ job.r.rest \in Nat \ {0}
  BY DEF CInv, Counts, JobOK, RoutineOK
<1>3. ToLineEnd' = ToLineEnd - job.r.rest /\ ToLineEnd' \in Nat /\ ToLineEnd \in Nat
  BY <1>1, <1>2, AlongLine
<1>4. InLine = 1 + ToLineEnd /\ InLine' \in {0, 1 + ToLineEnd'}
  BY <1>1 DEF InLine
<1> QED BY <1>1, <1>2, <1>3, <1>4, SameLine

(* A call comes to an end, whatever the routine, the width and the pitches:  *)
(* every step leaves less to do, so no loop goes round for ever.  (That a    *)
(* call also does its steps is its fairness, for TLC.)                       *)
THEOREM EveryStepLeavesLess == Spec => [][Left' \in 0..Left - 1]_vars
<1>1. CInv /\ CInv' /\ [Next]_vars => [Left' \in 0..Left - 1]_vars
  <2> SUFFICES ASSUME CInv, CInv', Next PROVE Left' \in 0..Left - 1  OBVIOUS
  <2>1. CASE Line  BY <2>1, LineSmaller
  <2>2. CASE Loop  BY <2>2, LoopSmaller
  <2>3. CASE Bits  BY <2>3, BitsSmaller
  <2>4. CASE Rest  BY <2>4, RestSmaller
  <2>5. CASE NextLine
    <3>1. pc = "next" /\ job' = job /\ row' = row + 1 /\ pc' \in {"line", "done"}
      BY <2>5 DEF NextLine
    <3> QED BY <3>1, OtherLine
  <2>6. CASE NextRow
    <3>1. pc = "next" /\ job' = job /\ row' = row + 1 /\ pc' \in {"line", "done"}
      BY <2>6 DEF NextRow
    <3> QED BY <3>1, OtherLine
  <2> QED BY <2>1, <2>2, <2>3, <2>4, <2>5, <2>6 DEF Next
<1> QED BY <1>1, InitCInv, NextCInv, PTL DEF Spec
==============================================================================
