------------------------------- MODULE Scaler -------------------------------
(* The picture scalers of scaler.c: the C loops, the NEON loops written in   *)
(* assembler, and the line and grid effects.                                 *)
(*                                                                           *)
(* One call of one routine is a behaviour.  Addresses count pixels from the  *)
(* start of the source and of the destination; sizes in the tables are the   *)
(* bytes of the source.  All routines work in the same way: a line is copied *)
(* in blocks of one size, what is left is tested bit by bit, the rest goes   *)
(* pixel by pixel, and two cursors are moved on to the next line.  What      *)
(* differs is a record: sizes, lanes, number of lines, how a line is         *)
(* repeated and how the last line is recognised.                             *)
EXTENDS Integers, Sequences

CONSTANT Calls \* the calls: [scaler, xmul, ymul, sw, sh, sp, dp, odd]

VARIABLES job,   \* the call, the routine at work and the size of its picture
          pc,    \* "line", "loop", "tail", "rest", "next", "done"
          row,   \* lines of the source that are done
          src, dst,  \* the cursors
          lr, r8,    \* where the blocks and where the line ends (registers)
          span,  \* the size of the last bit tested in this line's rest
          mem    \* what was stored: address -> <<address in the source, shade>>

vars == <<job, pc, row, src, dst, lr, r8, span, mem>>

-----------------------------------------------------------------------------
(* Registers.  A NEON register holds four pixels.                            *)

Dup(p) == <<p, p, p, p>>
Ext(p, q, n) == SubSeq(Dup(p) \o Dup(q), n + 1, n + 4)

(* Faulty variant: one shift of vext is off by one.                          *)
LanesOff ==
  << <<0>>, Ext(0,1,2) \o Ext(2,3,2), Ext(0,1,1) \o Ext(1,2,2) \o Ext(2,3,2),
     Dup(0) \o Dup(1) \o Dup(2) \o Dup(3),
     Dup(0) \o Ext(0,1,3) \o Ext(1,2,2) \o Ext(2,3,1) \o Dup(3),
     Dup(0) \o Ext(0,1,2) \o Dup(1) \o Dup(2) \o Ext(2,3,2) \o Dup(3) >>
Lanes ==
  << <<0>>, Ext(0,1,2) \o Ext(2,3,2), Ext(0,1,1) \o Ext(1,2,2) \o Ext(2,3,3),
     Dup(0) \o Dup(1) \o Dup(2) \o Dup(3),
     Dup(0) \o Ext(0,1,3) \o Ext(1,2,2) \o Ext(2,3,1) \o Dup(3),
     Dup(0) \o Ext(0,1,2) \o Dup(1) \o Dup(2) \o Ext(2,3,2) \o Dup(3) >>

(* The C scalers work on words of two pixels: dpix1, pix and dpix2.          *)
dpix1 == <<0, 0>>
pix == <<0, 1>>
dpix2 == <<1, 1>>
Pairs ==
  << <<0>>, dpix1 \o dpix2, dpix1 \o pix \o dpix2, dpix1 \o dpix1 \o dpix2 \o dpix2,
     dpix1 \o dpix1 \o pix \o dpix2 \o dpix2,
     dpix1 \o dpix1 \o dpix1 \o dpix2 \o dpix2 \o dpix2 >>

-----------------------------------------------------------------------------
(* The routines.                                                             *)

Plain(mul, lines) == [i \in 1..lines |-> [j \in 1..mul |-> "c1"]]

(* An assembler loop: `loop' bytes at a time, then bits down to `small',     *)
(* then `rest' bytes; `fallback' is the number of lines of the C scaler it   *)
(* hands odd pitches and addresses to.                                       *)
Asm(mul, lines, bpp, loop, small, rest, fallback) ==
  [ kind |-> "asm", mul |-> mul, lines |-> lines, bpp |-> bpp, loop |-> loop \div bpp,
    small |-> small \div bpp, rest |-> rest \div bpp, lanes |-> Lanes[mul],
    group |-> IF mul = 1 THEN 1 ELSE 4, pattern |-> Plain(mul, lines),
    fallback |-> fallback, clips |-> FALSE ]

(* A line in assembler, repeated with memcpy_neon.                           *)
AsmLine(mul, lines, bpp, loop, small, rest) ==
  [Asm(mul, lines, bpp, loop, small, rest, lines) EXCEPT !.kind = "lines"]

(* The C scalers: pairs of pixels (16 bit) or pixels (32 bit), memcpy for    *)
(* the other lines and for a picture that is not widened (loop 0).           *)
Copy(lines, bpp) ==
  [ kind |-> "lines", mul |-> 1, lines |-> lines, bpp |-> bpp, loop |-> 0, small |-> 1,
    rest |-> 1, lanes |-> <<0>>, group |-> 1, pattern |-> Plain(1, lines),
    fallback |-> lines, clips |-> bpp = 2 ]
CLines(mul, lines, bpp) ==
  [ kind |-> "lines", mul |-> mul, lines |-> lines, bpp |-> bpp, loop |-> 4 \div bpp,
    small |-> 4 \div bpp, rest |-> 1,
    lanes |-> IF bpp = 2 THEN Pairs[mul] ELSE [j \in 1..mul |-> 0],
    group |-> 4 \div bpp, pattern |-> Plain(mul, lines), fallback |-> lines, clips |-> FALSE ]

(* An effect stores every pixel in all lines at once, in its shades.         *)
Cells(pattern) ==
  [ kind |-> "cells", mul |-> Len(pattern[1]), lines |-> Len(pattern), bpp |-> 2, loop |-> 1,
    small |-> 1, rest |-> 1, lanes |-> [j \in 1..Len(pattern[1]) |-> 0], group |-> 1,
    pattern |-> pattern, fallback |-> Len(pattern), clips |-> FALSE ]

scale1x_c16(lines) == Copy(lines, 2)
scale1x_c32(lines) == Copy(lines, 4)
scale2x_c16(lines) == CLines(2, lines, 2)
scale2x_c32(lines) == CLines(2, lines, 4)
scale3x_c16(lines) == CLines(3, lines, 2)
scale3x_c32(lines) == CLines(3, lines, 4)
scale4x_c16(lines) == CLines(4, lines, 2)
scale4x_c32(lines) == CLines(4, lines, 4)
scale5x_c16(lines) == CLines(5, lines, 2)
scale5x_c32(lines) == CLines(5, lines, 4)
scale6x_c16(lines) == CLines(6, lines, 2)
scale6x_c32(lines) == CLines(6, lines, 4)

memcpy_neon(bpp) == AsmLine(1, 1, bpp, 128, 8, 2)
scale1x1_n16 == [memcpy_neon(2) EXCEPT !.clips = TRUE]
scale1x2_n16 == Asm(1, 2, 2, 128, 8, 4, 2)
scale1x3_n16 == Asm(1, 3, 2, 128, 8, 4, 3)
scale1x4_n16 == Asm(1, 4, 2, 128, 8, 4, 4)
scale1x1_n32 == [memcpy_neon(4) EXCEPT !.rest = 1]
scale1x2_n32 == Asm(1, 2, 4, 128, 8, 4, 2)
scale1x3_n32 == Asm(1, 3, 4, 128, 8, 4, 3)
scale1x4_n32 == Asm(1, 4, 4, 128, 8, 4, 4)
scale2x1_n16 == Asm(2, 1, 2, 64, 32, 2, 1)
scale2x2_n16 == Asm(2, 2, 2, 64, 32, 2, 2)
scale2x3_n16 == Asm(2, 3, 2, 64, 32, 2, 3)
scale2x4_n16 == Asm(2, 4, 2, 64, 32, 2, 3)
scale2x1_n32 == Asm(2, 1, 4, 64, 64, 4, 1)
scale2x2_n32 == Asm(2, 2, 4, 64, 64, 4, 2)
scale2x3_n32 == Asm(2, 3, 4, 64, 64, 4, 3)
scale2x4_n32 == Asm(2, 4, 4, 64, 64, 4, 4)
scale3x1_n16 == Asm(3, 1, 2, 32, 32, 2, 1)
scale3x2_n16 == Asm(3, 2, 2, 32, 32, 2, 2)
scale3x3_n16 == Asm(3, 3, 2, 32, 32, 2, 3)
scale3x4_n16 == Asm(3, 4, 2, 32, 32, 2, 4)
scale3x1_n32 == Asm(3, 1, 4, 32, 32, 4, 1)
scale3x2_n32 == Asm(3, 2, 4, 32, 32, 4, 2)
scale3x3_n32 == Asm(3, 3, 4, 32, 32, 4, 3)
scale3x4_n32 == Asm(3, 4, 4, 32, 32, 4, 4)
scale4x1_n16 == Asm(4, 1, 2, 32, 32, 2, 1)
scale4x2_n16 == Asm(4, 2, 2, 32, 32, 2, 2)
scale4x3_n16 == Asm(4, 3, 2, 32, 32, 2, 3)
scale4x4_n16 == Asm(4, 4, 2, 32, 32, 2, 4)
scale4x1_n32 == Asm(4, 1, 4, 32, 32, 4, 1)
scale4x2_n32 == Asm(4, 2, 4, 32, 32, 4, 2)
scale4x3_n32 == Asm(4, 3, 4, 32, 32, 4, 3)
scale4x4_n32 == Asm(4, 4, 4, 32, 32, 4, 4)
scale5x_n16(lines) == AsmLine(5, lines, 2, 16, 16, 2)
scale5x_n32(lines) == AsmLine(5, lines, 4, 16, 16, 4)
scale6x_n16(lines) == AsmLine(6, lines, 2, 16, 16, 2)
scale6x_n32(lines) == AsmLine(6, lines, 4, 16, 16, 4)

(* c1 is the pixel, c2 and c3 are darker.                                    *)
scale2x_line == Cells(<< <<"c1","c1">>, <<"c2","c2">> >>)
scale3x_line == Cells(<< <<"c2","c2","c2">>, <<"c1","c1","c1">>, <<"c1","c1","c1">> >>)
scale4x_line == Cells(<< <<"c1","c1","c1","c1">>, <<"c2","c2","c2","c2">>,
                         <<"c1","c1","c1","c1">>, <<"c2","c2","c2","c2">> >>)
scale2x_grid == Cells(<< <<"c2","c2">>, <<"c2","c1">> >>)
scale3x_grid == Cells(<< <<"c2","c1","c1">>, <<"c2","c1","c1">>, <<"c3","c2","c2">> >>)

(* The tables of routines by factor; what they do not list does nothing.  An *)
(* effect widens and repeats by the same factor.                             *)
scaler_n16 ==
  << <<scale1x1_n16, scale1x2_n16, scale1x3_n16, scale1x4_n16>>,
     <<scale2x1_n16, scale2x2_n16, scale2x3_n16, scale2x4_n16>>,
     <<scale3x1_n16, scale3x2_n16, scale3x3_n16, scale3x4_n16>>,
     <<scale4x1_n16, scale4x2_n16, scale4x3_n16, scale4x4_n16>>,
     [l \in 1..5 |-> scale5x_n16(l)], [l \in 1..6 |-> scale6x_n16(l)] >>
scaler_n32 ==
  << <<scale1x1_n32, scale1x2_n32, scale1x3_n32, scale1x4_n32>>,
     <<scale2x1_n32, scale2x2_n32, scale2x3_n32, scale2x4_n32>>,
     <<scale3x1_n32, scale3x2_n32, scale3x3_n32, scale3x4_n32>>,
     <<scale4x1_n32, scale4x2_n32, scale4x3_n32, scale4x4_n32>>,
     [l \in 1..5 |-> scale5x_n32(l)], [l \in 1..6 |-> scale6x_n32(l)] >>
scaler_c16 ==
  << [l \in 1..4 |-> scale1x_c16(l)], [l \in 1..4 |-> scale2x_c16(l)],
     [l \in 1..4 |-> scale3x_c16(l)], [l \in 1..4 |-> scale4x_c16(l)],
     [l \in 1..5 |-> scale5x_c16(l)], [l \in 1..6 |-> scale6x_c16(l)] >>
scaler_c32 ==
  << [l \in 1..4 |-> scale1x_c32(l)], [l \in 1..4 |-> scale2x_c32(l)],
     [l \in 1..4 |-> scale3x_c32(l)], [l \in 1..4 |-> scale4x_c32(l)],
     [l \in 1..5 |-> scale5x_c32(l)], [l \in 1..6 |-> scale6x_c32(l)] >>

(* Routines are handed over by the name of their table and their factors.    *)
Table ==
  [ n16 |-> scaler_n16, n32 |-> scaler_n32, c16 |-> scaler_c16, c32 |-> scaler_c32,
    line |-> [x \in 2..4 |-> [y \in {x} |-> <<scale2x_line, scale3x_line, scale4x_line>>[x - 1]]],
    grid |-> [x \in 2..3 |-> [y \in {x} |-> <<scale2x_grid, scale3x_grid>>[x - 1]]] ]
Listed(c) == c.xmul \in DOMAIN Table[c.scaler] /\ c.ymul \in DOMAIN Table[c.scaler][c.xmul]
InC(c, lines) == IF c.scaler = "n16" THEN scaler_c16[c.xmul][lines] ELSE scaler_c32[c.xmul][lines]

(* Addresses and pitches that are no multiple of four go to the C scaler.    *)
Misaligned(c, sp, dp) ==
  c.scaler \in {"n16", "n32"} /\ (c.odd \/ (c.scaler = "n16" /\ (sp % 2 = 1 \/ dp % 2 = 1)))

(* What a call comes to: its routine, and the picture as one line if nothing *)
(* separates the lines.  The 16 bit copies are cut to the pitch.             *)
Job(c) ==
  LET asked == Table[c.scaler][c.xmul][c.ymul]
      sp == IF c.sp = 0 THEN c.sw ELSE c.sp
      dp == IF c.dp = 0 THEN c.xmul * c.sw ELSE c.dp
      r == IF Misaligned(c, sp, dp) THEN InC(c, asked.fallback) ELSE asked
      whole == r.kind = "lines" /\ r.mul = 1 /\ r.lines = 1 /\ sp = c.sw /\ dp = c.sw
      width == IF whole THEN sp * c.sh ELSE IF r.clips /\ c.sw > dp THEN dp ELSE c.sw
  IN [call |-> c, r |-> r, width |-> width, rows |-> IF whole THEN 1 ELSE c.sh,
      sp |-> IF whole THEN width ELSE sp, dp |-> IF whole THEN width ELSE dp,
      loop |-> IF r.loop = 0 THEN width ELSE r.loop]

(* What callers keep to.  The narrow 16 bit NEON copies store what is left   *)
(* of a line as one word and look at no end: an odd width with even pitches, *)
(* which nothing hands to the C scaler, would run past every line.           *)
ASSUME CallsAssumption ==
  \A c \in Calls :
    /\ c \in [scaler : DOMAIN Table, xmul : 1..6, ymul : 1..6, sw : Nat, sh : Nat,
              sp : Nat, dp : Nat, odd : BOOLEAN]
    /\ c.scaler = "n16" /\ c.xmul = 1 /\ c.ymul > 1 => c.sw % 2 = 0

-----------------------------------------------------------------------------
Init ==
  /\ \E c \in Calls : Listed(c) /\ c.sw > 0 /\ c.sh > 0 /\ job = Job(c)
  /\ pc = "line" /\ row = 0 /\ src = 0 /\ dst = 0
  /\ lr = 0 /\ r8 = 0 /\ span = 0 /\ mem = <<>>

Over(new, old) ==
  [a \in DOMAIN new \cup DOMAIN old |-> IF a \in DOMAIN new THEN new[a] ELSE old[a]]

(* The pixel, of those that are read, each stored one holds.                 *)
Block(k) == job.r.group * (k \div (job.r.group * job.r.mul))
            + job.r.lanes[(k % (job.r.group * job.r.mul)) + 1]
Single(k) == k \div job.r.mul

(* What n pixels of the source come to: where they go, widened and in each   *)
(* line that is stored at once, and what is stored in each place.            *)
Lines == IF job.r.kind = "lines" THEN {0} ELSE 0..job.r.lines - 1
Targets(n) == {dst + i * job.dp + k : i \in Lines, k \in 0..n * job.r.mul - 1}
Pixel(block, k) == src + (IF block THEN Block(k) ELSE Single(k))
Lane(block, i, k) == <<Pixel(block, k), job.r.pattern[i + 1][(k % job.r.mul) + 1]>>
Stored(n, block) ==
  [a \in Targets(n) |-> Lane(block, (a - dst) \div job.dp, (a - dst) % job.dp)]

(* n pixels of the source, widened, as a block or one by one.                *)
Store(n, block) ==
  /\ mem' = Over(Stored(n, block), mem)
  /\ src' = src + n
  /\ dst' = dst + n * job.r.mul
  /\ UNCHANGED <<job, row, lr, r8>>

(* The ends of the blocks and of the line are set, as the loops' bounds are. *)
Line ==
  /\ pc = "line"
  /\ lr' = src + (job.width - (job.width % job.loop))
  /\ r8' = src + job.width
  /\ span' = job.loop
  /\ pc' = IF lr' = src THEN "tail" ELSE "loop"
  /\ UNCHANGED <<job, row, src, dst, mem>>

(* Blocks, down to the end of the blocks.                                    *)
Loop ==
  /\ pc = "loop"
  /\ Store(job.loop, TRUE)
  /\ pc' = IF src' = lr THEN "tail" ELSE "loop"
  /\ UNCHANGED span

(* Faulty variant: a bit that is not set is looked at again.                 *)
BitsStuck ==
  /\ pc = "tail"
  /\ IF src = r8 THEN pc' = "next" /\ UNCHANGED <<job, row, src, dst, lr, r8, span, mem>>
     ELSE IF span > job.r.small
     THEN /\ IF (job.width \div (span \div 2)) % 2 = 1
             THEN Store(span \div 2, TRUE) /\ span' = span \div 2
             ELSE UNCHANGED <<job, row, src, dst, lr, r8, span, mem>>
          /\ UNCHANGED pc
     ELSE pc' = "rest" /\ UNCHANGED <<job, row, src, dst, lr, r8, span, mem>>
(* The line's end, a bit of its width, or what no bit stands for.            *)
Bits ==
  /\ pc = "tail"
  /\ IF src = r8 THEN pc' = "next" /\ UNCHANGED <<job, row, src, dst, lr, r8, span, mem>>
     ELSE IF span > job.r.small
     THEN /\ IF (job.width \div (span \div 2)) % 2 = 1 THEN Store(span \div 2, TRUE)
             ELSE UNCHANGED <<job, row, src, dst, lr, r8, mem>>
          /\ span' = span \div 2 /\ UNCHANGED pc
     ELSE pc' = "rest" /\ UNCHANGED <<job, row, src, dst, lr, r8, span, mem>>

(* The rest; narrow NEON copies store it once and do not look at the end.    *)
Rest ==
  /\ pc = "rest"
  /\ Store(job.r.rest, FALSE)
  /\ pc' = IF src' = r8 \/ (job.r.kind = "asm" /\ job.r.mul = 1) THEN "next" ELSE "rest"
  /\ UNCHANGED span

(* Faulty variant: dadd forgets that the line was widened.                   *)
NextLineNarrow ==
  /\ pc = "next" /\ job.r.kind = "asm"
  /\ src' = src + (job.sp - job.width)
  /\ dst' = dst + (job.dp * job.r.lines - job.width)
  /\ row' = row + 1
  /\ pc' = IF src' = job.sp * job.rows THEN "done" ELSE "line"
  /\ UNCHANGED <<job, lr, r8, span, mem>>
(* Assembler: both cursors skip to the next line, and the source's cursor    *)
(* says whether it was the last.                                             *)
NextLine ==
  /\ pc = "next" /\ job.r.kind = "asm"
  /\ src' = src + (job.sp - job.width)
  /\ dst' = dst + (job.dp * job.r.lines - job.width * job.r.mul)
  /\ row' = row + 1
  /\ pc' = IF src' = job.sp * job.rows THEN "done" ELSE "line"
  /\ UNCHANGED <<job, lr, r8, span, mem>>

(* The other lines are copies of the first.                                  *)
Repeated(from) ==
  LET w == job.width * job.r.mul
  IN [a \in {from + i * job.dp + k : i \in 1..job.r.lines - 1, k \in 0..w - 1} |->
        mem[from + ((a - from) % job.dp)]]

(* C: the line is repeated if it must be, and lines are counted.             *)
NextRow ==
  /\ pc = "next" /\ job.r.kind # "asm"
  /\ mem' = IF job.r.kind = "lines" THEN Over(Repeated(row * job.r.lines * job.dp), mem) ELSE mem
  /\ row' = row + 1
  /\ src' = job.sp * (row + 1)
  /\ dst' = job.dp * job.r.lines * (row + 1)
  /\ pc' = IF row' = job.rows THEN "done" ELSE "line"
  /\ UNCHANGED <<job, lr, r8, span>>

Next == Line \/ Loop \/ Bits \/ Rest \/ NextLine \/ NextRow

Spec == Init /\ [][Next]_vars /\ WF_vars(Next)

-----------------------------------------------------------------------------
(* Properties.                                                               *)

(* The destination's lines hold the widened lines of the source.             *)
LineFits == job.width * job.r.mul <= job.dp

(* The picture a call asks for: xmul and ymul are the call's, not those of   *)
(* the routine that did the work.                                            *)
Shades(c) ==
  IF c.scaler \in {"line", "grid"} THEN Table[c.scaler][c.xmul][c.ymul].pattern
  ELSE Plain(c.xmul, c.ymul)
Picture ==
  LET l == job.call.ymul
      m == job.call.xmul
      y(a) == a \div (job.dp * l)
      i(a) == (a \div job.dp) % l
      k(a) == a % job.dp
  IN [a \in {n * job.dp + o : n \in 0..job.rows * l - 1, o \in 0..job.width * m - 1} |->
        <<y(a) * job.sp + (k(a) \div m), Shades(job.call)[i(a) + 1][(k(a) % m) + 1]>>]

(* scale2x4_n16 hands what it cannot take to the C scaler of three lines.    *)
ShortFallback ==
  /\ job.call.scaler = "n16" /\ job.call.xmul = 2 /\ job.call.ymul = 4
  /\ job.r.kind # "asm"

(* A call that has returned has stored every pixel of the source xmul times  *)
(* in each of ymul lines, in the shades of its effect, and nothing beside    *)
(* it: whatever the width is to the blocks, whatever the pitches and         *)
(* whichever routine did the work, if the destination's lines are apart.     *)
(* The one routine that does not is named.                                   *)
Scaled == pc = "done" /\ LineFits /\ ~ShortFallback => mem = Picture

(* The same of every routine.  scaler.h: "x-offset and stride pixels must be *)
(* even# in the case of 16bpp, if odd#, then handled by the C scaler".       *)
AskedIsStored == pc = "done" /\ LineFits => mem = Picture

(* The cursors keep step: the line's end is met exactly, never passed, and   *)
(* the destination's cursor is where the pixels read so far put it.  The     *)
(* loops of the assembler compare for equality only: a cursor that passes    *)
(* its mark never stops.                                                     *)
KeepsToLine ==
  pc # "done" =>
    /\ row < job.rows
    /\ job.sp * row <= src /\ src <= job.sp * row + job.width
    /\ dst = job.dp * job.r.lines * row + job.r.mul * (src - job.sp * row)

(* Every call returns.                                                       *)
Finishes == <>(pc = "done")
=============================================================================
