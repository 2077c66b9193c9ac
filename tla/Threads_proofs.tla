--------------------------- MODULE Threads_proofs ---------------------------
(***************************************************************************)
(* Theorems about the threads of a running game.                           *)
(*                                                                         *)
(* The audio ring (SndRing), for every ring size, every pair of sample     *)
(* rates and every callback length: type correctness, the exact resampling *)
(* balance, that no sample changes its side, and that the ring implements  *)
(* SndFifo.                                                                *)
(*                                                                         *)
(* minarch's main thread and the core's (CoreThread), for every            *)
(* interleaving of the two and the player: main never runs the core while  *)
(* another thread may be in it, and no frame begins behind the menu.       *)
(***************************************************************************)
EXTENDS SndRing, CoreThread, SequenceTheorems, TLAPS

\* The strengthening the proofs need: frame_filled trails frame_out by one slot,
\* SND_batchSamples is inside its loops exactly while it holds the audio lock,
\* and its locals stay within the frames it was handed.
FilledTrailsOut ==
  frame_filled = IF frame_out = 0 THEN FrameCount - 1 ELSE frame_out - 1

LockedLoops == batch \in {"loop", "wait", "fill"} <=> audio_lock = "batch"

LocalsInBatch ==
  /\ amount <= left
  /\ frames + left <= MaxFrames + 1
  /\ newest <= frames
  /\ batch = "idle" => left = 0

IInv == TypeOK /\ FilledTrailsOut /\ LockedLoops /\ LocalsInBatch

USE SndAssumption

LEMMA WrapInSlots == ASSUME NEW i \in Slots PROVE Wrap(i) \in Slots
  BY DEF Slots, Wrap

LEMMA InitIInv == Init => IInv
<1> SUFFICES ASSUME Init PROVE IInv
  OBVIOUS
<1>1. stream \in Seq(Sample)
  BY EmptySeq DEF Init
<1> QED
  BY <1>1 DEF Init, IInv, TypeOK, FilledTrailsOut, LockedLoops, LocalsInBatch, Slots, Frame

\* The samples that complete a dry stream are samples of the stream, or silence.
LEMMA MirrorIsStream ==
  ASSUME NEW s \in Seq(Sample), NEW n \in Nat
  PROVE  MirrorUnderrun(s, n) \in Seq(Sample)
<1>1. Silence \in Sample
  BY DEF Silence, Sample, Frame
<1>2. MirrorUnderrun(s, n) \in [1 .. n -> Sample]
  <2>1. ASSUME NEW j \in 1 .. n, Len(s) - j >= 1
        PROVE  s[Len(s) - j] \in Sample
    <3>1. Len(s) \in Nat
      BY LenProperties
    <3>2. Len(s) - j \in 1 .. Len(s)
      BY <2>1, <3>1
    <3> QED
      BY <3>2, ElementOfSeq
  <2> QED
    BY <1>1, <2>1 DEF MirrorUnderrun
<1> QED
  BY <1>2, SeqDef

LEMMA SilenceIsStream ==
  ASSUME NEW n \in Nat
  PROVE  [j \in 1 .. n |-> Silence] \in Seq(Sample)
<1>1. Silence \in Sample
  BY DEF Silence, Sample, Frame
<1>2. [j \in 1 .. n |-> Silence] \in [1 .. n -> Sample]
  BY <1>1
<1> QED
  BY <1>2, SeqDef
-----------------------------------------------------------------------------
\* One call of a resampler keeps the invariant: it stores at most one frame,
\* in a slot of the ring, and consumes at most one.
LEMMA StoreIInv ==
  ASSUME IInv, Store, left > 0
  PROVE  /\ buffer' \in [Slots -> Frame]
         /\ frame_in' \in Slots
         /\ pushes' \in Nat /\ newest' \in Frame /\ newest' = frames
<1>1. frames \in Frame
  BY DEF IInv, TypeOK, LocalsInBatch, Frame
<1> QED
  BY <1>1, WrapInSlots DEF IInv, TypeOK, Store, Slots

LEMMA ResampleIInv == IInv /\ BatchResample => IInv'
<1> SUFFICES ASSUME IInv, BatchResample PROVE IInv'
  OBVIOUS
<1>0. left > 0 /\ amount > 0 /\ left \in Nat /\ amount \in Nat /\ batch = "fill"
  BY DEF IInv, TypeOK, LocalsInBatch, BatchResample
<1>1. CASE ResampleNone
  <2>1. Store /\ Consume(1) /\ UNCHANGED diff
    BY <1>1 DEF ResampleNone
  <2> QED
    BY <1>0, <2>1, StoreIInv
    DEF IInv, TypeOK, FilledTrailsOut, LockedLoops, LocalsInBatch, BatchResample,
        Consume, streamVars
<1>2. CASE ResampleNear
  <2> DEFINE stored == diff < rate_out
             owed == IF stored THEN diff + rate_in ELSE diff
             c == IF owed >= rate_out THEN 1 ELSE 0
  <2>1. c \in {0, 1} /\ owed \in Nat /\ owed - c * rate_out \in Nat
    BY DEF IInv, TypeOK
  <2>2. Consume(c) /\ diff' \in Nat
    BY <1>2, <2>1 DEF ResampleNear
  <2>3. /\ buffer' \in [Slots -> Frame] /\ frame_in' \in Slots
        /\ pushes' \in Nat /\ newest' \in Frame /\ newest' <= frames
    <3>1. CASE stored
      BY <1>0, <1>2, <3>1, StoreIInv DEF ResampleNear, IInv, TypeOK
    <3>2. CASE ~stored
      BY <1>2, <3>2 DEF ResampleNear, IInv, TypeOK, LocalsInBatch
    <3> QED
      BY <3>1, <3>2
  <2>4. c \in {0, 1}
    BY <2>1
  <2> HIDE DEF c, owed, stored
  <2>5. /\ frames' \in 1 .. MaxFrames + 1 /\ left' \in Nat /\ amount' \in Nat
        /\ LocalsInBatch'
    BY <1>0, <2>2, <2>3, <2>4
    DEF IInv, TypeOK, LocalsInBatch, BatchResample, Consume, Frame
  <2>6. TypeOK'
    BY <2>2, <2>3, <2>5 DEF IInv, TypeOK, BatchResample, streamVars
  <2> QED
    BY <2>5, <2>6
    DEF IInv, FilledTrailsOut, LockedLoops, BatchResample
<1> QED
  BY <1>1, <1>2 DEF BatchResample

\* The callback's two loops keep the invariant: each copied frame moves
\* frame_out and frame_filled together.
LEMMA CallbackIInv ==
  IInv /\ (StartCallback \/ CopyFrame \/ FillStream) => IInv'
<1> SUFFICES ASSUME IInv, StartCallback \/ CopyFrame \/ FillStream PROVE IInv'
  OBVIOUS
<1>1. CASE StartCallback
  <2>1. <<>> \in Seq(Sample)
    BY EmptySeq
  <2> QED
    BY <1>1, <2>1
    DEF StartCallback, SND_audioCallback, IInv, TypeOK, FilledTrailsOut, LockedLoops,
        LocalsInBatch, ringVars, rateVars, batchVars, historyVars
<1>2. CASE CopyFrame
  <2> DEFINE f == buffer[frame_out]
  <2>1. f \in Frame
    BY DEF IInv, TypeOK
  <2>2. << <<f, "L">>, <<f, "R">> >> \in Seq(Sample)
    BY <2>1 DEF Sample
  <2>3. stream' \in Seq(Sample)
    BY <1>2, <2>2, ConcatProperties DEF CopyFrame, IInv, TypeOK
  <2>4. frame_out' \in Slots
    BY <1>2, WrapInSlots DEF CopyFrame, IInv, TypeOK
  <2>5. FilledTrailsOut'
    BY <1>2 DEF CopyFrame, FilledTrailsOut, IInv, TypeOK, Wrap, Slots
  <2> QED
    BY <1>2, <2>1, <2>3, <2>4, <2>5
    DEF CopyFrame, IInv, TypeOK, LockedLoops, LocalsInBatch, rateVars, batchVars
<1>3. CASE FillStream
  <2>1. 2 * len \in Nat /\ stream \in Seq(Sample)
    BY DEF IInv, TypeOK
  <2>2. stream' \in Seq(Sample)
    <3>1. CASE len = SAMPLES
      BY <1>3, <2>1, <3>1, SilenceIsStream, ConcatProperties DEF FillStream
    <3>2. CASE len # SAMPLES
      BY <1>3, <2>1, <3>2, MirrorIsStream, ConcatProperties DEF FillStream
    <3> QED
      BY <3>1, <3>2
  <2> QED
    BY <1>3, <2>2
    DEF FillStream, IInv, TypeOK, FilledTrailsOut, LockedLoops, LocalsInBatch,
        ringVars, rateVars, batchVars, historyVars
<1> QED
  BY <1>1, <1>2, <1>3
-----------------------------------------------------------------------------
\* SND_batchSamples outside its resampler: lock and locals move together.
LEMMA BatchIInv ==
  IInv /\ ((\E n \in 1 .. MaxBatch : SND_batchSamples(n)) \/ BatchStep) => IInv'
<1> SUFFICES ASSUME IInv, (\E n \in 1 .. MaxBatch : SND_batchSamples(n)) \/ BatchStep
             PROVE  IInv'
  OBVIOUS
<1> USE DEF IInv, TypeOK, FilledTrailsOut, LockedLoops, LocalsInBatch,
            ringVars, rateVars, streamVars, historyVars
<1>1. CASE \E n \in 1 .. MaxBatch : SND_batchSamples(n)
  <2> PICK n \in 1 .. MaxBatch : SND_batchSamples(n)
    BY <1>1
  <2> QED
    BY DEF SND_batchSamples
<1>2. CASE BatchLoop
  BY <1>2 DEF BatchLoop
<1>3. CASE BatchDelay
  BY <1>3 DEF BatchDelay
<1>4. CASE BatchRelock
  BY <1>4 DEF BatchRelock
<1>5. CASE BatchProceed
  BY <1>5 DEF BatchProceed
<1>6. CASE BatchResample
  BY <1>6, ResampleIInv
<1>7. CASE BatchRound
  BY <1>7 DEF BatchRound
<1> QED
  BY <1>1, <1>2, <1>3, <1>4, <1>5, <1>6, <1>7 DEF BatchStep

LEMMA NextIInv == IInv /\ [Next]_vars => IInv'
<1> SUFFICES ASSUME IInv, [Next]_vars PROVE IInv'
  OBVIOUS
<1>1. CASE PauseAudio \/ ResumeAudio
  BY <1>1 DEF PauseAudio, ResumeAudio, IInv, TypeOK, FilledTrailsOut, LockedLoops,
     LocalsInBatch, ringVars, rateVars, batchVars, streamVars, historyVars
<1>2. CASE UNCHANGED vars
  BY <1>2 DEF IInv, TypeOK, FilledTrailsOut, LockedLoops, LocalsInBatch, vars,
     ringVars, rateVars, batchVars, streamVars, historyVars
<1> QED
  BY <1>1, <1>2, BatchIInv, CallbackIInv DEF Next

\* The invariant holds in every reachable state of the two threads.
THEOREM SndInvariant == SafeSpec => []IInv
  BY InitIInv, NextIInv, PTL DEF SafeSpec

\* Every index stays inside the buffer that SND_resizeBuffer allocated, and the
\* stream stays a stream of samples.
THEOREM SndTypeCorrect == SafeSpec => []TypeOK
<1>1. IInv => TypeOK
  BY DEF IInv
<1> QED
  BY <1>1, SndInvariant, PTL
-----------------------------------------------------------------------------
\* The resampling balance survives one call of either resampler.
LEMMA ResampleBalance ==
  ASSUME TypeOK, NoPitchDrift, ResampleNone \/ ResampleNear, UNCHANGED <<rate_in, rate_out>>
  PROVE  NoPitchDrift'
<1> DEFINE p == pushes * rate_in
           q == (frames - 1) * rate_out
<1>0. /\ pushes \in Nat /\ frames \in Nat \ {0} /\ diff \in Nat
      /\ rate_in \in Nat \ {0} /\ rate_out \in Nat \ {0}
  BY DEF TypeOK
<1>1. p = q + diff /\ p \in Nat /\ q \in Nat
  BY <1>0 DEF NoPitchDrift
<1>2. (pushes + 1) * rate_in = p + rate_in
  BY <1>0
<1>3. (frames + 1 - 1) * rate_out = q + rate_out
  BY <1>0
<1>4. CASE ResampleNone
  <2>1. pushes' = pushes + 1 /\ frames' = frames + 1 /\ diff' = diff /\ rate_in = rate_out
    BY <1>4 DEF ResampleNone, Store, Consume
  <2> HIDE DEF p, q
  <2>2. pushes' * rate_in' = (frames' - 1) * rate_out' + diff'
    BY <1>0, <1>1, <1>2, <1>3, <2>1
  <2> QED
    BY <2>1, <2>2 DEF NoPitchDrift
<1>5. CASE ResampleNear
  <2> DEFINE stored == diff < rate_out
             owed == IF stored THEN diff + rate_in ELSE diff
             c == IF owed >= rate_out THEN 1 ELSE 0
  <2>1. /\ pushes' = IF stored THEN pushes + 1 ELSE pushes
        /\ frames' = frames + c
        /\ diff' = owed - c * rate_out
    BY <1>5 DEF ResampleNear, Store, Consume
  <2>2. pushes' * rate_in = IF stored THEN p + rate_in ELSE p
    BY <1>2, <2>1
  <2>3. (frames' - 1) * rate_out = IF owed >= rate_out THEN q + rate_out ELSE q
    <3>1. CASE owed >= rate_out
      <4>1. frames' = frames + 1
        BY <2>1, <3>1
      <4>2. (frames' - 1) * rate_out = q + rate_out
        <5> HIDE DEF q
        <5> QED
          BY <1>0, <1>3, <4>1
      <4> HIDE DEF q, owed
      <4> QED
        BY <3>1, <4>2
    <3>2. CASE ~(owed >= rate_out)
      <4>1. frames' - 1 = frames - 1
        BY <1>0, <2>1, <3>2
      <4> QED
        BY <3>2, <4>1
    <3> QED
      BY <3>1, <3>2
  <2>4. diff' = IF owed >= rate_out THEN owed - rate_out ELSE owed
    BY <1>0, <2>1
  <2>5. diff' < rate_in \/ diff' < rate_out
    BY <1>0, <2>4 DEF NoPitchDrift
  <2> HIDE DEF p, q
  <2>6. pushes' * rate_in = (frames' - 1) * rate_out + diff'
    BY <1>0, <1>1, <2>2, <2>3, <2>4
  <2> QED
    BY <2>5, <2>6 DEF NoPitchDrift
<1> QED
  BY <1>4, <1>5

LEMMA NextBalance == IInv /\ NoPitchDrift /\ [Next]_vars => NoPitchDrift'
<1> SUFFICES ASSUME IInv, NoPitchDrift, [Next]_vars PROVE NoPitchDrift'
  OBVIOUS
<1>1. CASE BatchResample
  BY <1>1, ResampleBalance DEF BatchResample, IInv
<1>2. CASE ~BatchResample
  <2>1. UNCHANGED <<rateVars, frames, pushes>>
    BY <1>2 DEF Next, BatchStep, StartCallback, SND_batchSamples, BatchLoop, BatchDelay,
       BatchRelock, BatchProceed, BatchRound, SND_audioCallback, CopyFrame, FillStream,
       PauseAudio, ResumeAudio, vars, batchVars, historyVars
  <2> QED
    BY <2>1 DEF NoPitchDrift, rateVars
<1> QED
  BY <1>1, <1>2

\* However long the game runs, and whatever the two rates, what has been stored
\* for the device is exactly what the core has produced, to within one frame.
THEOREM ResamplerNeverDrifts == SafeSpec => []NoPitchDrift
<1>1. Init => NoPitchDrift
  <2> SUFFICES ASSUME Init PROVE NoPitchDrift
    OBVIOUS
  <2>1. rate_in \in Nat \ {0} /\ rate_out \in Nat /\ diff = 0 /\ pushes = 0 /\ frames = 1
    BY DEF Init
  <2>2. 0 * rate_in = 0 /\ (1 - 1) * rate_out = 0
    BY <2>1
  <2> QED
    BY <2>1, <2>2 DEF NoPitchDrift
<1>2. IInv /\ NoPitchDrift /\ [Next]_vars => NoPitchDrift'
  BY NextBalance
<1> QED
  BY <1>1, <1>2, SndInvariant, PTL DEF SafeSpec
-----------------------------------------------------------------------------
\* A stream keeps its sides: every sample is silence or of its position's channel.
Sided(s) ==
  \A i \in 1 .. Len(s) :
    s[i] = Silence \/ s[i][2] = (IF i % 2 = 1 THEN "L" ELSE "R")

\* The callback copies whole frames: while it runs its stream has both samples
\* of each.
WholeFrames == audio_lock = "callback" => Len(stream) % 2 = 0

LEMMA FrameIsSided ==
  ASSUME NEW s \in Seq(Sample), Sided(s), Len(s) % 2 = 0, NEW f \in Frame
  PROVE  /\ Sided(s \o << <<f, "L">>, <<f, "R">> >>)
         /\ Len(s \o << <<f, "L">>, <<f, "R">> >>) % 2 = 0
<1> DEFINE t == << <<f, "L">>, <<f, "R">> >>
<1>0. t \in Seq(Sample) /\ Len(t) = 2
  BY DEF Sample
<1>1. t[1] = <<f, "L">> /\ t[2] = <<f, "R">>
  OBVIOUS
<1> HIDE DEF t
<1>2. Len(s) \in Nat /\ Len(s \o t) = Len(s) + 2
  <2>1. Len(s) \in Nat
    BY LenProperties
  <2>2. Len(s \o t) = Len(s) + Len(t)
    BY <1>0, ConcatProperties
  <2> QED
    BY <1>0, <2>1, <2>2
<1>3. ASSUME NEW i \in 1 .. Len(s \o t)
      PROVE  (s \o t)[i] = Silence \/ (s \o t)[i][2] = (IF i % 2 = 1 THEN "L" ELSE "R")
  <2>1. (s \o t)[i] = IF i <= Len(s) THEN s[i] ELSE t[i - Len(s)]
    BY <1>0, <1>2, ConcatProperties
  <2>2. CASE i <= Len(s)
    BY <1>2, <2>1, <2>2 DEF Sided
  <2>3. CASE i = Len(s) + 1
    <3>1. i % 2 = 1 /\ (s \o t)[i] = <<f, "L">>
      <4>1. ~(i <= Len(s)) /\ i - Len(s) = 1 /\ i % 2 = 1
        BY <1>2, <2>3
      <4> QED
        BY <1>1, <2>1, <4>1
    <3> QED
      BY <3>1
  <2>4. CASE i = Len(s) + 2
    <3>1. i % 2 # 1 /\ (s \o t)[i] = <<f, "R">>
      <4>1. ~(i <= Len(s)) /\ i - Len(s) = 2 /\ i % 2 # 1
        BY <1>2, <2>4
      <4> QED
        BY <1>1, <2>1, <4>1
    <3> QED
      BY <3>1
  <2> QED
    BY <1>2, <2>2, <2>3, <2>4
<1>4. Len(s \o t) % 2 = 0
  BY <1>2
<1>5. Sided(s \o t)
  BY <1>3 DEF Sided
<1> QED
  BY <1>4, <1>5 DEF t

\* What completes a stream keeps the sides: a sample's mirror lies an even number
\* of samples before it.
LEMMA MirrorIsSided ==
  ASSUME NEW s \in Seq(Sample), Sided(s), NEW n \in Nat
  PROVE  Sided(s \o MirrorUnderrun(s, n))
<1> DEFINE t == MirrorUnderrun(s, n)
<1>1. t \in Seq(Sample) /\ Len(t) = n
  BY MirrorIsStream DEF MirrorUnderrun
<1>2. Len(s) \in Nat /\ Len(s \o t) = Len(s) + n
  BY <1>1, ConcatProperties, LenProperties
<1>3. ASSUME NEW i \in 1 .. Len(s \o t)
      PROVE  (s \o t)[i] = Silence \/ (s \o t)[i][2] = (IF i % 2 = 1 THEN "L" ELSE "R")
  <2>1. (s \o t)[i] = IF i <= Len(s) THEN s[i] ELSE t[i - Len(s)]
    BY <1>1, <1>2, ConcatProperties
  <2>2. CASE i <= Len(s)
    BY <1>2, <2>1, <2>2 DEF Sided
  <2>3. CASE i > Len(s)
    <3> DEFINE j == i - Len(s)
               m == Len(s) - j
    <3>1. j \in 1 .. n
      BY <1>2, <2>3
    <3>2. t[j] = IF m >= 1 THEN s[m] ELSE Silence
      BY <3>1 DEF MirrorUnderrun
    <3>3. CASE m >= 1
      <4>1. m \in 1 .. Len(s) /\ m % 2 = i % 2
        BY <1>2, <2>3, <3>1, <3>3
      <4> QED
        BY <2>1, <2>3, <3>2, <3>3, <4>1 DEF Sided
    <3> QED
      BY <1>2, <2>1, <2>3, <3>2, <3>3
  <2> QED
    BY <1>2, <2>2, <2>3
<1> QED
  BY <1>3 DEF Sided

LEMMA SilenceIsSided ==
  ASSUME NEW s \in Seq(Sample), Sided(s), NEW n \in Nat
  PROVE  Sided(s \o [j \in 1 .. n |-> Silence])
<1> DEFINE t == [j \in 1 .. n |-> Silence]
<1>1. t \in Seq(Sample) /\ Len(t) = n
  BY SilenceIsStream
<1>2. Len(s) \in Nat /\ Len(s \o t) = Len(s) + n
  BY <1>1, ConcatProperties, LenProperties
<1>3. ASSUME NEW i \in 1 .. Len(s \o t)
      PROVE  (s \o t)[i] = Silence \/ (s \o t)[i][2] = (IF i % 2 = 1 THEN "L" ELSE "R")
  <2>1. (s \o t)[i] = IF i <= Len(s) THEN s[i] ELSE t[i - Len(s)]
    BY <1>1, <1>2, ConcatProperties
  <2>2. CASE i <= Len(s)
    BY <1>2, <2>1, <2>2 DEF Sided
  <2>3. CASE i > Len(s)
    BY <1>2, <2>1, <2>3
  <2> QED
    BY <1>2, <2>2, <2>3
<1> QED
  BY <1>3 DEF Sided

LEMMA NextSided ==
  IInv /\ Sided(stream) /\ WholeFrames /\ [Next]_vars => (Sided(stream) /\ WholeFrames)'
<1> SUFFICES ASSUME IInv, Sided(stream), WholeFrames, [Next]_vars
             PROVE  Sided(stream') /\ WholeFrames'
  OBVIOUS
<1>0. stream \in Seq(Sample) /\ len \in Nat /\ Len(stream) \in Nat
  BY LenProperties DEF IInv, TypeOK
<1>1. CASE StartCallback
  <2>1. stream' = <<>> /\ Len(<<>>) = 0
    BY <1>1 DEF StartCallback, SND_audioCallback
  <2> QED
    BY <2>1 DEF Sided, WholeFrames
<1>2. CASE CopyFrame
  <2>1. buffer[frame_out] \in Frame
    BY DEF IInv, TypeOK
  <2>2. Len(stream) % 2 = 0 /\ stream' = stream \o << <<buffer[frame_out], "L">>, <<buffer[frame_out], "R">> >>
    BY <1>2 DEF CopyFrame, WholeFrames
  <2> QED
    BY <1>0, <2>1, <2>2, FrameIsSided DEF WholeFrames
<1>3. CASE FillStream
  <2>1. audio_lock' = "none" /\ 2 * len \in Nat
    BY <1>0, <1>3 DEF FillStream
  <2>2. CASE len = SAMPLES
    <3>1. Sided(stream')
      BY <1>0, <1>3, <2>1, <2>2, SilenceIsSided DEF FillStream
    <3> QED
      BY <2>1, <3>1 DEF WholeFrames
  <2>3. CASE len # SAMPLES
    <3>1. Sided(stream')
      BY <1>0, <1>3, <2>1, <2>3, MirrorIsSided DEF FillStream
    <3> QED
      BY <2>1, <3>1 DEF WholeFrames
  <2> QED
    BY <2>2, <2>3
<1>4. CASE ~(StartCallback \/ CopyFrame \/ FillStream)
  <2>1. stream' = stream /\ (audio_lock' = "callback" => audio_lock = "callback")
    BY <1>4 DEF Next, BatchStep, SND_batchSamples, BatchLoop, BatchDelay, BatchRelock,
       BatchProceed, BatchResample, BatchRound, PauseAudio, ResumeAudio, vars, streamVars
  <2> QED
    BY <2>1 DEF WholeFrames
<1> QED
  BY <1>1, <1>2, <1>3, <1>4

\* However long the request is and wherever the ring runs dry, no sample of a
\* callback's stream changes sides.
THEOREM DryStreamKeepsChannels == SafeSpec => []FillKeepsChannel
<1>1. Init => Sided(stream) /\ WholeFrames
  BY DEF Init, Sided, WholeFrames
<1>2. Sided(stream) => FillKeepsChannel
  BY DEF Sided, FillKeepsChannel
<1> QED
  BY <1>1, <1>2, NextSided, SndInvariant, PTL DEF SafeSpec
-----------------------------------------------------------------------------
\* The slots between frame_out and frame_in, read in order, are a sequence of
\* frames; it never reaches the size of the ring.
WaitingFacts ==
  /\ Used \in 0 .. FrameCount - 1
  /\ \A i \in 1 .. FrameCount : Slot(i) \in Slots
  /\ Waiting \in Seq(Frame)
  /\ Len(Waiting) = Used
  /\ \A i \in 1 .. Used : Waiting[i] = buffer[Slot(i)]

LEMMA WaitingIsSequence == TypeOK => WaitingFacts
<1> SUFFICES ASSUME TypeOK PROVE WaitingFacts
  OBVIOUS
<1>1. Used \in 0 .. FrameCount - 1
  BY DEF TypeOK, Used, Slots
<1>2. \A i \in 1 .. FrameCount : Slot(i) \in Slots
  BY DEF TypeOK, Slot, Slots
<1>3. \A i \in 1 .. Used : Slot(i) \in Slots
  BY <1>1, <1>2
<1>4. Waiting \in [1 .. Used -> Frame]
  BY <1>3 DEF TypeOK, Waiting
<1>5. Waiting \in Seq(Frame)
  BY <1>1, <1>4, SeqDef
<1>6. Len(Waiting) = Used
  BY <1>1, <1>4, <1>5, LenProperties
<1>7. \A i \in 1 .. Used : Waiting[i] = buffer[Slot(i)]
  BY DEF Waiting
<1> QED
  BY <1>1, <1>2, <1>5, <1>6, <1>7 DEF WaitingFacts

\* Storing a frame while frame_in # frame_filled appends it and touches no
\* frame that is still waiting.
LEMMA StoreIsPush ==
  ASSUME IInv, IInv', Store, left > 0, ~RingFull, UNCHANGED <<frame_out, played>>
  PROVE  Fifo!Push(frames)
<1> DEFINE n == Used
<1>0. TypeOK /\ TypeOK' /\ WaitingFacts /\ WaitingFacts'
  <2>1. TypeOK' => WaitingFacts'
    BY WaitingIsSequence, PTL
  <2> QED
    BY <2>1, WaitingIsSequence DEF IInv
<1>a. /\ frame_in \in 0 .. FrameCount - 1 /\ frame_out \in 0 .. FrameCount - 1
      /\ FrameCount \in Nat \ {0, 1}
      /\ frame_in # IF frame_out = 0 THEN FrameCount - 1 ELSE frame_out - 1
      /\ frame_in' = IF frame_in + 1 >= FrameCount THEN 0 ELSE frame_in + 1
      /\ frame_out' = frame_out
  BY DEF IInv, TypeOK, FilledTrailsOut, RingFull, Store, Wrap, Slots
<1>1. frames \in 1 .. MaxFrames /\ frames \in Frame /\ frames >= newest
  BY DEF IInv, TypeOK, LocalsInBatch, Frame
<1>2. n \in 0 .. FrameCount - 2 /\ Used' = n + 1
  BY <1>a DEF Used
<1>3. Slot(n + 1) = frame_in
  BY <1>a DEF Used, Slot
<1>4. \A i \in 1 .. n : Slot(i) # frame_in
  BY <1>a DEF Used, Slot
<1>5. \A i \in 1 .. n + 1 : Slot(i)' = Slot(i)
  BY <1>a DEF Slot
<1>6. /\ Waiting \in Seq(Frame) /\ Len(Waiting) = n
      /\ \A i \in 1 .. n : Waiting[i] = buffer[Slot(i)]
      /\ \A i \in 1 .. FrameCount : Slot(i) \in Slots
  BY <1>0 DEF WaitingFacts
<1>7. /\ Waiting' \in Seq(Frame) /\ Len(Waiting') = n + 1
      /\ \A i \in 1 .. n + 1 : Waiting'[i] = buffer'[Slot(i)']
  BY <1>0, <1>2 DEF WaitingFacts
<1>8. /\ Append(Waiting, frames) \in Seq(Frame)
      /\ Len(Append(Waiting, frames)) = n + 1
      /\ \A i \in 1 .. n : Append(Waiting, frames)[i] = Waiting[i]
      /\ Append(Waiting, frames)[n + 1] = frames
  BY <1>1, <1>6, AppendProperties
<1>9. \A i \in 1 .. n + 1 : Waiting'[i] = Append(Waiting, frames)[i]
  <2> SUFFICES ASSUME NEW i \in 1 .. n + 1 PROVE Waiting'[i] = Append(Waiting, frames)[i]
    OBVIOUS
  <2>1. Slot(i) \in Slots /\ Waiting'[i] = buffer'[Slot(i)]
    BY <1>2, <1>5, <1>6, <1>7
  <2>2. buffer \in [Slots -> Frame] /\ buffer' = [buffer EXCEPT ![frame_in] = frames]
    BY <1>0 DEF TypeOK, Store
  <2>3. CASE i = n + 1
    BY <1>3, <1>8, <2>1, <2>2, <2>3
  <2>4. CASE i # n + 1
    <3>1. i \in 1 .. n
      BY <1>2, <2>4
    <3> QED
      BY <1>4, <1>6, <1>8, <2>1, <2>2, <3>1
  <2> QED
    BY <2>3, <2>4
<1>10. Waiting' = Append(Waiting, frames)
  <2> HIDE DEF n
  <2> QED
    BY <1>7, <1>8, <1>9, SeqEqual
<1>11. Len(Waiting) < FrameCount - 1
  BY <1>2, <1>6
<1> QED
  BY <1>1, <1>10, <1>11 DEF Fifo!Push, Store

\* Copying a frame to the stream removes the oldest one and nothing else.
LEMMA CopyIsPop ==
  ASSUME IInv, IInv', CopyFrame
  PROVE  Fifo!Pop
<1> DEFINE n == Used
<1>0. TypeOK /\ TypeOK' /\ WaitingFacts /\ WaitingFacts'
  <2>1. TypeOK' => WaitingFacts'
    BY WaitingIsSequence, PTL
  <2> QED
    BY <2>1, WaitingIsSequence DEF IInv
<1>a. /\ frame_in \in 0 .. FrameCount - 1 /\ frame_out \in 0 .. FrameCount - 1
      /\ FrameCount \in Nat \ {0, 1}
      /\ frame_in # frame_out
      /\ frame_out' = IF frame_out + 1 >= FrameCount THEN 0 ELSE frame_out + 1
      /\ frame_in' = frame_in
  BY DEF IInv, TypeOK, CopyFrame, Wrap, Slots
<1>1. n \in 1 .. FrameCount - 1 /\ Used' = n - 1
  BY <1>a DEF Used
<1>2. Slot(1) = frame_out /\ \A i \in 1 .. n - 1 : Slot(i)' = Slot(i + 1)
  BY <1>a DEF Used, Slot
<1>3. /\ Waiting \in Seq(Frame) /\ Len(Waiting) = n
      /\ \A i \in 1 .. n : Waiting[i] = buffer[Slot(i)]
  BY <1>0 DEF WaitingFacts
<1>4. /\ Waiting' \in Seq(Frame) /\ Len(Waiting') = n - 1
      /\ \A i \in 1 .. n - 1 : Waiting'[i] = buffer'[Slot(i)']
  BY <1>0, <1>1 DEF WaitingFacts
<1>5. Waiting # <<>>
  BY <1>1, <1>3, EmptySeq
<1>6. /\ Tail(Waiting) \in Seq(Frame) /\ Len(Tail(Waiting)) = n - 1
      /\ \A i \in 1 .. n - 1 : Tail(Waiting)[i] = Waiting[i + 1]
  BY <1>3, <1>5, HeadTailProperties
<1>7. Head(Waiting) = buffer[frame_out]
  BY <1>1, <1>2, <1>3, <1>5
<1>8. \A i \in 1 .. n - 1 : Waiting'[i] = Tail(Waiting)[i]
  <2> SUFFICES ASSUME NEW i \in 1 .. n - 1 PROVE Waiting'[i] = Tail(Waiting)[i]
    OBVIOUS
  <2>1. i + 1 \in 1 .. n
    BY <1>1
  <2>2. Waiting'[i] = buffer[Slot(i + 1)]
    BY <1>2, <1>4 DEF CopyFrame
  <2> QED
    BY <1>3, <1>6, <2>1, <2>2
<1>9. Waiting' = Tail(Waiting)
  <2> HIDE DEF n
  <2> QED
    BY <1>4, <1>6, <1>8, SeqEqual
<1> QED
  BY <1>5, <1>7, <1>9 DEF Fifo!Pop, CopyFrame

\* Every step of the two threads is a Push, a Pop, or invisible.
LEMMA StepRefinesFifo == IInv /\ IInv' /\ [Next]_vars => [Fifo!Next]_(Fifo!fifoVars)
<1> SUFFICES ASSUME IInv, IInv', [Next]_vars PROVE [Fifo!Next]_(Fifo!fifoVars)
  OBVIOUS
<1>1. CASE CopyFrame
  BY <1>1, CopyIsPop DEF Fifo!Next
<1>2. CASE BatchResample /\ Store
  <2>1. frames \in 1 .. MaxFrames /\ left > 0
    BY <1>2 DEF IInv, TypeOK, LocalsInBatch, BatchResample
  <2>2. Fifo!Push(frames)
    BY <1>2, <2>1, StoreIsPush DEF BatchResample
  <2> QED
    BY <2>1, <2>2 DEF Fifo!Next
<1>3. CASE ~CopyFrame /\ ~(BatchResample /\ Store)
  <2>1. UNCHANGED <<buffer, frame_in, frame_out, newest, played>>
    BY <1>3 DEF Next, BatchStep, StartCallback, SND_batchSamples, BatchLoop, BatchDelay,
       BatchRelock, BatchProceed, BatchRound, BatchResample, ResampleNone, ResampleNear,
       SND_audioCallback, FillStream, PauseAudio, ResumeAudio, vars, ringVars, historyVars
  <2>2. Waiting' = Waiting
    BY <2>1 DEF Waiting, Used, Slot
  <2> QED
    BY <2>1, <2>2 DEF Fifo!fifoVars
<1> QED
  BY <1>1, <1>2, <1>3

\* The ring implements the bounded FIFO, whatever the sizes and the rates: a
\* stored frame is neither overwritten nor played out of turn.
THEOREM RingImplementsFifo == SafeSpec => ImplementsFifo
<1>1. Init => Fifo!Init
  <2> SUFFICES ASSUME Init PROVE Fifo!Init
    OBVIOUS
  <2>1. TypeOK /\ Used = 0
    BY InitIInv DEF IInv, Init, Used
  <2>2. Waiting = <<>>
    BY <2>1, WaitingIsSequence, EmptySeq DEF WaitingFacts
  <2> QED
    BY <2>2 DEF Init, Fifo!Init
<1> QED
  BY <1>1, StepRefinesFifo, SndInvariant, PTL DEF SafeSpec, ImplementsFifo, Fifo!Spec
----------------------------------------------------------------------------
(* minarch's main loop and the core's thread *)

\* thread_video says whether the core has a thread, except while main joins it:
\* then it is cancelled and polls no more.
ThreadMatchesFlag ==
  /\ ~thread_video /\ main # "join" => core = "none"
  /\ main = "join" => cancel /\ ~thread_video
  /\ main = "run" => ~thread_video

\* Where MENU can have been pressed, the core's thread has been told to stop.
MenuStopsCore ==
  /\ main = "menu" => show_menu
  /\ show_menu /\ core # "none" => ~should_run_core
  /\ main = "toggle" /\ ~thread_video => ~show_menu

CoreInv == CoreTypeOK /\ ThreadMatchesFlag /\ MenuStopsCore

LEMMA InitCore == CoreInit => CoreInv
  BY DEF CoreInit, CoreInv, CoreTypeOK, ThreadMatchesFlag, MenuStopsCore

LEMMA TypeStep == ASSUME CoreInv, [CoreNext]_coreVars PROVE CoreTypeOK'
<1> USE DEF CoreInv, CoreTypeOK, ThreadMatchesFlag, coreVars, threadVars, flagVars
<1>1. CASE MainTop
  BY <1>1 DEF MainTop
<1>2. CASE MainRun
  BY <1>2 DEF MainRun, PollInput, Poll, Powers
<1>3. CASE MainWait
  BY <1>3 DEF MainWait
<1>4. CASE MainFlip
  BY <1>4 DEF MainFlip
<1>5. CASE MainUnlock
  BY <1>5 DEF MainUnlock
<1>6. CASE MainMenu
  BY <1>6 DEF MainMenu
<1>7. CASE MainToggle
  BY <1>7 DEF MainToggle, ThreadOn, Reverts
<1>8. CASE MainNoToggle
  BY <1>8 DEF MainNoToggle
<1>9. CASE MainJoin
  BY <1>9 DEF MainJoin
<1>10. CASE MainHdmi
  <2>1. show_menu' \in BOOLEAN /\ quit' \in BOOLEAN
    BY <1>10 DEF MainHdmi
  <2> QED
    BY <1>10, <2>1 DEF MainHdmi
<1>11. CASE MainFinish
  BY <1>11 DEF MainFinish
<1>12. CASE CoreCheck
  BY <1>12 DEF CoreCheck, CoreMxFree
<1>13. CASE CorePoll
  <2>1. PICK power \in Powers, ff \in BOOLEAN, menu \in BOOLEAN, save_quit \in BOOLEAN :
          Poll(power, ff, menu, save_quit)
    BY <1>13 DEF CorePoll, PollInput
  <2>2. /\ power_down' \in BOOLEAN /\ was_threaded' \in BOOLEAN /\ toggle_thread' \in BOOLEAN
        /\ fast_forward' \in BOOLEAN /\ quit' \in BOOLEAN /\ show_menu' \in BOOLEAN
        /\ should_run_core' \in BOOLEAN
    BY <2>1 DEF Poll
  <2>3. UNCHANGED <<option, thread_video>>
    BY <2>1 DEF Poll
  <2> QED
    BY <1>13, <2>2, <2>3 DEF CorePoll
<1>14. CASE CoreVideo
  BY <1>14 DEF CoreVideo, CoreMxFree
<1>15. CASE CoreDupe
  BY <1>15 DEF CoreDupe
<1>16. CASE CoreAudio
  BY <1>16 DEF CoreAudio
<1>17. CASE CoreCancelled
  BY <1>17 DEF CoreCancelled
<1>18. CASE MenuOption
  BY <1>18 DEF MenuOption
<1>19. CASE MenuContinue
  BY <1>19 DEF MenuContinue
<1>20. CASE MenuQuit
  BY <1>20 DEF MenuQuit
<1>21. CASE SpuriousWakeup
  BY <1>21 DEF SpuriousWakeup
<1>22. CASE UNCHANGED coreVars
  BY <1>22
<1> QED
  BY <1>1, <1>2, <1>3, <1>4, <1>5, <1>6, <1>7, <1>8, <1>9, <1>10, <1>11,
     <1>12, <1>13, <1>14, <1>15, <1>16, <1>17, <1>18, <1>19, <1>20, <1>21, <1>22
     DEF CoreNext, MainStep, CoreStep

LEMMA ThreadStep == ASSUME CoreInv, [CoreNext]_coreVars
                    PROVE  ThreadMatchesFlag' /\ MenuStopsCore'
<1> USE DEF CoreInv, CoreTypeOK, ThreadMatchesFlag, MenuStopsCore, coreVars, threadVars, flagVars
<1>1. CASE MainTop
  BY <1>1 DEF MainTop
<1>2. CASE MainRun
  BY <1>2 DEF MainRun, PollInput, Poll, Powers
<1>3. CASE MainWait
  BY <1>3 DEF MainWait
<1>4. CASE MainFlip
  BY <1>4 DEF MainFlip
<1>5. CASE MainUnlock
  BY <1>5 DEF MainUnlock
<1>6. CASE MainMenu
  BY <1>6 DEF MainMenu
<1>7. CASE MainToggle
  BY <1>7 DEF MainToggle, ThreadOn, Reverts
<1>8. CASE MainNoToggle
  BY <1>8 DEF MainNoToggle
<1>9. CASE MainJoin
  BY <1>9 DEF MainJoin
<1>10. CASE MainHdmi
  BY <1>10 DEF MainHdmi
<1>11. CASE MainFinish
  BY <1>11 DEF MainFinish
<1>12. CASE CoreCheck
  BY <1>12 DEF CoreCheck, CoreMxFree
<1>13. CASE CorePoll
  BY <1>13 DEF CorePoll, CoreMxFree, PollInput, Poll, Powers
<1>14. CASE CoreVideo
  BY <1>14 DEF CoreVideo, CoreMxFree
<1>15. CASE CoreDupe
  BY <1>15 DEF CoreDupe
<1>16. CASE CoreAudio
  BY <1>16 DEF CoreAudio
<1>17. CASE CoreCancelled
  BY <1>17 DEF CoreCancelled
<1>18. CASE MenuOption
  BY <1>18 DEF MenuOption
<1>19. CASE MenuContinue
  BY <1>19 DEF MenuContinue
<1>20. CASE MenuQuit
  BY <1>20 DEF MenuQuit
<1>21. CASE SpuriousWakeup
  BY <1>21 DEF SpuriousWakeup
<1>22. CASE UNCHANGED coreVars
  BY <1>22
<1> QED
  BY <1>1, <1>2, <1>3, <1>4, <1>5, <1>6, <1>7, <1>8, <1>9, <1>10, <1>11,
     <1>12, <1>13, <1>14, <1>15, <1>16, <1>17, <1>18, <1>19, <1>20, <1>21, <1>22
     DEF CoreNext, MainStep, CoreStep

\* What the thread's states say of the flags holds in every state of a running game.
THEOREM CoreInvariant == CoreSpec => []CoreInv
<1>1. CoreInv /\ [CoreNext]_coreVars => CoreInv'
  BY TypeStep, ThreadStep DEF CoreInv
<1> QED
  BY <1>1, InitCore, PTL DEF CoreSpec

\* Every flag and every place keeps to its values, and the core's thread is
\* cancelled only while main waits for it to end (the switch in main).
THEOREM CoreTypeCorrect == CoreSpec => []CoreTypeOK
  BY CoreInvariant, PTL DEF CoreInv

\* Main never enters core.run while the core's thread may be in it, however fast
\* forward, POWER, the option and the menu are mixed (the switch in main).
THEOREM MainRunsTheCoreAlone == CoreSpec => []CoreRunsOnce
<1>1. CoreInv => CoreRunsOnce
  BY DEF CoreInv, ThreadMatchesFlag, CoreRunsOnce
<1> QED
  BY <1>1, CoreInvariant, PTL

\* The core's thread begins no frame while main shows the menu
\* (input_poll_callback, coreThread, Menu_loop).
THEOREM NoFrameBeginsBehindMenu == CoreSpec => NoFrameBehindMenu
<1>1. CoreInv /\ [CoreNext]_coreVars
        => [core = "check" /\ core' = "poll" => main # "menu"]_coreVars
  <2> SUFFICES ASSUME CoreInv, [CoreNext]_coreVars, core = "check", core' = "poll"
               PROVE  main # "menu"
    OBVIOUS
  <2>1. CoreCheck
    BY DEF CoreNext, MainStep, CoreStep, coreVars, MainTop, MainRun,
           MainWait, MainFlip, MainUnlock, MainMenu, MainToggle,
           MainNoToggle, MainJoin, MainHdmi, MainFinish, CorePoll,
           CoreVideo, CoreDupe, CoreAudio, CoreCancelled, MenuOption,
           MenuContinue, MenuQuit, SpuriousWakeup
  <2> QED
    BY <2>1 DEF CoreCheck, CoreInv, MenuStopsCore
<1> QED
  BY <1>1, CoreInvariant, PTL DEF CoreSpec, NoFrameBehindMenu
=============================================================================
