------------------------------ MODULE SndRing ------------------------------
(***************************************************************************)
(* The audio ring of common/api.c (struct snd).  Two threads share it: the *)
(* one that runs the core calls SND_batchSamples, SDL's audio thread       *)
(* calls SND_audioCallback.  SDL holds its audio lock during the callback; *)
(* SND_batchSamples takes the same lock and gives it up only to sleep a    *)
(* millisecond while the ring is full.                                     *)
(*                                                                         *)
(* A frame is its position in the core's output stream (1, 2, ...); 0 is   *)
(* the silence the buffer is cleared with.  The step granularity is one    *)
(* iteration of the code's loops, under whichever lock the loop holds.     *)
(***************************************************************************)
EXTENDS Integers, Sequences

CONSTANTS
  FrameCount,      \* snd.frame_count, the size of the ring
  Rates,           \* sample rates of the core and of the device
  BATCH_SIZE,      \* frames between two looks at the ring
  MaxTries,        \* sleeps before SND_batchSamples looks at its loop again
  SAMPLES,         \* frames the device was asked for
  CallbackFrames,  \* frames a callback may be asked for
  MaxBatch,        \* bound: frames of one call of SND_batchSamples
  MaxFrames        \* bound: frames the core produces

ASSUME SndAssumption ==
  /\ FrameCount \in Nat \ {0, 1}
  /\ Rates \subseteq Nat \ {0}
  /\ BATCH_SIZE \in Nat \ {0}
  /\ MaxTries \in Nat \ {0}
  /\ SAMPLES \in Nat \ {0}
  /\ CallbackFrames \subseteq Nat \ {0}
  /\ MaxBatch \in Nat \ {0}
  /\ MaxFrames \in Nat

VARIABLES
  buffer, frame_in, frame_out, frame_filled,  \* snd.*
  rate_in, rate_out,      \* snd.sample_rate_in, snd.sample_rate_out
  diff,                   \* the static of SND_resampleNear
  paused,                 \* SDL_PauseAudio
  audio_lock,             \* who holds SDL's audio lock
  batch,                  \* where SND_batchSamples is
  frames, left, amount, tries,  \* its locals: *frames, frame_count, ...
  len, stream,            \* the callback's len and what it has written
  pushes, newest, played  \* history: frames stored, the last one, the last copied out

ringVars == <<buffer, frame_in, frame_out, frame_filled>>
rateVars == <<rate_in, rate_out, diff>>
batchVars == <<batch, frames, left, amount, tries>>
streamVars == <<len, stream>>
historyVars == <<pushes, newest, played>>
vars == <<ringVars, rateVars, paused, audio_lock, batchVars, streamVars, historyVars>>

Slots == 0 .. FrameCount - 1
Frame == 0 .. MaxFrames
\* A 16-bit sample: the frame it comes from and its channel.
Sample == Frame \X {"L", "R"}
Silence == <<0, "L">>

\* Faulty variant: wraps one slot late, past the end of the buffer.
WrapLate(i) == IF i + 1 > FrameCount THEN 0 ELSE i + 1
\* The successor of an index of the ring.
Wrap(i) == IF i + 1 >= FrameCount THEN 0 ELSE i + 1

\* SND_init and SND_resizeBuffer: an empty ring that may fill up to frame_count-1.
Init ==
  /\ buffer = [s \in Slots |-> 0]
  /\ frame_in = 0 /\ frame_out = 0 /\ frame_filled = FrameCount - 1
  /\ rate_in \in Rates /\ rate_out \in Rates /\ diff = 0
  /\ paused = FALSE /\ audio_lock = "none"
  /\ batch = "idle" /\ frames = 1 /\ left = 0 /\ amount = 0 /\ tries = 0
  /\ len = 0 /\ stream = <<>>
  /\ pushes = 0 /\ newest = 0 /\ played = 0
----------------------------------------------------------------------------
(* SND_batchSamples *)

\* The core hands over n frames; SDL_LockAudio.
SND_batchSamples(n) ==
  /\ batch = "idle" /\ audio_lock = "none"
  /\ frames + n - 1 <= MaxFrames
  /\ audio_lock' = "batch" /\ batch' = "loop" /\ left' = n
  /\ UNCHANGED <<ringVars, rateVars, paused, frames, amount, tries, streamVars, historyVars>>

\* while (frame_count > 0): start another round of at most BATCH_SIZE, or return.
BatchLoop ==
  /\ batch = "loop"
  /\ \/ /\ left > 0
        /\ tries' = 0
        /\ amount' = IF left < BATCH_SIZE THEN left ELSE BATCH_SIZE
        /\ batch' = "wait"
        /\ UNCHANGED audio_lock
     \/ /\ left = 0
        /\ batch' = "idle" /\ audio_lock' = "none"
        /\ UNCHANGED <<tries, amount>>
  /\ UNCHANGED <<ringVars, rateVars, paused, frames, left, streamVars, historyVars>>

RingFull == frame_in = frame_filled

\* The ring is full: SDL_UnlockAudio and SDL_Delay(1).
BatchDelay ==
  /\ batch = "wait" /\ tries < MaxTries /\ RingFull
  /\ tries' = tries + 1
  /\ batch' = "delay" /\ audio_lock' = "none"
  /\ UNCHANGED <<ringVars, rateVars, paused, frames, left, amount, streamVars, historyVars>>

\* SDL_LockAudio after the delay.
BatchRelock ==
  /\ batch = "delay" /\ audio_lock = "none"
  /\ batch' = "wait" /\ audio_lock' = "batch"
  /\ UNCHANGED <<ringVars, rateVars, paused, frames, left, amount, tries, streamVars, historyVars>>

\* The waiting loop ends: there is room, or the tries are used up.
BatchProceed ==
  /\ batch = "wait" /\ ~(tries < MaxTries /\ RingFull)
  /\ batch' = "fill"
  /\ UNCHANGED <<ringVars, rateVars, paused, audio_lock, frames, left, amount, tries,
                 streamVars, historyVars>>

\* Store the current frame at frame_in.
Store ==
  /\ buffer' = [buffer EXCEPT ![frame_in] = frames]
  /\ frame_in' = Wrap(frame_in)
  /\ pushes' = pushes + 1
  /\ newest' = frames

\* Move the caller's frame pointer past c frames (c is 0 or 1).
Consume(c) ==
  /\ frames' = frames + c
  /\ amount' = amount - c
  /\ left' = left - c

\* SND_resampleNone: store, and always consume.
ResampleNone ==
  /\ rate_in = rate_out
  /\ Store
  /\ Consume(1)
  /\ UNCHANGED diff

\* Faulty variant: forgets to take sample_rate_out off again.
ResampleNearNoSub ==
  LET stored == diff < rate_out
      owed == IF stored THEN diff + rate_in ELSE diff
      c == IF owed >= rate_out THEN 1 ELSE 0
  IN /\ rate_in # rate_out
     /\ IF stored THEN Store ELSE UNCHANGED <<buffer, frame_in, pushes, newest>>
     /\ Consume(c)
     /\ diff' = IF c = 1 THEN 0 ELSE owed

\* SND_resampleNear: store while the device is owed a frame, consume when the
\* core's frame is used up.
ResampleNear ==
  LET stored == diff < rate_out
      owed == IF stored THEN diff + rate_in ELSE diff
      c == IF owed >= rate_out THEN 1 ELSE 0
  IN /\ rate_in # rate_out
     /\ IF stored THEN Store ELSE UNCHANGED <<buffer, frame_in, pushes, newest>>
     /\ Consume(c)
     /\ diff' = owed - c * rate_out

\* while (amount && frame_in != frame_filled): one call of the resampler that
\* SND_selectResampler chose.
BatchResample ==
  /\ batch = "fill" /\ amount > 0 /\ ~RingFull
  /\ ResampleNone \/ ResampleNear
  /\ UNCHANGED <<frame_out, frame_filled, rate_in, rate_out, paused, audio_lock,
                 batch, tries, streamVars, played>>

\* Faulty variant: goes on filling with the lock held, without another wait.
BatchRoundKeepsLock ==
  /\ batch = "fill" /\ ~(amount > 0 /\ ~RingFull)
  /\ batch' = "fill"
  /\ UNCHANGED <<ringVars, rateVars, paused, audio_lock, frames, left, amount, tries,
                 streamVars, historyVars>>
\* The round is over: its frames are stored, or the ring is full again.
BatchRound ==
  /\ batch = "fill" /\ ~(amount > 0 /\ ~RingFull)
  /\ batch' = "loop"
  /\ UNCHANGED <<ringVars, rateVars, paused, audio_lock, frames, left, amount, tries,
                 streamVars, historyVars>>
----------------------------------------------------------------------------
(* SND_audioCallback *)

\* SDL's thread takes the lock and asks for n frames.
SND_audioCallback(n) ==
  /\ ~paused /\ audio_lock = "none"
  /\ audio_lock' = "callback" /\ len' = n /\ stream' = <<>>
  /\ UNCHANGED <<ringVars, rateVars, paused, batchVars, historyVars>>

\* Faulty variant: frees the slot it is about to read, not the one it has read.
CopyFrameEarly ==
  /\ audio_lock = "callback" /\ frame_out # frame_in /\ len > 0
  /\ stream' = stream \o << <<buffer[frame_out], "L">>, <<buffer[frame_out], "R">> >>
  /\ played' = buffer[frame_out]
  /\ frame_filled' = Wrap(frame_out)
  /\ frame_out' = Wrap(frame_out)
  /\ len' = len - 1
  /\ UNCHANGED <<buffer, frame_in, rateVars, paused, audio_lock, batchVars, pushes, newest>>

\* while (frame_out != frame_in && len > 0): copy one frame to the stream.
CopyFrame ==
  /\ audio_lock = "callback" /\ frame_out # frame_in /\ len > 0
  /\ stream' = stream \o << <<buffer[frame_out], "L">>, <<buffer[frame_out], "R">> >>
  /\ played' = buffer[frame_out]
  /\ frame_filled' = frame_out
  /\ frame_out' = Wrap(frame_out)
  /\ len' = len - 1
  /\ UNCHANGED <<buffer, frame_in, rateVars, paused, audio_lock, batchVars, pushes, newest>>

\* Faulty variant: reads before it steps back, so the channels swap sides.
MirrorUnderrunPost(written, n) ==
  [j \in 1 .. n |-> LET i == Len(written) + 1 - j IN IF i >= 1 THEN written[i] ELSE Silence]
\* n samples to complete a stream that ran dry: `in` starts on the last sample
\* and steps back before each read, and gives zeros once it is at the start.
MirrorUnderrun(written, n) ==
  [j \in 1 .. n |-> LET i == Len(written) - j IN IF i >= 1 THEN written[i] ELSE Silence]

\* The ring ran dry, or the request is served: complete the stream and return.
FillStream ==
  /\ audio_lock = "callback" /\ ~(frame_out # frame_in /\ len > 0)
  /\ stream' = stream \o (IF len = SAMPLES THEN [j \in 1 .. 2 * len |-> Silence]
                          ELSE MirrorUnderrun(stream, 2 * len))
  /\ len' = 0 /\ audio_lock' = "none"
  /\ UNCHANGED <<ringVars, rateVars, paused, batchVars, historyVars>>
----------------------------------------------------------------------------
\* SDL_PauseAudio(1) in PWR_enterSleep: no new callback starts.
PauseAudio ==
  /\ ~paused
  /\ paused' = TRUE
  /\ UNCHANGED <<ringVars, rateVars, audio_lock, batchVars, streamVars, historyVars>>

\* SDL_PauseAudio(0) in PWR_exitSleep.
ResumeAudio ==
  /\ paused
  /\ paused' = FALSE
  /\ UNCHANGED <<ringVars, rateVars, audio_lock, batchVars, streamVars, historyVars>>

BatchStep ==
  BatchLoop \/ BatchDelay \/ BatchRelock \/ BatchProceed \/ BatchResample \/ BatchRound

StartCallback == \E n \in CallbackFrames : SND_audioCallback(n)

Next ==
  \/ \E n \in 1 .. MaxBatch : SND_batchSamples(n)
  \/ BatchStep
  \/ StartCallback \/ CopyFrame \/ FillStream
  \/ PauseAudio \/ ResumeAudio

\* The core's thread and the audio thread keep running.  Both get the lock they
\* compete for (strong fairness): the producer gives it up for 1 ms at a time,
\* and the device asks for samples once in a buffer's length, SAMPLES frames.
\* Nothing forces a sleeping device to wake up.
Fairness ==
  /\ WF_vars(BatchStep) /\ SF_vars(BatchRelock)
  /\ SF_vars(StartCallback)
  /\ WF_vars(CopyFrame) /\ WF_vars(FillStream)

SafeSpec == Init /\ [][Next]_vars
Spec == SafeSpec /\ Fairness
----------------------------------------------------------------------------
TypeOK ==
  /\ buffer \in [Slots -> Frame]
  /\ frame_in \in Slots /\ frame_out \in Slots /\ frame_filled \in Slots
  /\ rate_in \in Rates /\ rate_out \in Rates /\ diff \in Nat
  /\ paused \in BOOLEAN
  /\ audio_lock \in {"none", "batch", "callback"}
  /\ batch \in {"idle", "loop", "wait", "delay", "fill"}
  /\ frames \in 1 .. MaxFrames + 1
  /\ left \in Nat /\ amount \in Nat /\ tries \in 0 .. MaxTries
  /\ len \in Nat /\ stream \in Seq(Sample)
  /\ pushes \in Nat /\ newest \in Frame /\ played \in Frame

\* The resampler neither drifts nor jumps: what has been stored, at the device's
\* rate, and what the core has handed over, at its own, differ by `diff`, which
\* stays below one frame of the slower rate (SND_resampleNear's static).
NoPitchDrift ==
  /\ pushes * rate_in = (frames - 1) * rate_out + diff
  /\ diff < rate_in \/ diff < rate_out

\* A stream that ran dry is completed with samples of this very callback, on
\* the channel they came from: left samples stay at the odd positions
\* (SND_audioCallback's `in` and `out` pointers never cross or swap).
FillKeepsChannel ==
  \A i \in 1 .. Len(stream) :
    stream[i] = Silence \/ stream[i][2] = (IF i % 2 = 1 THEN "L" ELSE "R")

\* The frames waiting in the ring, oldest first.
Used == IF frame_in >= frame_out THEN frame_in - frame_out
        ELSE frame_in - frame_out + FrameCount
Slot(i) == IF frame_out + i - 1 < FrameCount THEN frame_out + i - 1
           ELSE frame_out + i - 1 - FrameCount
Waiting == [i \in 1 .. Used |-> buffer[Slot(i)]]

Fifo == INSTANCE SndFifo
        WITH Capacity <- FrameCount - 1, Frames <- 1 .. MaxFrames, queue <- Waiting

\* The ring with its two free-running indices and frame_filled is a bounded
\* FIFO: no stored frame is overwritten before it is played, none is played
\* twice, and they are played in the order the core produced them.
ImplementsFifo == Fifo!Spec

\* A call of SND_batchSamples that finds the ring full still returns, with all
\* its frames accepted, the callback makes room, unless the audio is paused
\* again and again (PWR_enterSleep): then nobody drains the ring.
BatchReturns == <>[](~paused) => (batch # "idle" ~> batch = "idle")
=============================================================================
