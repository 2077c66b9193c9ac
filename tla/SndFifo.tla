------------------------------ MODULE SndFifo ------------------------------
(***************************************************************************)
(* What the audio ring of common/api.c promises to the emulator core and   *)
(* to the listener, without its indices, its lock or its resampler: a      *)
(* bounded first-in first-out queue.  The core hands over frames in order  *)
(* (a frame may be queued again, or left out, when the rates differ), the  *)
(* audio device plays them in that order, none is lost once queued, and no *)
(* more than Capacity of them wait at a time.  A frame is identified by    *)
(* its position in the stream the core produces; 0 is "none yet".          *)
(***************************************************************************)
EXTENDS Naturals, Sequences

CONSTANTS
  Capacity,  \* frames the queue can hold, a positive number
  Frames     \* the frames the core may produce, positive numbers

VARIABLES
  queue,   \* frames accepted and not yet played, oldest first
  newest,  \* the frame queued last
  played   \* the frame played last

fifoVars == <<queue, newest, played>>

Init ==
  /\ queue = <<>>
  /\ newest = 0
  /\ played = 0

\* The core's side: queue frame f behind the others.
Push(f) ==
  /\ Len(queue) < Capacity
  /\ f >= newest
  /\ queue' = Append(queue, f)
  /\ newest' = f
  /\ UNCHANGED played

\* The device's side: play the oldest frame.
Pop ==
  /\ queue # <<>>
  /\ played' = Head(queue)
  /\ queue' = Tail(queue)
  /\ UNCHANGED newest

Next == (\E f \in Frames : Push(f)) \/ Pop

Spec == Init /\ [][Next]_fifoVars
=============================================================================
