------------------------------ MODULE Playback ------------------------------
(***************************************************************************)
(* What the controls of a replay promise: while it plays, the frames of    *)
(* the loaded file appear one after the other; at the last one it stops by *)
(* itself; stopping and seeking take effect at once.                       *)
(***************************************************************************)
EXTENDS Naturals

VARIABLES playing, frame, last   \* last: index of the last frame of the file

PlaybackTypeOK == playing \in BOOLEAN /\ last \in Nat /\ frame \in 0..last

PlaybackInit == playing = FALSE /\ frame = 0 /\ last = 0

\* At the last frame there is nothing left to play.
Start == (playing' \/ frame = last) /\ playing' \in BOOLEAN /\ UNCHANGED <<frame, last>>

\* A replay may stop as it draws the last frame or after it.
Advance ==
  /\ playing /\ frame < last
  /\ frame' = frame + 1 /\ last' = last
  /\ playing' \in BOOLEAN /\ (playing' \/ frame' = last)

Stop == playing' = FALSE /\ UNCHANGED <<frame, last>>

Seek == playing' = FALSE /\ last' = last /\ frame' \in 0..last

\* Another file.
Load == playing' = FALSE /\ last' \in Nat /\ frame' \in {0, last'}

PlaybackNext == Start \/ Advance \/ Stop \/ Seek \/ Load

PlaybackSpec == PlaybackInit /\ [][PlaybackNext]_<<playing, frame, last>>

\* It comes to its end or is stopped.
Ends == playing ~> ~playing
=============================================================================
