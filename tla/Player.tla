------------------------------- MODULE Player -------------------------------
(***************************************************************************)
(* The playback loop of the dashboard: a timeout draws the next frame, and *)
(* when the frame is drawn the next timeout is set.  Three places have it: *)
(* the replay of a page, the unified replay of its panels, and the replay  *)
(* of a comparison.                                                        *)
(*                                                                         *)
(* A live timeout can be cleared only through playTimer, which names the   *)
(* one set last; the timeouts set before it and not yet fired are strays.  *)
(***************************************************************************)
EXTENDS Naturals

\* With at most that many chains: a chain that is stopped no more draws a frame after the
\* last one, and the unified replay may add as many to the frame of a single replay.
Players(last, chains) ==
  [playing: BOOLEAN, frame: 0..last + 2 * chains, timer: BOOLEAN,
   strays: 0..chains, drawing: 0..chains]

Idle == [playing |-> FALSE, frame |-> 0, timer |-> FALSE, strays |-> 0, drawing |-> 0]

\* What will still call scheduleNext.
Chains(p) == p.strays + p.drawing + (IF p.timer THEN 1 ELSE 0)
Doubled(p) == Chains(p) > 1

\* Mutant: the last frame does not stop the replay.
ScheduleForever(p, last) ==
  IF p.playing /\ p.frame < last
  THEN [p EXCEPT !.timer = TRUE, !.strays = @ + (IF p.timer THEN 1 ELSE 0)]
  ELSE p

\* scheduleNext: a name is given to the new timeout, the old one is not cleared.
Schedule(p, last) ==
  IF ~p.playing THEN p
  ELSE IF p.frame >= last THEN [p EXCEPT !.playing = FALSE]
  ELSE [p EXCEPT !.timer = TRUE, !.strays = @ + (IF p.timer THEN 1 ELSE 0)]

Played(p, last) == IF p.playing THEN p ELSE Schedule([p EXCEPT !.playing = TRUE], last)

Paused(p) == [p EXCEPT !.playing = FALSE, !.timer = FALSE]

Sought(p, f) == [Paused(p) EXCEPT !.frame = f]

\* A timeout draws the frame after the current one.
Fired(p) == [p EXCEPT !.timer = FALSE, !.frame = @ + 1, !.drawing = @ + 1]
StrayFired(p) == [p EXCEPT !.strays = @ - 1, !.frame = @ + 1, !.drawing = @ + 1]

\* The frame is drawn.
Drawn(p, last) == Schedule([p EXCEPT !.drawing = @ - 1], last)
=============================================================================
