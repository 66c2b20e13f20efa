---------------------------- MODULE ReplayProofs ----------------------------
(***************************************************************************)
(* Proofs about the replay page, for every set of files, every number of   *)
(* frames, any phases and any bound on the chains: the two replays never   *)
(* play together, the page shows its file (players within their bounds,    *)
(* charts of the file, the phase of the cursor), and a calm replay does    *)
(* what Playback promises.                                                 *)
(*                                                                         *)
(* The argument.  The controls of a replay show only in its layouts, and   *)
(* every way into the classic layout pauses both; so a unified replay that *)
(* plays is not in the classic layout, and whoever starts it has paused    *)
(* the other.  The replays that were left behind are the only ones that    *)
(* draw another file, and there are none unless the page is haunted: a     *)
(* load says so whenever one of them, old or new, is under way.            *)
(* No step but Play adds a chain, a timeout that fires spends a frame that *)
(* its chain could reach, and a chain goes on only below the last frame:   *)
(* so the frames stay within what the chains can reach.  And every step    *)
(* that moves the unified cursor selects the phase again.                  *)
(***************************************************************************)
EXTENDS Replay, Extremes, FiniteSetTheorems, TLAPS

PlayerRecords == [playing: BOOLEAN, frame: Nat, timer: BOOLEAN, strays: Nat, drawing: Nat]

\* The type invariant without the bounds, which depend on MaxChains.
Typed ==
  /\ stored \in Views
  /\ page \in [view: Views, file: Files \cup {NoFile}, shown: BOOLEAN]
  /\ single \in PlayerRecords /\ unified \in PlayerRecords
  /\ ghosts \in [GhostSlots -> [player: PlayerRecords, file: Files \cup {NoFile}]]
  /\ haunted \in BOOLEAN

\* Strengthens OnePlayback.
Solo == unified.playing => page.view # "classic" /\ ~single.playing

\* Strengthens ChartShowsFile.
Quiet == ~haunted => \A g \in GhostSlots : ghosts[g] = NoGhost

Inv == Typed /\ Solo /\ Quiet /\ ChartShowsFile

----------------------------------------------------------------------------
\* No operator on a player starts it but Played, and all keep its type.
LEMMA ScheduleType ==
  ASSUME NEW p \in PlayerRecords, NEW last
  PROVE  /\ Schedule(p, last) \in PlayerRecords
         /\ Schedule(p, last).playing => p.playing
         /\ Schedule(p, last).frame = p.frame
<1>1. CASE ~p.playing
  BY <1>1 DEF Schedule
<1>2. CASE p.playing /\ p.frame >= last
  <2>1. Schedule(p, last) = [p EXCEPT !.playing = FALSE]
    BY <1>2 DEF Schedule
  <2>. QED  BY <1>2, <2>1 DEF PlayerRecords
<1>3. CASE p.playing /\ ~(p.frame >= last)
  <2>. DEFINE lost == IF p.timer THEN 1 ELSE 0
  <2>1. Schedule(p, last) = [p EXCEPT !.timer = TRUE, !.strays = @ + lost]
    BY <1>3 DEF Schedule
  <2>2. p.strays + lost \in Nat
    BY DEF PlayerRecords
  <2>. HIDE DEF lost
  <2>. QED  BY <1>3, <2>1, <2>2 DEF PlayerRecords
<1>. QED  BY <1>1, <1>2, <1>3

LEMMA PausedType ==
  ASSUME NEW p \in PlayerRecords
  PROVE  Paused(p) \in PlayerRecords /\ ~Paused(p).playing /\ Paused(p).frame = p.frame
BY DEF Paused, PlayerRecords

LEMMA SoughtType ==
  ASSUME NEW p \in PlayerRecords, NEW f \in Nat
  PROVE  Sought(p, f) \in PlayerRecords /\ ~Sought(p, f).playing /\ Sought(p, f).frame = f
BY DEF Sought, Paused, PlayerRecords

LEMMA PlayedType ==
  ASSUME NEW p \in PlayerRecords, NEW last
  PROVE  /\ Played(p, last) \in PlayerRecords /\ Played(p, last).frame = p.frame
         /\ p.playing => Played(p, last).playing
<1>1. [p EXCEPT !.playing = TRUE] \in PlayerRecords
  BY DEF PlayerRecords
<1>2. [p EXCEPT !.playing = TRUE].frame = p.frame
  BY DEF PlayerRecords
<1>3. CASE p.playing
  BY <1>3 DEF Played
<1>4. CASE ~p.playing
  <2>. DEFINE q == [p EXCEPT !.playing = TRUE]
  <2>1. Played(p, last) = Schedule(q, last)
    BY <1>4 DEF Played
  <2>. HIDE DEF q
  <2>2. q \in PlayerRecords /\ q.frame = p.frame
    BY <1>1, <1>2 DEF q
  <2>. QED  BY <1>4, <2>1, <2>2, ScheduleType
<1>. QED  BY <1>3, <1>4

LEMMA FiredType ==
  ASSUME NEW p \in PlayerRecords
  PROVE  Fired(p) \in PlayerRecords /\ Fired(p).playing = p.playing /\ Fired(p).frame = p.frame + 1
<1>. DEFINE f == p.frame + 1
            d == p.drawing + 1
<1>1. f \in Nat /\ d \in Nat
  BY DEF PlayerRecords
<1>2. Fired(p) = [p EXCEPT !.timer = FALSE, !.frame = f, !.drawing = d]
  BY DEF Fired
<1>. HIDE DEF f, d
<1>3. /\ Fired(p) \in PlayerRecords
      /\ Fired(p).playing = p.playing /\ Fired(p).frame = f
  BY <1>1, <1>2 DEF PlayerRecords
<1>. QED  BY <1>3 DEF f

LEMMA StrayFiredType ==
  ASSUME NEW p \in PlayerRecords, p.strays > 0
  PROVE  /\ StrayFired(p) \in PlayerRecords
         /\ StrayFired(p).playing = p.playing /\ StrayFired(p).frame = p.frame + 1
<1>. DEFINE s == p.strays - 1
            f == p.frame + 1
            d == p.drawing + 1
<1>1. s \in Nat /\ f \in Nat /\ d \in Nat
  BY DEF PlayerRecords
<1>2. StrayFired(p) = [p EXCEPT !.strays = s, !.frame = f, !.drawing = d]
  BY DEF StrayFired
<1>. HIDE DEF s, f, d
<1>3. /\ StrayFired(p) \in PlayerRecords
      /\ StrayFired(p).playing = p.playing /\ StrayFired(p).frame = f
  BY <1>1, <1>2 DEF PlayerRecords
<1>. QED  BY <1>3 DEF f

LEMMA UndrawnType ==
  ASSUME NEW p \in PlayerRecords, p.drawing > 0
  PROVE  /\ [p EXCEPT !.drawing = @ - 1] \in PlayerRecords
         /\ [p EXCEPT !.drawing = @ - 1].playing = p.playing
         /\ [p EXCEPT !.drawing = @ - 1].frame = p.frame
BY DEF PlayerRecords

LEMMA DrawnType ==
  ASSUME NEW p \in PlayerRecords, NEW last, p.drawing > 0
  PROVE  /\ Drawn(p, last) \in PlayerRecords
         /\ Drawn(p, last).playing => p.playing
         /\ Drawn(p, last).frame = p.frame
<1>. DEFINE q == [p EXCEPT !.drawing = @ - 1]
<1>1. Drawn(p, last) = Schedule(q, last)
  BY DEF Drawn
<1>2. q \in PlayerRecords /\ q.playing = p.playing /\ q.frame = p.frame
  BY UndrawnType
<1>. HIDE DEF q
<1>. QED  BY <1>1, <1>2, ScheduleType

LEMMA IdleType == Idle \in PlayerRecords /\ ~Idle.playing /\ Idle.frame = 0
BY DEF Idle, PlayerRecords

LEMMA FramesAreNat == Typed => MaxFrame \in Nat
BY ReplayAssumption DEF Typed, MaxFrame

LEMMA PhaseFrames ==
  ASSUME Typed, page.file # NoFile, NEW i \in DOMAIN Phases[page.file]
  PROVE  Phases[page.file][i][1] \in 0..MaxFrame
<1>. DEFINE f == page.file
<1>1. f \in Files
  BY DEF Typed
<1>2. Phases[f] \in Seq(Nat \X Nat) /\ LastFrame[f] \in Nat
  BY <1>1, ReplayAssumption
<1>3. Phases[f][i] \in Nat \X Nat
  BY <1>2
<1>4. Phases[f][i][1] \in Nat /\ Phases[f][i][2] \in Nat
  BY <1>3
<1>5. Phases[f][i][1] < Phases[f][i][2] /\ Phases[f][i][2] <= LastFrame[f]
  BY <1>1, ReplayAssumption
<1>6. MaxFrame = LastFrame[f]
  BY DEF MaxFrame
<1>. HIDE DEF f
<1>. QED  BY <1>2, <1>4, <1>5, <1>6 DEF f

----------------------------------------------------------------------------
\* What is left behind is a record of the ghosts.
LEMMA GhostsType ==
  ASSUME Typed, LeaveBehind
  PROVE  /\ ghosts' \in [GhostSlots -> [player: PlayerRecords, file: Files \cup {NoFile}]]
         /\ haunted' \in BOOLEAN
         /\ ~haunted' => \A g \in GhostSlots : ghosts'[g] = NoGhost
<1>. DEFINE h == [player |-> single, file |-> page.file]
<1>1. h \in [player: PlayerRecords, file: Files \cup {NoFile}]
  BY DEF Typed
<1>2. ghosts' = IF Chains(single) > 0 THEN [ghosts EXCEPT ![FreeSlot] = h] ELSE ghosts
  BY DEF LeaveBehind
<1>. HIDE DEF h
<1>3. ghosts' \in [GhostSlots -> [player: PlayerRecords, file: Files \cup {NoFile}]]
  BY <1>1, <1>2 DEF Typed
<1>4. haunted' = (Chains(single) > 0 \/ Haunting # {})
  BY DEF LeaveBehind
<1>5. ~haunted' => \A g \in GhostSlots : ghosts'[g] = NoGhost
  BY <1>2, <1>4 DEF Haunting
<1>. QED  BY <1>3, <1>4, <1>5

\* A step of a ghost.
LEMMA InvGhost ==
  ASSUME Inv, NEW g \in GhostSlots, ghosts[g] # NoGhost,
         NEW h \in [player: PlayerRecords, file: Files \cup {NoFile}],
         ghosts' = [ghosts EXCEPT ![g] = h], chart' \in {chart, ghosts[g].file},
         UNCHANGED <<stored, page, single, unified, haunted>>
  PROVE  Inv'
<1>1. ghosts' \in [GhostSlots -> [player: PlayerRecords, file: Files \cup {NoFile}]]
  BY DEF Inv, Typed
<1>2. haunted
  BY DEF Inv, Quiet
<1>. QED  BY <1>1, <1>2 DEF Inv, Typed, Solo, Quiet, ChartShowsFile

\* A ghost that fires or is drawn goes on or vanishes.
LEMMA GhostFires ==
  ASSUME Typed, NEW g \in GhostSlots, GhostTimeout(g)
  PROVE  \E q \in PlayerRecords :
           /\ ghosts' = [ghosts EXCEPT ![g] = [player |-> q, file |-> ghosts[g].file]]
           /\ \/ ghosts[g].player.timer /\ q = Fired(ghosts[g].player)
              \/ ghosts[g].player.strays > 0 /\ q = StrayFired(ghosts[g].player)
<1>. DEFINE p == ghosts[g].player
<1>1. p \in PlayerRecords /\ ghosts[g] \in [player: PlayerRecords, file: Files \cup {NoFile}]
  BY DEF Typed
<1>2. ASSUME NEW q, ghosts' = [ghosts EXCEPT ![g].player = q]
      PROVE  ghosts' = [ghosts EXCEPT ![g] = [player |-> q, file |-> ghosts[g].file]]
  <2>1. [ghosts[g] EXCEPT !.player = q] = [player |-> q, file |-> ghosts[g].file]
    BY <1>1
  <2>2. ghosts' = [ghosts EXCEPT ![g] = [ghosts[g] EXCEPT !.player = q]]
    BY <1>2
  <2>. QED  BY <2>1, <2>2
<1>3. CASE p.timer /\ ghosts' = [ghosts EXCEPT ![g].player = Fired(@)]
  <2>1. ghosts' = [ghosts EXCEPT ![g].player = Fired(p)]
    BY <1>3, <1>1 DEF Typed
  <2>2. ghosts' = [ghosts EXCEPT ![g] = [player |-> Fired(p), file |-> ghosts[g].file]]
    BY <1>2, <2>1
  <2>3. Fired(p) \in PlayerRecords
    BY <1>1, FiredType
  <2>4. ghosts[g].player.timer
    BY <1>3
  <2>. WITNESS Fired(p) \in PlayerRecords
  <2>. QED  BY <2>2, <2>4, Zenon
<1>4. CASE p.strays > 0 /\ ghosts' = [ghosts EXCEPT ![g].player = StrayFired(@)]
  <2>1. ghosts' = [ghosts EXCEPT ![g].player = StrayFired(p)]
    BY <1>4, <1>1 DEF Typed
  <2>2. ghosts' = [ghosts EXCEPT ![g] = [player |-> StrayFired(p), file |-> ghosts[g].file]]
    BY <1>2, <2>1
  <2>3. StrayFired(p) \in PlayerRecords
    BY <1>1, <1>4, StrayFiredType
  <2>. QED  BY <1>4, <2>2, <2>3
<1>. QED  BY <1>3, <1>4 DEF GhostTimeout

LEMMA InvInit == ReplayInit => Inv
<1>. SUFFICES ASSUME ReplayInit PROVE Inv
  OBVIOUS
<1>1. Typed
  <2>1. NoGhost \in [player: PlayerRecords, file: Files \cup {NoFile}]
    BY IdleType DEF NoGhost
  <2>. QED  BY <2>1, IdleType DEF ReplayInit, Typed, Views
<1>2. Solo /\ Quiet /\ ChartShowsFile
  BY IdleType DEF ReplayInit, Solo, Quiet, ChartShowsFile
<1>. QED  BY <1>1, <1>2 DEF Inv

\* What a step leaves alone: the page and the replays keep their types and their places.
LEMMA InvUnchanged == Inv /\ UNCHANGED replayVars => Inv'
BY DEF Inv, Typed, Solo, Quiet, ChartShowsFile, replayVars, pageVars

\* A step of the two replays alone, that starts none.
LEMMA InvStopped ==
  ASSUME Inv, UNCHANGED <<stored, page, ghosts, haunted>>, chart' \in {chart, page.file},
         single' \in PlayerRecords, unified' \in PlayerRecords,
         single'.playing => single.playing, unified'.playing => unified.playing
  PROVE  Inv'
BY DEF Inv, Typed, Solo, Quiet, ChartShowsFile

\* One step per action.
LEMMA InvNext == Inv /\ [ReplayNext]_replayVars => Inv'
<1>. SUFFICES ASSUME Inv, [ReplayNext]_replayVars PROVE Inv'
  OBVIOUS
<1>. USE DEF Inv, RenderFrame
<1>1. ASSUME NEW f \in Files, Load(f) PROVE Inv'
  <2>1. LastFrame[f] \in Nat
    BY ReplayAssumption
  <2>2. unified' \in PlayerRecords /\ ~unified'.playing
    BY <1>1, <2>1, SoughtType DEF Load, Typed
  <2>3. single' \in PlayerRecords
    BY <1>1, IdleType DEF Load
  <2>4. /\ ghosts' \in [GhostSlots -> [player: PlayerRecords, file: Files \cup {NoFile}]]
        /\ haunted' \in BOOLEAN /\ Quiet'
    BY <1>1, GhostsType DEF Load, Quiet
  <2>5. Typed'
    BY <1>1, <2>2, <2>3, <2>4 DEF Load, Typed
  <2>. QED  BY <1>1, <2>2, <2>4, <2>5 DEF Load, Solo, ChartShowsFile
<1>2. CASE Reject
  BY <1>2 DEF Reject, Typed, Solo, Quiet, ChartShowsFile
<1>3. CASE PlaySingle
  <2>1. single' \in PlayerRecords
    BY <1>3, PlayedType DEF PlaySingle, Typed
  <2>2. page.view = "classic"
    BY <1>3 DEF PlaySingle, ControlsSingle
  <2>. QED  BY <1>3, <2>1, <2>2 DEF PlaySingle, Typed, Solo, Quiet, ChartShowsFile
<1>4. CASE PauseSingle
  <2>1. single' \in PlayerRecords /\ ~single'.playing
    BY <1>4, PausedType DEF PauseSingle, Typed
  <2>. QED  BY <1>4, <2>1, InvStopped DEF PauseSingle, Typed
<1>5. ASSUME NEW f \in 0..MaxFrame, SeekSingle(f) PROVE Inv'
  <2>1. f \in Nat
    BY FramesAreNat
  <2>2. single' \in PlayerRecords /\ ~single'.playing
    BY <1>5, <2>1, SoughtType DEF SeekSingle, Typed
  <2>. QED  BY <1>5, <2>2, InvStopped DEF SeekSingle, Typed
<1>6. CASE SingleTimeout
  <2>1. single' \in PlayerRecords /\ single'.playing = single.playing
    BY <1>6, FiredType, StrayFiredType DEF SingleTimeout, Typed
  <2>. QED  BY <1>6, <2>1, InvStopped DEF SingleTimeout, Typed
<1>7. CASE SingleDrawn
  <2>1. single' \in PlayerRecords /\ (single'.playing => single.playing)
    BY <1>7, DrawnType DEF SingleDrawn, Typed
  <2>. QED  BY <1>7, <2>1, InvStopped DEF SingleDrawn, Typed
<1>8. ASSUME NEW g \in GhostSlots, GhostTimeout(g) PROVE Inv'
  <2>1. PICK q \in PlayerRecords :
          ghosts' = [ghosts EXCEPT ![g] = [player |-> q, file |-> ghosts[g].file]]
    BY <1>8, GhostFires
  <2>2. [player |-> q, file |-> ghosts[g].file] \in [player: PlayerRecords, file: Files \cup {NoFile}]
    BY DEF Typed
  <2>3. ghosts[g] # NoGhost
    BY <1>8 DEF GhostTimeout, NoGhost, Idle
  <2>. QED  BY <1>8, <2>1, <2>2, <2>3, InvGhost DEF GhostTimeout
<1>9. ASSUME NEW g \in GhostSlots, GhostDrawn(g) PROVE Inv'
  <2>. DEFINE next == Drawn(ghosts[g].player, LastFrame[ghosts[g].file])
              h == IF Chains(next) = 0 THEN NoGhost ELSE [player |-> next, file |-> ghosts[g].file]
  <2>1. ghosts[g].player \in PlayerRecords /\ ghosts[g].file \in Files \cup {NoFile}
    BY DEF Typed
  <2>2. next \in PlayerRecords
    BY <1>9, <2>1, DrawnType DEF GhostDrawn
  <2>3. ghosts' = [ghosts EXCEPT ![g] = h]
    BY <1>9 DEF GhostDrawn, Typed
  <2>. HIDE DEF next
  <2>4. h \in [player: PlayerRecords, file: Files \cup {NoFile}]
    BY <2>1, <2>2, IdleType DEF NoGhost
  <2>5. ghosts[g] # NoGhost
    BY <1>9 DEF GhostDrawn, NoGhost, Idle
  <2>. HIDE DEF h
  <2>. QED  BY <1>9, <2>3, <2>4, <2>5, InvGhost DEF GhostDrawn
<1>10. CASE PlayUnified
  <2>1. unified' \in PlayerRecords
    BY <1>10, PlayedType DEF PlayUnified, Typed
  <2>2. single' \in PlayerRecords /\ ~single'.playing
    BY <1>10, PausedType DEF PlayUnified, Typed
  <2>3. page.view # "classic"
    BY <1>10 DEF PlayUnified, ControlsUnified
  <2>. QED  BY <1>10, <2>1, <2>2, <2>3 DEF PlayUnified, Typed, Solo, Quiet, ChartShowsFile
<1>11. CASE PauseUnified
  <2>1. /\ unified' \in PlayerRecords /\ ~unified'.playing
        /\ single' \in PlayerRecords /\ ~single'.playing
    BY <1>11, PausedType DEF PauseUnified, PauseAll, Typed
  <2>. QED  BY <1>11, <2>1, InvStopped DEF PauseUnified, Typed
<1>12. ASSUME NEW f \in 0..MaxFrame, SeekUnified(f) PROVE Inv'
  <2>1. f \in Nat
    BY FramesAreNat
  <2>2. unified' \in PlayerRecords /\ ~unified'.playing
    BY <1>12, <2>1, SoughtType DEF SeekUnified, Typed
  <2>3. single' \in PlayerRecords /\ ~single'.playing
    BY <1>12, <2>1, SoughtType DEF SeekUnified, Typed
  <2>. QED  BY <1>12, <2>2, <2>3, InvStopped DEF SeekUnified, Typed
<1>13. ASSUME page.file # NoFile, NEW i \in DOMAIN Phases[page.file], ClickPhase(i) PROVE Inv'
  <2>. DEFINE f == Phases[page.file][i][1]
  <2>1. f \in Nat
    BY <1>13, PhaseFrames, FramesAreNat
  <2>2. /\ unified' = Sought(unified, f)
        /\ single' = Sought(single, f)
    BY <1>13 DEF ClickPhase
  <2>. HIDE DEF f
  <2>3. /\ unified' \in PlayerRecords /\ ~unified'.playing
        /\ single' \in PlayerRecords /\ ~single'.playing
    BY <2>1, <2>2, SoughtType DEF Typed
  <2>. QED  BY <1>13, <2>3, InvStopped DEF ClickPhase, Typed
<1>14. CASE UnifiedTimeout
  <2>1. unified' \in PlayerRecords /\ unified'.playing = unified.playing
    BY <1>14, FiredType, StrayFiredType DEF UnifiedTimeout, Typed
  <2>2. unified'.frame \in Nat
    BY <2>1 DEF PlayerRecords
  <2>3. single' = [single EXCEPT !.frame = unified'.frame]
    BY <1>14 DEF UnifiedTimeout, DrawAll
  <2>4. single' \in PlayerRecords /\ single'.playing = single.playing
    BY <2>2, <2>3 DEF PlayerRecords, Typed
  <2>. QED  BY <1>14, <2>1, <2>4, InvStopped DEF UnifiedTimeout, DrawAll
<1>15. CASE UnifiedDrawn
  <2>1. unified' \in PlayerRecords /\ (unified'.playing => unified.playing)
    BY <1>15, DrawnType, UndrawnType DEF UnifiedDrawn, Typed
  <2>. QED  BY <1>15, <2>1, InvStopped DEF UnifiedDrawn, Typed
<1>16. ASSUME NEW view \in Views, SelectView(view) PROVE Inv'
  <2>1. /\ unified' \in PlayerRecords /\ (unified'.playing => unified.playing /\ view # "classic")
        /\ single' \in PlayerRecords /\ (single'.playing => single.playing)
    BY <1>16, PausedType DEF SelectView, PauseAll, Typed
  <2>. QED  BY <1>16, <2>1 DEF SelectView, Typed, Solo, Quiet, ChartShowsFile
<1>17. ASSUME NEW view \in Views, OtherTab(view) PROVE Inv'
  BY <1>17 DEF OtherTab, pageVars, Typed, Solo, Quiet, ChartShowsFile
<1>18. CASE UNCHANGED replayVars
  BY <1>18, InvUnchanged
<1>. QED
  BY <1>1, <1>2, <1>3, <1>4, <1>5, <1>6, <1>7, <1>8, <1>9, <1>10, <1>11, <1>12, <1>13, <1>14,
     <1>15, <1>16, <1>17, <1>18 DEF ReplayNext, Single, Unified

LEMMA SpecInv == ReplaySpec => []Inv
BY InvInit, InvNext, PTL DEF ReplaySpec

\* The single and the unified replay never play together: renderReplay, setViewMode,
\* playUnifiedReplay and pauseUnifiedReplay see to it for any layouts, files and frames.
THEOREM OneReplayPlays == ReplaySpec => []OnePlayback
<1>1. Inv => OnePlayback
  BY DEF Inv, Solo, OnePlayback
<1>. QED  BY SpecInv, <1>1, PTL

----------------------------------------------------------------------------
(***************************************************************************)
(* The replays implement Playback while they are calm.                     *)
(***************************************************************************)
LEMMA SingleStops ==
  ASSUME single'.playing = FALSE, single'.frame = single.frame, MaxFrame' = MaxFrame
  PROVE  SingleStep
BY DEF SingleStep, SinglePlayback!PlaybackNext, SinglePlayback!Stop

LEMMA UnifiedStops ==
  ASSUME unified'.playing = FALSE, unified'.frame = unified.frame, MaxFrame' = MaxFrame
  PROVE  UnifiedStep
BY DEF UnifiedStep, UnifiedPlayback!PlaybackNext, UnifiedPlayback!Stop

LEMMA SingleSeeks ==
  ASSUME single'.playing = FALSE, single'.frame \in 0..MaxFrame, MaxFrame' = MaxFrame
  PROVE  SingleStep
BY DEF SingleStep, SinglePlayback!PlaybackNext, SinglePlayback!Seek

LEMMA UnifiedSeeks ==
  ASSUME unified'.playing = FALSE, unified'.frame \in 0..MaxFrame, MaxFrame' = MaxFrame
  PROVE  UnifiedStep
BY DEF UnifiedStep, UnifiedPlayback!PlaybackNext, UnifiedPlayback!Seek

LEMMA SingleAdvances ==
  ASSUME single.playing = TRUE, single'.playing = TRUE, single.frame \in Nat, MaxFrame \in Nat,
         single.frame < MaxFrame, single'.frame = single.frame + 1, MaxFrame' = MaxFrame
  PROVE  SingleStep
BY DEF SingleStep, SinglePlayback!PlaybackNext, SinglePlayback!Advance

LEMMA UnifiedAdvances ==
  ASSUME unified.playing = TRUE, unified'.playing = TRUE, unified.frame \in Nat, MaxFrame \in Nat,
         unified.frame < MaxFrame, unified'.frame = unified.frame + 1, MaxFrame' = MaxFrame
  PROVE  UnifiedStep
BY DEF UnifiedStep, UnifiedPlayback!PlaybackNext, UnifiedPlayback!Advance

LEMMA SingleStarts ==
  ASSUME single'.playing = TRUE, single'.frame = single.frame, MaxFrame' = MaxFrame
  PROVE  SingleStep
BY DEF SingleStep, SinglePlayback!PlaybackNext, SinglePlayback!Start

LEMMA UnifiedStarts ==
  ASSUME unified'.playing = TRUE, unified'.frame = unified.frame, MaxFrame' = MaxFrame
  PROVE  UnifiedStep
BY DEF UnifiedStep, UnifiedPlayback!PlaybackNext, UnifiedPlayback!Start

LEMMA SingleStays == single' = single /\ MaxFrame' = MaxFrame => SingleStep
BY DEF SingleStep

LEMMA UnifiedStays == unified' = unified /\ MaxFrame' = MaxFrame => UnifiedStep
BY DEF UnifiedStep

LEMMA StepsRefine ==
  ASSUME Inv, [ReplayNext]_replayVars, Calm
  PROVE  SingleStep /\ UnifiedStep
<1>. USE DEF Inv
<1>. DEFINE Same == page'.file = page.file
<1>a. Same => MaxFrame' = MaxFrame
  BY DEF MaxFrame
<1>b. MaxFrame \in Nat
  BY FramesAreNat
<1>c. \A p \in PlayerRecords : p.frame \in Nat /\ p.playing \in BOOLEAN /\ (~p.playing => p.playing = FALSE)
  BY DEF PlayerRecords
<1>d. /\ single \in PlayerRecords /\ unified \in PlayerRecords
      /\ single' \in PlayerRecords /\ unified' \in PlayerRecords
  BY InvNext DEF Typed
<1>e. /\ single.strays = 0 /\ (single.timer => single.playing /\ single.frame < MaxFrame)
      /\ unified.strays = 0 /\ (unified.timer => unified.playing /\ unified.frame < MaxFrame)
  BY DEF Calm
<1>1. ASSUME NEW f \in Files, Load(f) PROVE SingleStep /\ UnifiedStep
  <2>1. LastFrame[f] \in Nat
    BY ReplayAssumption
  <2>2. MaxFrame' = LastFrame[f]
    BY <1>1, ReplayAssumption DEF Load, MaxFrame
  <2>3. ~unified'.playing /\ unified'.frame = LastFrame[f]
    BY <1>1, <1>d, <2>1, SoughtType DEF Load
  <2>4. ~single'.playing /\ single'.frame = 0
    BY <1>1, IdleType DEF Load
  <2>5. SingleStep
    BY <1>c, <1>d, <2>1, <2>2, <2>4 DEF SingleStep, SinglePlayback!PlaybackNext, SinglePlayback!Load
  <2>6. UnifiedStep
    BY <1>c, <1>d, <2>1, <2>2, <2>3 DEF UnifiedStep, UnifiedPlayback!PlaybackNext, UnifiedPlayback!Load
  <2>. QED  BY <2>5, <2>6
<1>2. CASE Reject
  <2>1. Same
    BY <1>2 DEF Reject, Typed
  <2>. QED  BY <1>2, <2>1, <1>a, SingleStays, UnifiedStays DEF Reject
<1>3. CASE PlaySingle
  <2>1. Same /\ unified' = unified /\ single' = Played(single, MaxFrame)
    BY <1>3 DEF PlaySingle
  <2>2. single'.frame = single.frame /\ (single.playing => single'.playing)
    BY <2>1, <1>d, PlayedType
  <2>3. SingleStep
    <3>1. CASE single'.playing
      BY <1>a, <1>c, <1>d, <2>1, <2>2, <3>1, SingleStarts
    <3>2. CASE ~single'.playing
      BY <1>a, <1>c, <1>d, <2>1, <2>2, <3>2, SingleStops
    <3>. QED  BY <3>1, <3>2
  <2>. QED  BY <1>a, <2>1, <2>3, UnifiedStays
<1>4. CASE PauseSingle
  <2>1. Same /\ unified' = unified /\ single' = Paused(single)
    BY <1>4 DEF PauseSingle
  <2>2. single'.frame = single.frame /\ ~single'.playing
    BY <2>1, <1>d, PausedType
  <2>. QED  BY <1>a, <1>c, <1>d, <2>1, <2>2, SingleStops, UnifiedStays
<1>5. ASSUME NEW f \in 0..MaxFrame, SeekSingle(f) PROVE SingleStep /\ UnifiedStep
  <2>1. Same /\ unified' = unified /\ single' = Sought(single, f) /\ f \in Nat
    BY <1>5, <1>b DEF SeekSingle
  <2>2. single'.frame = f /\ ~single'.playing
    BY <2>1, <1>d, SoughtType
  <2>. QED  BY <1>a, <1>c, <1>d, <2>1, <2>2, SingleSeeks, UnifiedStays
<1>6. CASE SingleTimeout
  <2>1. Same /\ unified' = unified /\ single.timer /\ single' = Fired(single)
    BY <1>6, <1>e DEF SingleTimeout
  <2>2. /\ single'.frame = single.frame + 1 /\ single'.playing = single.playing
        /\ single.playing /\ single.frame < MaxFrame
    BY <2>1, <1>d, <1>e, FiredType
  <2>3. single.playing = TRUE /\ single'.playing = TRUE
    BY <2>2, <1>c, <1>d
  <2>. QED  BY <1>a, <1>b, <1>c, <1>d, <2>1, <2>2, <2>3, SingleAdvances, UnifiedStays
<1>7. CASE SingleDrawn
  <2>1. Same /\ unified' = unified /\ single.drawing > 0 /\ single' = Drawn(single, MaxFrame)
    BY <1>7 DEF SingleDrawn
  <2>2. single'.frame = single.frame
    BY <2>1, <1>d, DrawnType
  <2>3. SingleStep
    <3>1. CASE single'.playing
      BY <1>a, <1>c, <1>d, <2>1, <2>2, <3>1, SingleStarts
    <3>2. CASE ~single'.playing
      BY <1>a, <1>c, <1>d, <2>1, <2>2, <3>2, SingleStops
    <3>. QED  BY <3>1, <3>2
  <2>. QED  BY <1>a, <2>1, <2>3, UnifiedStays
<1>8. ASSUME NEW g \in GhostSlots, GhostTimeout(g) PROVE SingleStep /\ UnifiedStep
  BY <1>8, <1>a, SingleStays, UnifiedStays DEF GhostTimeout
<1>9. ASSUME NEW g \in GhostSlots, GhostDrawn(g) PROVE SingleStep /\ UnifiedStep
  BY <1>9, <1>a, SingleStays, UnifiedStays DEF GhostDrawn
<1>10. CASE PlayUnified
  <2>1. Same /\ unified' = Played(unified, MaxFrame) /\ single' = Paused(single)
    BY <1>10 DEF PlayUnified
  <2>2. unified'.frame = unified.frame /\ single'.frame = single.frame /\ ~single'.playing
    BY <2>1, <1>d, PlayedType, PausedType
  <2>3. UnifiedStep
    <3>1. CASE unified'.playing
      BY <1>a, <1>c, <1>d, <2>1, <2>2, <3>1, UnifiedStarts
    <3>2. CASE ~unified'.playing
      BY <1>a, <1>c, <1>d, <2>1, <2>2, <3>2, UnifiedStops
    <3>. QED  BY <3>1, <3>2
  <2>. QED  BY <1>a, <1>c, <1>d, <2>1, <2>2, <2>3, SingleStops
<1>11. CASE PauseUnified
  <2>1. Same /\ unified' = Paused(unified) /\ single' = Paused(single)
    BY <1>11 DEF PauseUnified, PauseAll
  <2>2. /\ unified'.frame = unified.frame /\ ~unified'.playing
        /\ single'.frame = single.frame /\ ~single'.playing
    BY <2>1, <1>d, PausedType
  <2>. QED  BY <1>a, <1>c, <1>d, <2>1, <2>2, SingleStops, UnifiedStops
<1>12. ASSUME NEW f \in 0..MaxFrame, SeekUnified(f) PROVE SingleStep /\ UnifiedStep
  <2>1. Same /\ unified' = Sought(unified, f) /\ single' = Sought(single, f) /\ f \in Nat
    BY <1>12, <1>b DEF SeekUnified
  <2>2. /\ unified'.frame = f /\ ~unified'.playing
        /\ single'.frame = f /\ ~single'.playing
    BY <2>1, <1>d, SoughtType
  <2>. QED  BY <1>a, <1>c, <1>d, <2>1, <2>2, SingleSeeks, UnifiedSeeks
<1>13. ASSUME page.file # NoFile, NEW i \in DOMAIN Phases[page.file], ClickPhase(i)
       PROVE  SingleStep /\ UnifiedStep
  <2>. DEFINE f == Phases[page.file][i][1]
  <2>1. Same /\ unified' = Sought(unified, f) /\ single' = Sought(single, f)
    BY <1>13 DEF ClickPhase
  <2>2. f \in 0..MaxFrame
    BY <1>13, PhaseFrames
  <2>. HIDE DEF f
  <2>3. f \in Nat
    BY <2>2, <1>b
  <2>4. /\ unified'.frame = f /\ ~unified'.playing
        /\ single'.frame = f /\ ~single'.playing
    BY <2>1, <2>3, <1>d, SoughtType
  <2>. QED  BY <1>a, <1>c, <1>d, <2>1, <2>2, <2>4, SingleSeeks, UnifiedSeeks
<1>14. CASE UnifiedTimeout
  <2>1. /\ Same /\ unified.timer /\ unified' = Fired(unified)
        /\ single' = [single EXCEPT !.frame = unified'.frame]
    BY <1>14, <1>e DEF UnifiedTimeout, DrawAll
  <2>2. /\ unified'.frame = unified.frame + 1 /\ unified'.playing = unified.playing
        /\ unified.playing /\ unified.frame < MaxFrame
    BY <2>1, <1>d, <1>e, FiredType
  <2>3. unified.playing = TRUE /\ unified'.playing = TRUE
    BY <2>2, <1>c, <1>d
  <2>4. UnifiedStep
    BY <1>a, <1>b, <1>c, <1>d, <2>1, <2>2, <2>3, UnifiedAdvances
  <2>5. single'.playing = single.playing /\ single'.frame = unified'.frame
    BY <2>1, <1>d DEF PlayerRecords
  <2>6. ~single.playing
    BY <2>2 DEF Solo
  <2>7. single'.playing = FALSE
    BY <2>5, <2>6, <1>c, <1>d
  <2>8. single'.frame \in 0..MaxFrame
    BY <2>2, <2>5, <1>b, <1>c, <1>d
  <2>. QED  BY <1>a, <2>1, <2>4, <2>7, <2>8, SingleSeeks
<1>15. CASE UnifiedDrawn
  <2>1. Same /\ single' = single /\ unified.drawing > 0
    BY <1>15 DEF UnifiedDrawn
  <2>2. unified'.frame = unified.frame
    BY <1>15, <1>d, DrawnType, UndrawnType DEF UnifiedDrawn
  <2>3. UnifiedStep
    <3>1. CASE unified'.playing
      BY <1>a, <1>c, <1>d, <2>1, <2>2, <3>1, UnifiedStarts
    <3>2. CASE ~unified'.playing
      BY <1>a, <1>c, <1>d, <2>1, <2>2, <3>2, UnifiedStops
    <3>. QED  BY <3>1, <3>2
  <2>. QED  BY <1>a, <2>1, <2>3, SingleStays
<1>16. ASSUME NEW view \in Views, SelectView(view) PROVE SingleStep /\ UnifiedStep
  <2>1. Same
    BY <1>16 DEF SelectView, Typed
  <2>2. CASE view = "classic"
    <3>1. unified' = Paused(unified) /\ single' = Paused(single)
      BY <1>16, <2>2 DEF SelectView, PauseAll
    <3>2. /\ unified'.frame = unified.frame /\ ~unified'.playing
          /\ single'.frame = single.frame /\ ~single'.playing
      BY <3>1, <1>d, PausedType
    <3>. QED  BY <1>a, <1>c, <1>d, <2>1, <3>2, SingleStops, UnifiedStops
  <2>3. CASE view # "classic"
    BY <1>16, <1>a, <2>1, <2>3, SingleStays, UnifiedStays DEF SelectView
  <2>. QED  BY <2>2, <2>3
<1>17. ASSUME NEW view \in Views, OtherTab(view) PROVE SingleStep /\ UnifiedStep
  BY <1>17, <1>a, SingleStays, UnifiedStays DEF OtherTab, pageVars
<1>18. CASE UNCHANGED replayVars
  BY <1>18, <1>a, SingleStays, UnifiedStays DEF replayVars, pageVars
<1>. QED
  BY <1>1, <1>2, <1>3, <1>4, <1>5, <1>6, <1>7, <1>8, <1>9, <1>10, <1>11, <1>12, <1>13, <1>14,
     <1>15, <1>16, <1>17, <1>18 DEF ReplayNext, Single, Unified

\* While no chain of timeouts is doubled, every step of the page is, for each of the two
\* replays, a step of Playback or one that leaves it alone.
THEOREM ReplaysRefinePlayback == ReplaySpec => RefinesPlayback
<1>1. Inv /\ [ReplayNext]_replayVars => [Calm => SingleStep /\ UnifiedStep]_replayVars
  BY StepsRefine
<1>2. ReplaySpec => [][Calm => SingleStep /\ UnifiedStep]_replayVars
  BY SpecInv, <1>1, PTL DEF ReplaySpec
<1>. QED  BY <1>2 DEF RefinesPlayback
----------------------------------------------------------------------------
(***************************************************************************)
(* The page shows its file: types with their bounds, and the phase of the  *)
(* cursor.  Every chain draws one frame beyond the last at most, and the   *)
(* frame of a single replay follows the unified one.                       *)
(***************************************************************************)
\* The timeouts of a player, each of which draws a frame, and how far they can take it.
Timeouts(p) == p.strays + (IF p.timer THEN 1 ELSE 0)
Reach(p) == p.frame + Timeouts(p)

\* A ghost has a chain, and a file that bounds it.
Haunts(h) ==
  \/ h = NoGhost
  \/ /\ h.player \in PlayerRecords /\ h.file \in Files
     /\ 0 < Chains(h.player) /\ Chains(h.player) <= MaxChains
     /\ Reach(h.player) <= LastFrame[h.file] + 2 * MaxChains

\* The chains of the page are bounded, and so is what they can reach.
Bounded ==
  /\ AllChains <= MaxChains
  /\ Reach(unified) <= MaxFrame + MaxChains
  /\ Reach(single) <= MaxFrame + 2 * MaxChains
  /\ \A g \in GhostSlots : Haunts(ghosts[g])

\* Without a file nothing plays and nothing is shown.
Blank == page.file = NoFile => ~page.shown /\ Chains(single) = 0 /\ Chains(unified) = 0

Shown ==
  /\ chart \in Files \cup {NoFile}
  /\ phase \in 0..(IF page.file = NoFile THEN 0 ELSE Len(Phases[page.file]))

Fits == Bounded /\ Blank
Shows == Shown /\ PhaseFollowsCursor

\* What the operators on a player do to its counters.
LEMMA Counters ==
  ASSUME NEW p \in PlayerRecords
  PROVE  /\ Timeouts(p) \in Nat /\ Chains(p) \in Nat /\ p.frame \in Nat
         /\ p.drawing \in Nat /\ p.strays \in Nat /\ Chains(p) = Timeouts(p) + p.drawing
BY DEF Timeouts, Chains, PlayerRecords

LEMMA ScheduleCounts ==
  ASSUME NEW p \in PlayerRecords, NEW last
  PROVE  /\ Schedule(p, last).drawing = p.drawing
         /\ \/ Timeouts(Schedule(p, last)) = Timeouts(p)
            \/ ~(p.frame >= last) /\ Timeouts(Schedule(p, last)) = Timeouts(p) + 1
<1>1. CASE ~p.playing
  BY <1>1 DEF Schedule
<1>2. CASE p.playing /\ p.frame >= last
  <2>1. Schedule(p, last) = [p EXCEPT !.playing = FALSE]
    BY <1>2 DEF Schedule
  <2>. QED  BY <1>2, <2>1 DEF PlayerRecords, Timeouts
<1>3. CASE p.playing /\ ~(p.frame >= last)
  <2>. DEFINE lost == IF p.timer THEN 1 ELSE 0
              s == p.strays + lost
              q == [p EXCEPT !.timer = TRUE, !.strays = s]
  <2>1. Schedule(p, last) = q
    BY <1>3 DEF Schedule
  <2>2. s \in Nat /\ Timeouts(p) = s
    BY DEF PlayerRecords, Timeouts
  <2>. HIDE DEF s
  <2>3. q \in PlayerRecords
    BY <2>2 DEF PlayerRecords
  <2>4. q.timer = TRUE /\ q.strays = s /\ q.drawing = p.drawing
    BY DEF PlayerRecords
  <2>. HIDE DEF q
  <2>5. Timeouts(q) = s + 1
    BY <2>4 DEF Timeouts
  <2>. QED  BY <1>3, <2>1, <2>2, <2>4, <2>5
<1>. QED  BY <1>1, <1>2, <1>3

LEMMA PausedCounts ==
  ASSUME NEW p \in PlayerRecords
  PROVE  /\ Timeouts(Paused(p)) <= Timeouts(p) /\ Paused(p).drawing = p.drawing
BY DEF Paused, PlayerRecords, Timeouts

LEMMA SoughtCounts ==
  ASSUME NEW p \in PlayerRecords, NEW f \in Nat
  PROVE  /\ Timeouts(Sought(p, f)) <= Timeouts(p) /\ Sought(p, f).drawing = p.drawing
BY DEF Sought, Paused, PlayerRecords, Timeouts

LEMMA PlayedCounts ==
  ASSUME NEW p \in PlayerRecords, NEW last
  PROVE  /\ Played(p, last).drawing = p.drawing
         /\ \/ Timeouts(Played(p, last)) = Timeouts(p)
            \/ ~(p.frame >= last) /\ Timeouts(Played(p, last)) = Timeouts(p) + 1
<1>1. CASE p.playing
  BY <1>1 DEF Played
<1>2. CASE ~p.playing
  <2>. DEFINE q == [p EXCEPT !.playing = TRUE]
  <2>1. Played(p, last) = Schedule(q, last)
    BY <1>2 DEF Played
  <2>2. /\ q \in PlayerRecords /\ q.frame = p.frame /\ q.drawing = p.drawing
        /\ q.strays = p.strays /\ q.timer = p.timer
    BY DEF PlayerRecords
  <2>. HIDE DEF q
  <2>3. Timeouts(q) = Timeouts(p)
    BY <2>2 DEF Timeouts
  <2>. QED  BY <2>1, <2>2, <2>3, ScheduleCounts
<1>. QED  BY <1>1, <1>2

LEMMA FiredCounts ==
  ASSUME NEW p \in PlayerRecords, p.timer
  PROVE  Timeouts(Fired(p)) = Timeouts(p) - 1 /\ Fired(p).drawing = p.drawing + 1
<1>. DEFINE f == p.frame + 1
            d == p.drawing + 1
<1>1. Fired(p) = [p EXCEPT !.timer = FALSE, !.frame = f, !.drawing = d]
  BY DEF Fired
<1>. HIDE DEF f
<1>2. d \in Nat /\ p.strays \in Nat
  BY DEF PlayerRecords
<1>. HIDE DEF d
<1>3. Fired(p).timer = FALSE /\ Fired(p).strays = p.strays /\ Fired(p).drawing = d
  BY <1>1 DEF PlayerRecords
<1>. QED  BY <1>2, <1>3 DEF Timeouts, d

LEMMA StrayFiredCounts ==
  ASSUME NEW p \in PlayerRecords, p.strays > 0
  PROVE  Timeouts(StrayFired(p)) = Timeouts(p) - 1 /\ StrayFired(p).drawing = p.drawing + 1
<1>. DEFINE s == p.strays - 1
            f == p.frame + 1
            d == p.drawing + 1
<1>1. StrayFired(p) = [p EXCEPT !.strays = s, !.frame = f, !.drawing = d]
  BY DEF StrayFired
<1>2. s \in Nat /\ p.strays \in Nat /\ p.timer \in BOOLEAN
  BY DEF PlayerRecords
<1>. HIDE DEF f, d, s
<1>3. StrayFired(p).timer = p.timer /\ StrayFired(p).strays = s /\ StrayFired(p).drawing = d
  BY <1>1 DEF PlayerRecords
<1>4. Timeouts(StrayFired(p)) = s + (IF p.timer THEN 1 ELSE 0)
  BY <1>3 DEF Timeouts
<1>5. Timeouts(p) = p.strays + (IF p.timer THEN 1 ELSE 0)
  BY DEF Timeouts
<1>6. s = p.strays - 1
  BY DEF s
<1>. QED  BY <1>2, <1>3, <1>4, <1>5, <1>6 DEF d

LEMMA UndrawnCounts ==
  ASSUME NEW p \in PlayerRecords, p.drawing > 0
  PROVE  /\ Timeouts([p EXCEPT !.drawing = @ - 1]) = Timeouts(p)
         /\ [p EXCEPT !.drawing = @ - 1].drawing = p.drawing - 1
BY DEF PlayerRecords, Timeouts

LEMMA DrawnCounts ==
  ASSUME NEW p \in PlayerRecords, NEW last, p.drawing > 0
  PROVE  /\ Drawn(p, last).drawing = p.drawing - 1
         /\ \/ Timeouts(Drawn(p, last)) = Timeouts(p)
            \/ ~(p.frame >= last) /\ Timeouts(Drawn(p, last)) = Timeouts(p) + 1
<1>. DEFINE q == [p EXCEPT !.drawing = @ - 1]
<1>1. Drawn(p, last) = Schedule(q, last)
  BY DEF Drawn
<1>2. /\ q \in PlayerRecords /\ q.frame = p.frame
      /\ Timeouts(q) = Timeouts(p) /\ q.drawing = p.drawing - 1
  BY UndrawnType, UndrawnCounts
<1>. HIDE DEF q
<1>. QED  BY <1>1, <1>2, ScheduleCounts
\* A step of a player that starts no chain.  It goes no further than it could, or than
\* its chains take it from the last frame.
Tame(p, q, last) ==
  /\ q \in PlayerRecords /\ Chains(q) <= Chains(p)
  /\ Reach(q) <= Reach(p) \/ Reach(q) <= last + Chains(p)

LEMMA PausedTame ==
  ASSUME NEW p \in PlayerRecords, NEW last
  PROVE  Tame(p, Paused(p), last)
<1>1. Paused(p) \in PlayerRecords /\ Paused(p).frame = p.frame
  BY PausedType
<1>2. Timeouts(Paused(p)) <= Timeouts(p) /\ Paused(p).drawing = p.drawing
  BY PausedCounts
<1>. QED  BY <1>1, <1>2, Counters DEF Tame, Reach

LEMMA SoughtTame ==
  ASSUME NEW p \in PlayerRecords, NEW last \in Nat, NEW f \in 0..last
  PROVE  Tame(p, Sought(p, f), last)
<1>1. Sought(p, f) \in PlayerRecords /\ Sought(p, f).frame = f
  BY SoughtType
<1>2. Timeouts(Sought(p, f)) <= Timeouts(p) /\ Sought(p, f).drawing = p.drawing
  BY SoughtCounts
<1>. QED  BY <1>1, <1>2, Counters DEF Tame, Reach

LEMMA DrawnTame ==
  ASSUME NEW p \in PlayerRecords, NEW last \in Nat, p.drawing > 0
  PROVE  Tame(p, Drawn(p, last), last)
<1>. DEFINE q == Drawn(p, last)
<1>1. q \in PlayerRecords /\ q.frame = p.frame
  BY DrawnType
<1>2. /\ q.drawing = p.drawing - 1
      /\ \/ Timeouts(q) = Timeouts(p)
         \/ ~(p.frame >= last) /\ Timeouts(q) = Timeouts(p) + 1
  BY DrawnCounts
<1>. HIDE DEF q
<1>3. /\ Timeouts(q) \in Nat /\ Chains(q) = Timeouts(q) + q.drawing
      /\ Timeouts(p) \in Nat /\ Chains(p) = Timeouts(p) + p.drawing
      /\ p.frame \in Nat /\ p.drawing \in Nat
  BY <1>1, Counters
<1>4. Reach(q) = q.frame + Timeouts(q) /\ Reach(p) = p.frame + Timeouts(p)
  BY DEF Reach
<1>5. Tame(p, q, last)
  BY <1>1, <1>2, <1>3, <1>4 DEF Tame
<1>. QED  BY <1>1, <1>5 DEF q

LEMMA UndrawnTame ==
  ASSUME NEW p \in PlayerRecords, NEW last, p.drawing > 0
  PROVE  Tame(p, [p EXCEPT !.drawing = @ - 1], last)
<1>. DEFINE q == [p EXCEPT !.drawing = @ - 1]
<1>1. q \in PlayerRecords /\ q.frame = p.frame
  BY UndrawnType
<1>2. Timeouts(q) = Timeouts(p) /\ q.drawing = p.drawing - 1
  BY UndrawnCounts
<1>. HIDE DEF q
<1>3. /\ Timeouts(q) \in Nat /\ Chains(q) = Timeouts(q) + q.drawing
      /\ Timeouts(p) \in Nat /\ Chains(p) = Timeouts(p) + p.drawing
      /\ p.frame \in Nat /\ p.drawing \in Nat
  BY <1>1, Counters
<1>4. Reach(q) = q.frame + Timeouts(q) /\ Reach(p) = p.frame + Timeouts(p)
  BY DEF Reach
<1>5. Tame(p, q, last)
  BY <1>1, <1>2, <1>3, <1>4 DEF Tame
<1>. QED  BY <1>1, <1>5 DEF q

\* A timeout that fires spends one of the frames that the player can reach.
LEMMA FiredTame ==
  ASSUME NEW p \in PlayerRecords, NEW last, p.timer
  PROVE  Tame(p, Fired(p), last) /\ Chains(Fired(p)) = Chains(p) /\ Reach(Fired(p)) = Reach(p)
<1>. DEFINE q == Fired(p)
<1>1. q \in PlayerRecords /\ q.frame = p.frame + 1
  BY FiredType
<1>2. Timeouts(q) = Timeouts(p) - 1 /\ q.drawing = p.drawing + 1
  BY FiredCounts
<1>. HIDE DEF q
<1>3. /\ Timeouts(q) \in Nat /\ Chains(q) = Timeouts(q) + q.drawing
      /\ Timeouts(p) \in Nat /\ Chains(p) = Timeouts(p) + p.drawing
      /\ p.frame \in Nat /\ p.drawing \in Nat
  BY <1>1, Counters
<1>4. Reach(q) = q.frame + Timeouts(q) /\ Reach(p) = p.frame + Timeouts(p)
  BY DEF Reach
<1>5. Tame(p, q, last) /\ Chains(q) = Chains(p) /\ Reach(q) = Reach(p)
  BY <1>1, <1>2, <1>3, <1>4 DEF Tame
<1>. QED  BY <1>1, <1>5 DEF q

LEMMA StrayFiredTame ==
  ASSUME NEW p \in PlayerRecords, NEW last, p.strays > 0
  PROVE  /\ Tame(p, StrayFired(p), last) /\ Chains(StrayFired(p)) = Chains(p)
         /\ Reach(StrayFired(p)) = Reach(p)
<1>. DEFINE q == StrayFired(p)
<1>1. q \in PlayerRecords /\ q.frame = p.frame + 1
  BY StrayFiredType
<1>2. Timeouts(q) = Timeouts(p) - 1 /\ q.drawing = p.drawing + 1
  BY StrayFiredCounts
<1>. HIDE DEF q
<1>3. /\ Timeouts(q) \in Nat /\ Chains(q) = Timeouts(q) + q.drawing
      /\ Timeouts(p) \in Nat /\ Chains(p) = Timeouts(p) + p.drawing
      /\ p.frame \in Nat /\ p.drawing \in Nat
  BY <1>1, Counters
<1>4. Reach(q) = q.frame + Timeouts(q) /\ Reach(p) = p.frame + Timeouts(p)
  BY DEF Reach
<1>5. Tame(p, q, last) /\ Chains(q) = Chains(p) /\ Reach(q) = Reach(p)
  BY <1>1, <1>2, <1>3, <1>4 DEF Tame
<1>. QED  BY <1>1, <1>5 DEF q

LEMMA StaysTame ==
  ASSUME NEW p \in PlayerRecords, NEW last
  PROVE  Tame(p, p, last)
BY Counters DEF Tame, Reach

\* Play starts one chain.
LEMMA PlayedCounted ==
  ASSUME NEW p \in PlayerRecords, NEW last \in Nat
  PROVE  /\ Played(p, last) \in PlayerRecords
         /\ Chains(Played(p, last)) <= Chains(p) + 1
         /\ \/ Reach(Played(p, last)) <= Reach(p)
            \/ Reach(Played(p, last)) <= last + Chains(p)
<1>. DEFINE q == Played(p, last)
<1>1. q \in PlayerRecords /\ q.frame = p.frame
  BY PlayedType
<1>2. /\ q.drawing = p.drawing
      /\ \/ Timeouts(q) = Timeouts(p)
         \/ ~(p.frame >= last) /\ Timeouts(q) = Timeouts(p) + 1
  BY PlayedCounts
<1>. HIDE DEF q
<1>3. /\ Timeouts(q) \in Nat /\ Chains(q) = Timeouts(q) + q.drawing
      /\ Timeouts(p) \in Nat /\ Chains(p) = Timeouts(p) + p.drawing
      /\ p.frame \in Nat /\ p.drawing \in Nat
  BY <1>1, Counters
<1>4. Reach(q) = q.frame + Timeouts(q) /\ Reach(p) = p.frame + Timeouts(p)
  BY DEF Reach
<1>5. /\ Chains(q) <= Chains(p) + 1
      /\ Reach(q) <= Reach(p) \/ Reach(q) <= last + Chains(p)
  BY <1>1, <1>2, <1>3, <1>4
<1>. QED  BY <1>1, <1>5 DEF q

----------------------------------------------------------------------------
\* The ghosts are finitely many.
LEMMA Ghosts ==
  /\ IsFiniteSet(Haunting) /\ Cardinality(Haunting) \in Nat
  /\ Haunting = {} <=> Cardinality(Haunting) = 0
<1>1. IsFiniteSet(GhostSlots)
  <2>1. 1 \in Int /\ MaxChains \in Int
    BY ReplayAssumption
  <2>. QED  BY <2>1, FS_Interval DEF GhostSlots
<1>2. Haunting \subseteq GhostSlots
  BY DEF Haunting
<1>3. IsFiniteSet(Haunting)
  BY <1>1, <1>2, FS_Subset
<1>. QED  BY <1>3, FS_CardinalityType, FS_EmptySet

LEMMA Numbers ==
  ASSUME Inv
  PROVE  /\ MaxFrame \in Nat /\ MaxChains \in Nat /\ Cardinality(Haunting) \in Nat
         /\ Chains(single) \in Nat /\ Chains(unified) \in Nat
         /\ Reach(single) \in Nat /\ Reach(unified) \in Nat
<1>1. MaxFrame \in Nat
  BY FramesAreNat DEF Inv
<1>2. single \in PlayerRecords /\ unified \in PlayerRecords
  BY DEF Inv, Typed
<1>3. \A p \in PlayerRecords : Chains(p) \in Nat /\ Reach(p) \in Nat
  BY Counters DEF Reach
<1>. QED  BY <1>1, <1>2, <1>3, Ghosts, ReplayAssumption

LEMMA FitsInit == ReplayInit => Fits
<1>. SUFFICES ASSUME ReplayInit PROVE Fits
  OBVIOUS
<1>1. Chains(Idle) = 0 /\ Reach(Idle) = 0
  BY DEF Chains, Reach, Timeouts, Idle
<1>2. single = Idle /\ unified = Idle /\ page.file = NoFile /\ ~page.shown
  BY DEF ReplayInit
<1>3. \A g \in GhostSlots : ghosts[g] = NoGhost
  BY DEF ReplayInit
<1>4. Cardinality(Haunting) = 0
  BY <1>3, Ghosts DEF Haunting
<1>5. Inv
  BY InvInit
<1>6. AllChains <= MaxChains
  BY <1>1, <1>2, <1>4, ReplayAssumption DEF AllChains
<1>7. \A g \in GhostSlots : Haunts(ghosts[g])
  BY <1>3 DEF Haunts
<1>8. Reach(unified) <= MaxFrame + MaxChains /\ Reach(single) <= MaxFrame + 2 * MaxChains
  BY <1>1, <1>2, <1>5, Numbers
<1>. QED  BY <1>1, <1>2, <1>6, <1>7, <1>8 DEF Fits, Bounded, Blank

\* There is a slot for a replay that is left behind, and it becomes one ghost more.
LEMMA LeftBehind ==
  ASSUME Inv, Fits, LeaveBehind
  PROVE  /\ \A g \in GhostSlots : Haunts(ghosts'[g])
         /\ Cardinality(Haunting') <= Cardinality(Haunting) + Chains(single)
         /\ Cardinality(Haunting') \in Nat
<1>. DEFINE h == [player |-> single, file |-> page.file]
<1>1. ghosts' = IF Chains(single) > 0 THEN [ghosts EXCEPT ![FreeSlot] = h] ELSE ghosts
  BY DEF LeaveBehind
<1>2. Chains(single) \in Nat /\ Cardinality(Haunting) \in Nat
  BY Numbers
<1>3. CASE ~(Chains(single) > 0)
  <2>1. ghosts' = ghosts
    BY <1>1, <1>3
  <2>2. Haunting' = Haunting
    BY <2>1 DEF Haunting
  <2>. QED  BY <1>2, <2>1, <2>2 DEF Fits, Bounded
<1>4. CASE Chains(single) > 0
  <2>1. Haunts(h)
    <3>1. single \in PlayerRecords /\ page.file \in Files /\ MaxFrame = LastFrame[page.file]
      BY <1>4 DEF Inv, Typed, Fits, Blank, MaxFrame
    <3>2. Chains(single) <= MaxChains
      BY Numbers DEF Fits, Bounded, AllChains
    <3>3. Reach(single) <= LastFrame[page.file] + 2 * MaxChains
      BY <3>1 DEF Fits, Bounded
    <3>. QED  BY <1>4, <3>1, <3>2, <3>3 DEF Haunts
  <2>2. FreeSlot \in GhostSlots /\ ghosts[FreeSlot] = NoGhost
    <3>1. Cardinality(Haunting) < MaxChains
      BY <1>4, Numbers DEF Fits, Bounded, AllChains
    <3>2. Cardinality(GhostSlots) = MaxChains
      BY FS_Interval, ReplayAssumption DEF GhostSlots
    <3>3. Haunting # GhostSlots
      BY <1>2, <3>1, <3>2, ReplayAssumption
    <3>4. \E g \in GhostSlots : ghosts[g] = NoGhost
      BY <3>3 DEF Haunting
    <3>. QED  BY <3>4 DEF FreeSlot
  <2>. DEFINE slot == FreeSlot
  <2>3. ghosts' = [ghosts EXCEPT ![slot] = h] /\ slot \in GhostSlots /\ ghosts[slot] = NoGhost
    BY <1>1, <1>4, <2>2
  <2>. HIDE DEF slot, h
  <2>4. ghosts'[slot] = h /\ \A g \in GhostSlots : g # slot => ghosts'[g] = ghosts[g]
    BY <2>3 DEF Inv, Typed
  <2>5. \A g \in GhostSlots : Haunts(ghosts'[g])
    BY <2>1, <2>4 DEF Fits, Bounded
  <2>6. Haunting' \subseteq Haunting \cup {slot}
    BY <2>3, <2>4 DEF Haunting
  <2>7. slot \notin Haunting
    BY <2>3 DEF Haunting
  <2>8. /\ Cardinality(Haunting \cup {slot}) = Cardinality(Haunting) + 1
        /\ IsFiniteSet(Haunting \cup {slot})
    BY <2>7, Ghosts, FS_AddElement
  <2>9. Cardinality(Haunting') <= Cardinality(Haunting) + 1
    BY <2>6, <2>8, FS_Subset
  <2>10. Cardinality(Haunting') \in Nat
    BY <2>6, <2>8, FS_Subset, FS_CardinalityType
  <2>. QED  BY <1>2, <1>4, <2>5, <2>9, <2>10
<1>. QED  BY <1>3, <1>4

\* A step of a ghost, which goes no further than its chains take it, or vanishes.
LEMMA FitsGhost ==
  ASSUME Inv, Fits, NEW g \in GhostSlots, ghosts[g] # NoGhost, NEW h, Haunts(h),
         ghosts' = [ghosts EXCEPT ![g] = h], UNCHANGED <<page, single, unified>>
  PROVE  Fits'
<1>1. ghosts'[g] = h /\ \A k \in GhostSlots : k # g => ghosts'[k] = ghosts[k]
  BY DEF Inv, Typed
<1>2. \A k \in GhostSlots : Haunts(ghosts'[k])
  BY <1>1 DEF Fits, Bounded
<1>3. Haunting' \subseteq Haunting
  BY <1>1 DEF Haunting
<1>4. Cardinality(Haunting') <= Cardinality(Haunting) /\ Cardinality(Haunting') \in Nat
  BY <1>3, Ghosts, FS_Subset, FS_CardinalityType
<1>5. MaxFrame' = MaxFrame
  BY DEF MaxFrame
<1>6. AllChains' = Chains(single) + Chains(unified) + Cardinality(Haunting')
  BY DEF AllChains
<1>7. AllChains' <= MaxChains
  BY <1>4, <1>6, Numbers DEF Fits, Bounded, AllChains
<1>8. Bounded'
  BY <1>2, <1>5, <1>7 DEF Fits, Bounded
<1>. QED  BY <1>8 DEF Fits, Blank

\* The two replays of the page are tame and the rest stays.
LEMMA FitsTame ==
  ASSUME Inv, Fits, page'.file = page.file, page'.shown => page.shown, ghosts' = ghosts,
         Tame(single, single', MaxFrame), Tame(unified, unified', MaxFrame)
  PROVE  Fits'
<1>1. MaxFrame' = MaxFrame /\ Haunting' = Haunting
  BY DEF MaxFrame, Haunting
<1>. DEFINE s == Chains(single)
            u == Chains(unified)
            g == Cardinality(Haunting)
            rs == Reach(single)
            ru == Reach(unified)
<1>2. Chains(single') \in Nat /\ Chains(unified') \in Nat /\ Reach(single') \in Nat /\ Reach(unified') \in Nat
  BY Counters DEF Tame, Reach
<1>3. Chains(single)' = Chains(single') /\ Chains(unified)' = Chains(unified')
  OBVIOUS
<1>4. AllChains' = Chains(single') + Chains(unified') + g
  BY <1>1 DEF AllChains
<1>5. s + u + g <= MaxChains /\ ru <= MaxFrame + MaxChains /\ rs <= MaxFrame + 2 * MaxChains
  BY DEF Fits, Bounded, AllChains
<1>6. /\ s \in Nat /\ u \in Nat /\ g \in Nat /\ rs \in Nat /\ ru \in Nat
      /\ MaxFrame \in Nat /\ MaxChains \in Nat
  BY Numbers
<1>7. /\ Chains(single') <= s /\ (Reach(single') <= rs \/ Reach(single') <= MaxFrame + s)
      /\ Chains(unified') <= u /\ (Reach(unified') <= ru \/ Reach(unified') <= MaxFrame + u)
  BY DEF Tame
<1>. HIDE DEF s, u, g, rs, ru
<1>8. Chains(single') + Chains(unified') + g <= MaxChains
  BY <1>2, <1>5, <1>6, <1>7
<1>9. Reach(single') <= MaxFrame + 2 * MaxChains /\ Reach(unified') <= MaxFrame + MaxChains
  BY <1>2, <1>5, <1>6, <1>7
<1>10. Bounded'
  BY <1>1, <1>4, <1>8, <1>9 DEF Fits, Bounded
<1>11. page.file = NoFile => s = 0 /\ u = 0
  BY DEF Fits, Blank, s, u
<1>12. page.file = NoFile => Chains(single') = 0 /\ Chains(unified') = 0
  BY <1>2, <1>6, <1>7, <1>11
<1>13. Blank'
  BY <1>12 DEF Fits, Blank
<1>. QED  BY <1>10, <1>13 DEF Fits
\* What a step of the replays must keep, in numbers; the ghosts stay.
LEMMA FitsCounted ==
  ASSUME Inv, Fits, page'.file = page.file, page'.shown => page.shown, ghosts' = ghosts,
         Chains(single') + Chains(unified') + Cardinality(Haunting) <= MaxChains,
         Reach(unified') <= MaxFrame + MaxChains, Reach(single') <= MaxFrame + 2 * MaxChains,
         page.file = NoFile => Chains(single') = 0 /\ Chains(unified') = 0
  PROVE  Fits'
<1>1. MaxFrame' = MaxFrame /\ Haunting' = Haunting
  BY DEF MaxFrame, Haunting
<1>2. AllChains' = Chains(single') + Chains(unified') + Cardinality(Haunting)
  BY <1>1 DEF AllChains
<1>3. Bounded'
  BY <1>1, <1>2 DEF Fits, Bounded
<1>4. Blank'
  BY DEF Fits, Blank
<1>. QED  BY <1>3, <1>4 DEF Fits

\* One step per action.
LEMMA FitsNext == Inv /\ Fits /\ [ReplayNext]_replayVars => Fits'
<1>. SUFFICES ASSUME Inv, Fits, [ReplayNext]_replayVars PROVE Fits'
  OBVIOUS
<1>a. single \in PlayerRecords /\ unified \in PlayerRecords
  BY DEF Inv, Typed
<1>b. /\ MaxFrame \in Nat /\ MaxChains \in Nat /\ Cardinality(Haunting) \in Nat
      /\ Chains(single) \in Nat /\ Chains(unified) \in Nat
      /\ Reach(single) \in Nat /\ Reach(unified) \in Nat
  BY Numbers
<1>c. Tame(single, single, MaxFrame) /\ Tame(unified, unified, MaxFrame)
  BY <1>a, StaysTame
<1>d. /\ Chains(single) + Chains(unified) + Cardinality(Haunting) <= MaxChains
      /\ Reach(unified) <= MaxFrame + MaxChains /\ Reach(single) <= MaxFrame + 2 * MaxChains
  BY DEF Fits, Bounded, AllChains
<1>e. Chains(Idle) = 0 /\ Reach(Idle) = 0
  BY DEF Chains, Reach, Timeouts, Idle
<1>1. ASSUME NEW f \in Files, Load(f) PROVE Fits'
  <2>. DEFINE q == Sought(unified, LastFrame[f])
  <2>1. LastFrame[f] \in Nat /\ f # NoFile
    BY ReplayAssumption
  <2>2. /\ q \in PlayerRecords /\ Chains(q) <= Chains(unified)
        /\ Reach(q) <= LastFrame[f] + Chains(unified)
    <3>1. q \in PlayerRecords /\ q.frame = LastFrame[f]
      BY <1>a, <2>1, SoughtType
    <3>2. Timeouts(q) <= Timeouts(unified) /\ q.drawing = unified.drawing
      BY <1>a, <2>1, SoughtCounts
    <3>. HIDE DEF q
    <3>3. /\ Timeouts(q) \in Nat /\ Chains(q) = Timeouts(q) + q.drawing
          /\ Timeouts(unified) \in Nat /\ Chains(unified) = Timeouts(unified) + unified.drawing
          /\ unified.drawing \in Nat
      BY <1>a, <3>1, Counters
    <3>4. Reach(q) = LastFrame[f] + Timeouts(q)
      BY <3>1 DEF Reach
    <3>. QED  BY <2>1, <3>1, <3>2, <3>3, <3>4
  <2>3. page'.file = f /\ unified' = q /\ single' = Idle /\ LeaveBehind
    BY <1>1 DEF Load
  <2>4. MaxFrame' = LastFrame[f]
    BY <2>1, <2>3 DEF MaxFrame
  <2>. HIDE DEF q
  <2>5. Chains(q) \in Nat /\ Reach(q) \in Nat
    BY <2>2, Counters DEF Reach
  <2>6. /\ \A g \in GhostSlots : Haunts(ghosts'[g])
        /\ Cardinality(Haunting') <= Cardinality(Haunting) + Chains(single)
        /\ Cardinality(Haunting') \in Nat
    BY <2>3, LeftBehind
  <2>9. AllChains' <= MaxChains
    <3>1. AllChains' = 0 + Chains(q) + Cardinality(Haunting')
      BY <2>3, <1>e DEF AllChains
    <3>. QED  BY <3>1, <1>b, <1>d, <2>2, <2>5, <2>6
  <2>10. Reach(unified') <= MaxFrame' + MaxChains
    <3>1. Reach(q) <= LastFrame[f] + MaxChains
      BY <1>b, <1>d, <2>1, <2>2, <2>5
    <3>. QED  BY <2>3, <2>4, <3>1
  <2>11. Reach(single') <= MaxFrame' + 2 * MaxChains
    <3>1. 0 <= LastFrame[f] + 2 * MaxChains
      BY <1>b, <2>1
    <3>. QED  BY <1>e, <2>3, <2>4, <3>1
  <2>12. Bounded'
    BY <2>6, <2>9, <2>10, <2>11 DEF Bounded
  <2>13. Blank'
    BY <2>1, <2>3 DEF Blank
  <2>. QED  BY <2>12, <2>13 DEF Fits
<1>2. CASE Reject
  <2>1. page'.file = page.file /\ page'.shown = FALSE
    BY <1>2 DEF Reject, Inv, Typed
  <2>. QED  BY <1>2, <1>c, <2>1, FitsTame DEF Reject
<1>3. CASE PlaySingle
  <2>. DEFINE q == Played(single, MaxFrame)
  <2>1. /\ page' = page /\ unified' = unified /\ ghosts' = ghosts /\ single' = q
        /\ page.shown /\ AllChains < MaxChains
    BY <1>3 DEF PlaySingle, ControlsSingle
  <2>2. /\ q \in PlayerRecords /\ Chains(q) <= Chains(single) + 1
        /\ Reach(q) <= Reach(single) \/ Reach(q) <= MaxFrame + Chains(single)
    BY <1>a, <1>b, PlayedCounted
  <2>. HIDE DEF q
  <2>3. Chains(q) \in Nat /\ Reach(q) \in Nat
    BY <2>2, Counters DEF Reach
  <2>4. Chains(single) + Chains(unified) + Cardinality(Haunting) < MaxChains
    BY <2>1 DEF AllChains
  <2>5. /\ Chains(q) + Chains(unified) + Cardinality(Haunting) <= MaxChains
        /\ Reach(q) <= MaxFrame + 2 * MaxChains
    BY <1>b, <1>d, <2>2, <2>3, <2>4
  <2>6. page.file # NoFile
    BY <2>1 DEF Fits, Blank
  <2>. QED  BY <1>d, <2>1, <2>5, <2>6, FitsCounted
<1>4. CASE PauseSingle
  <2>1. Tame(single, single', MaxFrame)
    BY <1>4, <1>a, PausedTame DEF PauseSingle
  <2>. QED  BY <1>4, <1>c, <2>1, FitsTame DEF PauseSingle
<1>5. ASSUME NEW f \in 0..MaxFrame, SeekSingle(f) PROVE Fits'
  <2>1. Tame(single, single', MaxFrame)
    BY <1>5, <1>a, <1>b, SoughtTame DEF SeekSingle
  <2>. QED  BY <1>5, <1>c, <2>1, FitsTame DEF SeekSingle
<1>6. CASE SingleTimeout
  <2>1. Tame(single, single', MaxFrame)
    BY <1>6, <1>a, FiredTame, StrayFiredTame DEF SingleTimeout
  <2>. QED  BY <1>6, <1>c, <2>1, FitsTame DEF SingleTimeout
<1>7. CASE SingleDrawn
  <2>1. Tame(single, single', MaxFrame)
    BY <1>7, <1>a, <1>b, DrawnTame DEF SingleDrawn
  <2>. QED  BY <1>7, <1>c, <2>1, FitsTame DEF SingleDrawn
<1>8. ASSUME NEW g \in GhostSlots, GhostTimeout(g) PROVE Fits'
  <2>. DEFINE p == ghosts[g].player
              f == ghosts[g].file
  <2>1. PICK q \in PlayerRecords :
          /\ ghosts' = [ghosts EXCEPT ![g] = [player |-> q, file |-> f]]
          /\ \/ p.timer /\ q = Fired(p)
             \/ p.strays > 0 /\ q = StrayFired(p)
    BY <1>8, GhostFires DEF Inv
  <2>2. ghosts[g] # NoGhost
    BY <1>8 DEF GhostTimeout, NoGhost, Idle
  <2>3. /\ p \in PlayerRecords /\ f \in Files /\ 0 < Chains(p) /\ Chains(p) <= MaxChains
        /\ Reach(p) <= LastFrame[f] + 2 * MaxChains
    BY <2>2 DEF Fits, Bounded, Haunts
  <2>4. Chains(q) = Chains(p) /\ Reach(q) = Reach(p)
    BY <2>1, <2>3, FiredTame, StrayFiredTame
  <2>5. Haunts([player |-> q, file |-> f])
    BY <2>3, <2>4 DEF Haunts
  <2>. QED  BY <1>8, <2>1, <2>2, <2>5, FitsGhost DEF GhostTimeout
<1>9. ASSUME NEW g \in GhostSlots, GhostDrawn(g) PROVE Fits'
  <2>. DEFINE p == ghosts[g].player
              f == ghosts[g].file
              q == Drawn(p, LastFrame[f])
              h == IF Chains(q) = 0 THEN NoGhost ELSE [player |-> q, file |-> f]
  <2>1. p.drawing > 0 /\ ghosts' = [ghosts EXCEPT ![g] = h]
    BY <1>9 DEF GhostDrawn, Inv, Typed
  <2>2. ghosts[g] # NoGhost
    BY <2>1 DEF NoGhost, Idle
  <2>3. /\ p \in PlayerRecords /\ f \in Files /\ 0 < Chains(p) /\ Chains(p) <= MaxChains
        /\ Reach(p) <= LastFrame[f] + 2 * MaxChains /\ LastFrame[f] \in Nat
    BY <2>2, ReplayAssumption DEF Fits, Bounded, Haunts
  <2>4. Tame(p, q, LastFrame[f])
    BY <2>1, <2>3, DrawnTame
  <2>. HIDE DEF p, f, q
  <2>5. /\ q \in PlayerRecords /\ Chains(q) <= Chains(p)
        /\ Reach(q) <= Reach(p) \/ Reach(q) <= LastFrame[f] + Chains(p)
    BY <2>4 DEF Tame
  <2>6. Chains(q) \in Nat /\ Reach(q) \in Nat /\ Chains(p) \in Nat /\ Reach(p) \in Nat
    BY <2>3, <2>5, Counters DEF Reach
  <2>7. Chains(q) <= MaxChains /\ Reach(q) <= LastFrame[f] + 2 * MaxChains
    BY <1>b, <2>3, <2>5, <2>6
  <2>8. Haunts(h)
    BY <2>3, <2>5, <2>6, <2>7 DEF Haunts
  <2>. HIDE DEF h
  <2>. QED  BY <1>9, <2>1, <2>2, <2>8, FitsGhost DEF GhostDrawn
<1>10. CASE PlayUnified
  <2>. DEFINE q == Played(unified, MaxFrame)
  <2>1. /\ page' = page /\ single' = Paused(single) /\ ghosts' = ghosts /\ unified' = q
        /\ page.shown /\ AllChains < MaxChains
    BY <1>10 DEF PlayUnified, ControlsUnified
  <2>2. /\ q \in PlayerRecords /\ Chains(q) <= Chains(unified) + 1
        /\ Reach(q) <= Reach(unified) \/ Reach(q) <= MaxFrame + Chains(unified)
    BY <1>a, <1>b, PlayedCounted
  <2>3. Tame(single, single', MaxFrame)
    BY <1>a, <2>1, PausedTame
  <2>. HIDE DEF q
  <2>4. /\ Chains(q) \in Nat /\ Reach(q) \in Nat
        /\ Chains(single') \in Nat /\ Reach(single') \in Nat
    BY <2>2, <2>3, Counters DEF Reach, Tame
  <2>5. Chains(single) + Chains(unified) + Cardinality(Haunting) < MaxChains
    BY <2>1 DEF AllChains
  <2>6. /\ Chains(single') <= Chains(single)
        /\ Reach(single') <= Reach(single) \/ Reach(single') <= MaxFrame + Chains(single)
    BY <2>3 DEF Tame
  <2>7. /\ Chains(single') + Chains(q) + Cardinality(Haunting) <= MaxChains
        /\ Reach(q) <= MaxFrame + MaxChains /\ Reach(single') <= MaxFrame + 2 * MaxChains
    BY <1>b, <1>d, <2>2, <2>4, <2>5, <2>6
  <2>8. page.file # NoFile
    BY <2>1 DEF Fits, Blank
  <2>. QED  BY <2>1, <2>7, <2>8, FitsCounted
<1>11. CASE PauseUnified
  <2>1. Tame(single, single', MaxFrame) /\ Tame(unified, unified', MaxFrame)
    BY <1>11, <1>a, PausedTame DEF PauseUnified, PauseAll
  <2>. QED  BY <1>11, <2>1, FitsTame DEF PauseUnified
<1>12. ASSUME NEW f \in 0..MaxFrame, SeekUnified(f) PROVE Fits'
  <2>1. Tame(single, single', MaxFrame) /\ Tame(unified, unified', MaxFrame)
    BY <1>12, <1>a, <1>b, SoughtTame DEF SeekUnified
  <2>. QED  BY <1>12, <2>1, FitsTame DEF SeekUnified
<1>13. ASSUME page.file # NoFile, NEW i \in DOMAIN Phases[page.file], ClickPhase(i) PROVE Fits'
  <2>. DEFINE f == Phases[page.file][i][1]
  <2>1. f \in 0..MaxFrame
    BY <1>13, PhaseFrames DEF Inv
  <2>2. unified' = Sought(unified, f) /\ single' = Sought(single, f)
    BY <1>13 DEF ClickPhase
  <2>. HIDE DEF f
  <2>3. Tame(single, single', MaxFrame) /\ Tame(unified, unified', MaxFrame)
    BY <1>a, <1>b, <2>1, <2>2, SoughtTame
  <2>. QED  BY <1>13, <2>3, FitsTame DEF ClickPhase
<1>14. CASE UnifiedTimeout
  <2>1. /\ unified' \in PlayerRecords /\ Chains(unified') = Chains(unified)
        /\ Reach(unified') = Reach(unified)
    BY <1>14, <1>a, FiredTame, StrayFiredTame, FiredType, StrayFiredType DEF UnifiedTimeout
  <2>2. /\ page' = page /\ ghosts' = ghosts
        /\ single' = [single EXCEPT !.frame = unified'.frame]
    BY <1>14 DEF UnifiedTimeout, DrawAll
  <2>3. unified'.frame \in Nat /\ Timeouts(unified') \in Nat
    BY <2>1, Counters
  <2>4. /\ single'.frame = unified'.frame /\ single'.timer = single.timer
        /\ single'.strays = single.strays /\ single'.drawing = single.drawing
    BY <1>a, <2>2 DEF PlayerRecords
  <2>5. Timeouts(single') = Timeouts(single) /\ Chains(single') = Chains(single)
    BY <2>4 DEF Timeouts, Chains
  <2>6. Reach(single') = unified'.frame + Timeouts(single)
    BY <2>4, <2>5 DEF Reach
  <2>7. Reach(unified') = unified'.frame + Timeouts(unified')
    BY DEF Reach
  <2>8. Timeouts(single) \in Nat /\ Timeouts(single) <= Chains(single)
    BY <1>a, Counters
  <2>9. Reach(single') <= MaxFrame + 2 * MaxChains
    BY <1>b, <1>d, <2>1, <2>3, <2>6, <2>7, <2>8
  <2>10. Chains(single') + Chains(unified') + Cardinality(Haunting) <= MaxChains
    BY <1>d, <2>1, <2>5
  <2>11. Reach(unified') <= MaxFrame + MaxChains
    BY <1>d, <2>1
  <2>12. page.file = NoFile => Chains(single') = 0 /\ Chains(unified') = 0
    BY <2>1, <2>5 DEF Fits, Blank
  <2>. QED  BY <2>2, <2>9, <2>10, <2>11, <2>12, FitsCounted
<1>15. CASE UnifiedDrawn
  <2>1. Tame(unified, unified', MaxFrame)
    BY <1>15, <1>a, <1>b, DrawnTame, UndrawnTame DEF UnifiedDrawn
  <2>. QED  BY <1>15, <1>c, <2>1, FitsTame DEF UnifiedDrawn
<1>16. ASSUME NEW view \in Views, SelectView(view) PROVE Fits'
  <2>1. Tame(single, single', MaxFrame) /\ Tame(unified, unified', MaxFrame)
    BY <1>16, <1>a, <1>c, PausedTame DEF SelectView, PauseAll
  <2>2. page'.file = page.file /\ page'.shown = page.shown
    BY <1>16 DEF SelectView, Inv, Typed
  <2>. QED  BY <1>16, <2>1, <2>2, FitsTame DEF SelectView
<1>17. ASSUME NEW view \in Views, OtherTab(view) PROVE Fits'
  BY <1>17, <1>c, FitsTame DEF OtherTab, pageVars
<1>18. CASE UNCHANGED replayVars
  BY <1>18, <1>c, FitsTame DEF replayVars, pageVars
<1>. QED
  BY <1>1, <1>2, <1>3, <1>4, <1>5, <1>6, <1>7, <1>8, <1>9, <1>10, <1>11, <1>12, <1>13, <1>14,
     <1>15, <1>16, <1>17, <1>18 DEF ReplayNext, Single, Unified
----------------------------------------------------------------------------
Cursor(f, frame) == IF frame > LastFrame[f] THEN LastFrame[f] ELSE frame

\* The phase selected is one of the file, and it contains the cursor if any does.
Selected(f, frame, i) ==
  /\ i \in 0..Len(Phases[f])
  /\ (\E j \in DOMAIN Phases[f] : Within(f, j, Cursor(f, frame)))
       => i # 0 /\ Within(f, i, Cursor(f, frame))

LEMMA PhaseOfSelects ==
  ASSUME NEW f \in Files, NEW frame \in Nat, NEW i \in 0..Len(Phases[f])
  PROVE  Selected(f, frame, PhaseOf(f, frame, i))
<1>. DEFINE c == Cursor(f, frame)
            I == {j \in 1..Len(Phases[f]) : Phases[f][j][1] <= c /\ c <= Phases[f][j][2]}
            first == IF I # {} THEN Min(I) ELSE 0
<1>1. PhaseOf(f, frame, i) = IF first = 0 THEN i ELSE first
  BY DEF PhaseOf, SelectInSeq, Cursor
<1>2. Phases[f] \in Seq(Nat \X Nat)
  BY ReplayAssumption
<1>3. DOMAIN Phases[f] = 1..Len(Phases[f]) /\ Len(Phases[f]) \in Nat
  BY <1>2
<1>4. I \subseteq Nat
  BY <1>3
<1>5. \A j \in DOMAIN Phases[f] : Within(f, j, c) <=> j \in I
  BY <1>3 DEF Within
<1>6. I # {} => Min(I) \in I
  <2>. HIDE DEF I
  <2>. QED  BY <1>4, MinOfNaturals
<1>7. CASE I = {}
  <2>1. PhaseOf(f, frame, i) = i
    BY <1>1, <1>7
  <2>2. ~(\E j \in DOMAIN Phases[f] : Within(f, j, c))
    BY <1>5, <1>7
  <2>. QED  BY <2>1, <2>2 DEF Selected
<1>8. CASE I # {}
  <2>. DEFINE m == Min(I)
  <2>1. m \in I
    BY <1>6, <1>8
  <2>2. m \in 1..Len(Phases[f]) /\ m # 0
    BY <1>3, <2>1
  <2>3. PhaseOf(f, frame, i) = m
    BY <1>1, <1>8, <2>2
  <2>4. Within(f, m, c)
    BY <1>3, <1>5, <2>1, <2>2
  <2>5. m \in 0..Len(Phases[f])
    BY <1>3, <2>2
  <2>. HIDE DEF m
  <2>. QED  BY <2>2, <2>3, <2>4, <2>5 DEF Selected
<1>. QED  BY <1>7, <1>8

\* The page without a file selects nothing; with one, what the cursor is in.
LEMMA ShowsAsSelected ==
  ASSUME Inv
  PROVE  Shows <=> /\ chart \in Files \cup {NoFile}
                   /\ page.file = NoFile => phase = 0
                   /\ page.file # NoFile => Selected(page.file, unified.frame, phase)
<1>1. page.file # NoFile => MaxFrame = LastFrame[page.file]
  BY DEF MaxFrame
<1>2. phase \in 0..0 <=> phase = 0
  OBVIOUS
<1>. QED  BY <1>1, <1>2 DEF Shows, Shown, PhaseFollowsCursor, Selected, Cursor

LEMMA ShowsInit == ReplayInit => Shows
<1>. SUFFICES ASSUME ReplayInit PROVE Shows
  OBVIOUS
<1>1. Inv
  BY InvInit
<1>. QED  BY <1>1, ShowsAsSelected DEF ReplayInit

\* A step that moves neither the cursor nor the selection.
LEMMA ShowsStill ==
  ASSUME Inv, Inv', Shows, chart' \in Files \cup {NoFile},
         page'.file = page.file, unified'.frame = unified.frame, phase' = phase
  PROVE  Shows'
<1>1. /\ page.file = NoFile => phase = 0
      /\ page.file # NoFile => Selected(page.file, unified.frame, phase)
  BY ShowsAsSelected
<1>2. /\ page'.file = NoFile => phase' = 0
      /\ page'.file # NoFile => Selected(page'.file, unified'.frame, phase')
  BY <1>1
<1>3. MaxFrame' = MaxFrame
  BY DEF MaxFrame
<1>4. (phase \in 0..(IF page.file = NoFile THEN 0 ELSE Len(Phases[page.file])))'
  BY DEF Shows, Shown
<1>5. PhaseFollowsCursor'
  BY <1>3 DEF Shows, PhaseFollowsCursor
<1>. QED  BY <1>4, <1>5 DEF Shows, Shown

\* A step that selects for the cursor it leaves.
LEMMA ShowsMoved ==
  ASSUME Inv, Inv', chart' \in Files \cup {NoFile}, page'.file # NoFile,
         Selected(page'.file, unified'.frame, phase')
  PROVE  Shows'
<1>1. MaxFrame' = LastFrame[page'.file]
  BY DEF MaxFrame
<1>2. (phase \in 0..(IF page.file = NoFile THEN 0 ELSE Len(Phases[page.file])))'
  BY DEF Selected
<1>3. PhaseFollowsCursor'
  BY <1>1 DEF PhaseFollowsCursor, Selected, Cursor
<1>. QED  BY <1>2, <1>3 DEF Shows, Shown

LEMMA ShowsNext == Inv /\ Fits /\ Shows /\ [ReplayNext]_replayVars => Shows'
<1>. SUFFICES ASSUME Inv, Fits, Shows, [ReplayNext]_replayVars PROVE Shows'
  OBVIOUS
<1>a. Inv'
  BY InvNext
<1>b. /\ single \in PlayerRecords /\ unified \in PlayerRecords /\ unified' \in PlayerRecords
      /\ page.file \in Files \cup {NoFile}
      /\ chart \in Files \cup {NoFile}
  BY <1>a DEF Inv, Typed, Shows, Shown
<1>c. ASSUME page.file # NoFile
      PROVE  page.file \in Files /\ phase \in 0..Len(Phases[page.file])
  BY <1>b, <1>c DEF Shows, Shown
<1>d. unified.frame \in Nat /\ unified'.frame \in Nat /\ MaxFrame \in Nat
  BY <1>b, Counters, Numbers
<1>. USE DEF RenderFrame
<1>1. ASSUME NEW f \in Files, Load(f) PROVE Shows'
  <2>. DEFINE i == IF Phases[f] = <<>> THEN 0 ELSE 1
  <2>1. LastFrame[f] \in Nat /\ f # NoFile /\ Phases[f] \in Seq(Nat \X Nat)
    BY ReplayAssumption
  <2>2. i \in 0..Len(Phases[f])
    <3>1. Phases[f] # <<>> => Len(Phases[f]) >= 1 /\ Len(Phases[f]) \in Nat
      BY <2>1
    <3>2. Len(Phases[f]) \in Nat
      BY <2>1
    <3>. QED  BY <3>1, <3>2
  <2>. HIDE DEF i
  <2>3. Selected(f, LastFrame[f], PhaseOf(f, LastFrame[f], i))
    BY <2>1, <2>2, PhaseOfSelects
  <2>4. unified'.frame = LastFrame[f]
    BY <1>1, <1>b, <2>1, SoughtType DEF Load
  <2>5. page'.file = f /\ chart' = f /\ phase' = PhaseOf(f, LastFrame[f], i)
    BY <1>1 DEF Load, i
  <2>. QED  BY <1>a, <2>1, <2>3, <2>4, <2>5, ShowsMoved
<1>2. CASE Reject
  <2>1. page'.file = page.file
    BY <1>2 DEF Reject, Inv, Typed
  <2>. QED  BY <1>2, <1>a, <1>b, <2>1, ShowsStill DEF Reject
<1>3. CASE Single
  <2>1. /\ page' = page /\ unified' = unified /\ phase' = phase
        /\ chart' \in {chart, page.file}
    BY <1>3 DEF Single, PlaySingle, PauseSingle, SeekSingle, SingleTimeout, SingleDrawn
  <2>. QED  BY <1>a, <1>b, <2>1, ShowsStill
<1>4. ASSUME NEW g \in GhostSlots, GhostTimeout(g) \/ GhostDrawn(g) PROVE Shows'
  <2>1. /\ page' = page /\ unified' = unified /\ phase' = phase
        /\ chart' \in {chart, ghosts[g].file}
    BY <1>4 DEF GhostTimeout, GhostDrawn
  <2>2. ghosts[g].file \in Files \cup {NoFile}
    BY DEF Inv, Typed
  <2>. QED  BY <1>a, <1>b, <2>1, <2>2, ShowsStill
<1>5. CASE PlayUnified
  <2>1. unified'.frame = unified.frame
    BY <1>5, <1>b, PlayedType DEF PlayUnified
  <2>. QED  BY <1>5, <1>a, <1>b, <2>1, ShowsStill DEF PlayUnified
<1>6. CASE PauseUnified
  <2>1. unified'.frame = unified.frame
    BY <1>6, <1>b, PausedType DEF PauseUnified, PauseAll
  <2>. QED  BY <1>6, <1>a, <1>b, <2>1, ShowsStill DEF PauseUnified
<1>7. ASSUME NEW f \in 0..MaxFrame, SeekUnified(f) PROVE Shows'
  <2>1. f \in Nat
    BY <1>d
  <2>2. unified'.frame = f
    BY <1>7, <1>b, <2>1, SoughtType DEF SeekUnified
  <2>3. page.file # NoFile
    BY <1>7 DEF SeekUnified, ControlsUnified, Fits, Blank
  <2>4. Selected(page.file, f, PhaseOf(page.file, f, phase))
    BY <1>c, <2>1, <2>3, PhaseOfSelects
  <2>. QED  BY <1>7, <1>a, <1>b, <2>2, <2>3, <2>4, ShowsMoved DEF SeekUnified
<1>8. ASSUME page.file # NoFile, NEW i \in DOMAIN Phases[page.file], ClickPhase(i) PROVE Shows'
  <2>. DEFINE f == page.file
              x == Phases[f][i][1]
  <2>1. f \in Files /\ x \in 0..MaxFrame
    BY <1>8, <1>c, PhaseFrames DEF Inv
  <2>2. MaxFrame = LastFrame[f]
    BY <1>8 DEF MaxFrame
  <2>3. Phases[f] \in Seq(Nat \X Nat) /\ x < Phases[f][i][2] /\ Phases[f][i] \in Nat \X Nat
    BY <1>8, <2>1, ReplayAssumption
  <2>4. i \in 1..Len(Phases[f]) /\ Len(Phases[f]) \in Nat
    BY <1>8, <2>3
  <2>5. Phases[f][i][2] \in Nat
    BY <2>3
  <2>6. unified' = Sought(unified, x) /\ phase' = i /\ page' = page /\ chart' = f
    BY <1>8 DEF ClickPhase
  <2>. HIDE DEF x
  <2>7. unified'.frame = x
    BY <1>b, <1>d, <2>1, <2>6, SoughtType
  <2>8. Cursor(f, x) = x
    BY <1>d, <2>1, <2>2 DEF Cursor
  <2>9. Within(f, i, x)
    BY <1>d, <2>1, <2>3, <2>5 DEF Within, x
  <2>10. i # 0 /\ i \in 0..Len(Phases[f])
    BY <2>4
  <2>11. Selected(f, x, i)
    BY <2>8, <2>9, <2>10 DEF Selected
  <2>. QED  BY <1>8, <1>a, <1>b, <2>6, <2>7, <2>11, ShowsMoved
<1>9. CASE UnifiedTimeout
  <2>1. Chains(unified) > 0
    BY <1>9, <1>b DEF UnifiedTimeout, Chains, PlayerRecords
  <2>2. page.file # NoFile
    BY <2>1 DEF Fits, Blank
  <2>3. /\ phase' = PhaseOf(page.file, unified'.frame, phase)
        /\ page' = page /\ chart' = page.file
    BY <1>9 DEF UnifiedTimeout, DrawAll
  <2>4. Selected(page.file, unified'.frame, phase')
    BY <1>c, <1>d, <2>2, <2>3, PhaseOfSelects
  <2>. QED  BY <1>a, <1>b, <2>2, <2>3, <2>4, ShowsMoved
<1>10. CASE UnifiedDrawn
  <2>1. unified'.frame = unified.frame
    BY <1>10, <1>b, DrawnType, UndrawnType DEF UnifiedDrawn
  <2>. QED  BY <1>10, <1>a, <1>b, <2>1, ShowsStill DEF UnifiedDrawn
<1>11. ASSUME NEW view \in Views, SelectView(view) PROVE Shows'
  <2>1. unified'.frame = unified.frame
    BY <1>11, <1>b, PausedType DEF SelectView, PauseAll
  <2>2. page'.file = page.file
    BY <1>11 DEF SelectView, Inv, Typed
  <2>. QED  BY <1>11, <1>a, <1>b, <2>1, <2>2, ShowsStill DEF SelectView
<1>12. ASSUME NEW view \in Views, OtherTab(view) PROVE Shows'
  BY <1>12, <1>a, <1>b, ShowsStill DEF OtherTab, pageVars
<1>13. CASE UNCHANGED replayVars
  BY <1>13, <1>a, <1>b, ShowsStill DEF replayVars, pageVars
<1>. QED
  BY <1>1, <1>2, <1>3, <1>4, <1>5, <1>6, <1>7, <1>8, <1>9, <1>10, <1>11, <1>12, <1>13
     DEF ReplayNext, Unified

\* A player within its reach is within its bounds.
LEMMA PlayerFits ==
  ASSUME NEW p \in PlayerRecords, NEW last \in Nat, NEW chains \in Nat,
         Chains(p) <= chains, Reach(p) <= last + 2 * chains
  PROVE  p \in Players(last, chains)
<1>1. /\ Timeouts(p) \in Nat /\ p.frame \in Nat /\ p.drawing \in Nat /\ p.strays \in Nat
      /\ Chains(p) = Timeouts(p) + p.drawing /\ p.strays <= Timeouts(p)
  BY Counters DEF Timeouts
<1>2. p.frame \in 0..last + 2 * chains /\ p.strays \in 0..chains /\ p.drawing \in 0..chains
  BY <1>1 DEF Reach
<1>. QED  BY <1>2 DEF Players, PlayerRecords

LEMMA GhostFits ==
  ASSUME NEW g \in GhostSlots, Haunts(ghosts[g])
  PROVE  /\ ghosts[g].file \in Files \cup {NoFile}
         /\ ghosts[g].player \in Players(GhostFrame(g), MaxChains)
         /\ ghosts[g] = NoGhost <=> Chains(ghosts[g].player) = 0
<1>1. MaxChains \in Nat
  BY ReplayAssumption
<1>2. CASE ghosts[g] = NoGhost
  <2>1. ghosts[g].player = Idle /\ ghosts[g].file = NoFile
    BY <1>2 DEF NoGhost
  <2>2. Chains(Idle) = 0 /\ Reach(Idle) = 0
    BY DEF Chains, Reach, Timeouts, Idle
  <2>3. GhostFrame(g) = 0
    BY <2>1 DEF GhostFrame
  <2>4. Idle \in Players(0, MaxChains)
    BY <1>1, <2>2, IdleType, PlayerFits
  <2>. QED  BY <1>2, <2>1, <2>2, <2>3, <2>4
<1>3. CASE ghosts[g] # NoGhost
  <2>1. /\ ghosts[g].player \in PlayerRecords /\ ghosts[g].file \in Files
        /\ 0 < Chains(ghosts[g].player) /\ Chains(ghosts[g].player) <= MaxChains
        /\ Reach(ghosts[g].player) <= LastFrame[ghosts[g].file] + 2 * MaxChains
    BY <1>3 DEF Haunts
  <2>2. GhostFrame(g) = LastFrame[ghosts[g].file] /\ GhostFrame(g) \in Nat
    BY <2>1, ReplayAssumption DEF GhostFrame
  <2>3. ghosts[g].player \in Players(GhostFrame(g), MaxChains)
    BY <1>1, <2>1, <2>2, PlayerFits
  <2>. QED  BY <1>3, <2>1, <2>3
<1>. QED  BY <1>2, <1>3

\* Whatever is loaded, played, paused and sought, here and in another tab, and however long a
\* frame takes to draw, the players stay within what their chains can reach, the charts show
\* the file of the page, and the phase selected in the story holds the cursor.
THEOREM ThePageShowsItsFile == ReplaySpec => []ReplayShowsItsFile
<1>1. ReplayInit => Fits /\ Shows
  BY FitsInit, ShowsInit
<1>2. Inv /\ Fits /\ Shows /\ [ReplayNext]_replayVars => Fits' /\ Shows'
  BY FitsNext, ShowsNext
<1>3. Inv /\ Fits /\ Shows => ReplayShowsItsFile
  <2>. SUFFICES ASSUME Inv, Fits, Shows PROVE ReplayShowsItsFile
    OBVIOUS
  <2>1. /\ single \in PlayerRecords /\ unified \in PlayerRecords
        /\ stored \in Views /\ page \in [view: Views, file: Files \cup {NoFile}, shown: BOOLEAN]
        /\ DOMAIN ghosts = GhostSlots /\ haunted \in BOOLEAN
    BY DEF Inv, Typed
  <2>2. /\ MaxFrame \in Nat /\ MaxChains \in Nat /\ Cardinality(Haunting) \in Nat
        /\ Chains(single) \in Nat /\ Chains(unified) \in Nat
        /\ Reach(single) \in Nat /\ Reach(unified) \in Nat
    BY Numbers
  <2>3. /\ AllChains <= MaxChains
        /\ Chains(single) + Chains(unified) + Cardinality(Haunting) <= MaxChains
        /\ Reach(unified) <= MaxFrame + MaxChains /\ Reach(single) <= MaxFrame + 2 * MaxChains
    BY DEF Fits, Bounded, AllChains
  <2>4. /\ Chains(single) <= MaxChains /\ Chains(unified) <= MaxChains
        /\ Reach(unified) <= MaxFrame + 2 * MaxChains
    BY <2>2, <2>3
  <2>5. single \in Players(MaxFrame, MaxChains)
    BY <2>1, <2>2, <2>3, <2>4, PlayerFits
  <2>6. unified \in Players(MaxFrame, MaxChains)
    BY <2>1, <2>2, <2>4, PlayerFits
  <2>7. ASSUME NEW g \in GhostSlots
        PROVE  /\ ghosts[g].file \in Files \cup {NoFile}
               /\ ghosts[g].player \in Players(GhostFrame(g), MaxChains)
               /\ ghosts[g] = NoGhost <=> Chains(ghosts[g].player) = 0
    BY <2>2, GhostFits DEF Fits, Bounded
  <2>8. ReplayTypeOK
    BY <2>1, <2>3, <2>5, <2>6, <2>7 DEF ReplayTypeOK, Shows, Shown
  <2>. QED  BY <2>8 DEF ReplayShowsItsFile, Inv, Shows
<1>. QED  BY SpecInv, <1>1, <1>2, <1>3, PTL DEF ReplaySpec
=============================================================================
