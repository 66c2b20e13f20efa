------------------------------- MODULE Replay -------------------------------
(***************************************************************************)
(* The replay page.  A file is read and replaces what the section shows;   *)
(* in the classic layout its charts have a replay of their own (single),   *)
(* in the studio and story layouts one replay drives every panel           *)
(* (unified).  The layout is kept in localStorage, which other tabs write. *)
(*                                                                         *)
(* A load forgets the panels before it pauses them, so a single replay     *)
(* that plays goes on as a ghost and draws the old file into the new       *)
(* charts; the next load may leave another one behind.  Drawing takes      *)
(* time: Plotly answers with a promise.                                    *)
(***************************************************************************)
EXTENDS Player, Sequences, FiniteSets, SequencesExt

CONSTANTS
  Files,      \* files that hold samples
  LastFrame,  \* index of the last frame of each
  Phases,     \* the phases detected in each, as pairs of frames, in order
  NoFile,
  MaxChains   \* bound on the chains of timeouts and of frames drawn, for Play

ASSUME ReplayAssumption ==
  /\ LastFrame \in [Files -> Nat \ {0}] /\ MaxChains \in Nat /\ NoFile \notin Files
  /\ Phases \in [Files -> Seq(Nat \X Nat)]
  /\ \A f \in Files : \A i \in DOMAIN Phases[f] :
       Phases[f][i][1] < Phases[f][i][2] /\ Phases[f][i][2] <= LastFrame[f]

VARIABLES
  stored,     \* layout in localStorage
  page,       \* layout shown, file loaded, whether its section shows
  single, unified,
  ghosts,     \* the single replays of files loaded before, and those files
  chart,      \* file the memory chart shows
  phase,      \* phase selected in the story, 0 for none
  haunted     \* history: a ghost was under way when the file was loaded

pageVars == <<page, chart, phase, haunted>>
replayVars == <<stored, pageVars, single, unified, ghosts>>

NoGhost == [player |-> Idle, file |-> NoFile]
\* A ghost counts for one chain, so that there is a slot for a replay that is left behind.
GhostSlots == 1..MaxChains
FreeSlot == CHOOSE g \in GhostSlots : ghosts[g] = NoGhost
Views == {"classic", "studio", "story"}
MaxFrame == IF page.file = NoFile THEN 0 ELSE LastFrame[page.file]
GhostFrame(g) == IF ghosts[g].file = NoFile THEN 0 ELSE LastFrame[ghosts[g].file]

Haunting == {g \in GhostSlots : ghosts[g] # NoGhost}
AllChains == Chains(single) + Chains(unified) + Cardinality(Haunting)

ReplayTypeOK ==
  /\ stored \in Views
  /\ page \in [view: Views, file: Files \cup {NoFile}, shown: BOOLEAN]
  /\ single \in Players(MaxFrame, MaxChains) /\ unified \in Players(MaxFrame, MaxChains)
  /\ DOMAIN ghosts = GhostSlots /\ AllChains <= MaxChains
  /\ \A g \in GhostSlots :
       /\ ghosts[g].file \in Files \cup {NoFile}
       /\ ghosts[g].player \in Players(GhostFrame(g), MaxChains)
       /\ ghosts[g] = NoGhost <=> Chains(ghosts[g].player) = 0
  /\ chart \in Files \cup {NoFile}
  /\ phase \in 0..(IF page.file = NoFile THEN 0 ELSE Len(Phases[page.file]))
  /\ haunted \in BOOLEAN

ReplayInit ==
  /\ stored = "classic"
  /\ page = [view |-> "classic", file |-> NoFile, shown |-> FALSE]
  /\ chart = NoFile /\ phase = 0
  /\ single = Idle /\ unified = Idle
  /\ ghosts = [g \in GhostSlots |-> NoGhost]
  /\ haunted = FALSE

----------------------------------------------------------------------------
(***************************************************************************)
(* The panels                                                              *)
(***************************************************************************)
Within(f, i, frame) == Phases[f][i][1] <= frame /\ frame <= Phases[f][i][2]

\* updateCursor: the first phase that contains the cursor; none moves nothing.
PhaseOf(f, frame, selected) ==
  LET cursor == IF frame > LastFrame[f] THEN LastFrame[f] ELSE frame
      first == SelectInSeq(Phases[f], LAMBDA w : w[1] <= cursor /\ cursor <= w[2])
  IN IF first = 0 THEN selected ELSE first

\* renderFrame of a single replay draws the charts of its own file.
RenderFrame(file) == chart' = file

\* renderUnifiedFrame draws the frame in every panel: the studio, the story and
\* the charts of the single replay, whose own frame it becomes.
DrawAll(frame) ==
  /\ single' = [single EXCEPT !.frame = frame]
  /\ phase' = PhaseOf(page.file, frame, phase)
  /\ RenderFrame(page.file)

\* pauseUnifiedReplay pauses the unified replay and every panel that has one.
PauseAll == unified' = Paused(unified) /\ single' = Paused(single)

----------------------------------------------------------------------------
(***************************************************************************)
(* Files                                                                   *)
(***************************************************************************)
\* A replay under way is left behind: the panels are forgotten before they are paused.
LeaveBehind ==
  /\ ghosts' = IF Chains(single) > 0
               THEN [ghosts EXCEPT ![FreeSlot] = [player |-> single, file |-> page.file]]
               ELSE ghosts
  /\ haunted' = (Chains(single) > 0 \/ Haunting # {})

\* Mutant: the charts are drawn when the replay starts.
LoadUndrawn(f) ==
  /\ page' = [view |-> stored, file |-> f, shown |-> TRUE]
  /\ unified' = Sought(unified, LastFrame[f]) /\ single' = Idle
  /\ LeaveBehind
  /\ phase' = PhaseOf(f, LastFrame[f], IF Phases[f] = <<>> THEN 0 ELSE 1)
  /\ UNCHANGED <<stored, chart>>

\* renderReplay, when a file is read, at any time.  The new charts are drawn at the last
\* frame by the unified replay, then at the first one by their own: in the studio the
\* charts are at frame 0, and the unified cursor is at the end, until either moves.
Load(f) ==
  /\ page' = [view |-> stored, file |-> f, shown |-> TRUE]
  /\ unified' = Sought(unified, LastFrame[f])
  /\ single' = Idle
  /\ LeaveBehind
  /\ phase' = PhaseOf(f, LastFrame[f], IF Phases[f] = <<>> THEN 0 ELSE 1)
  /\ RenderFrame(f)
  /\ UNCHANGED stored

\* A file that cannot be read, or has no samples: the section is hidden, and what
\* plays goes on behind it.
Reject ==
  /\ page' = [page EXCEPT !.shown = FALSE]
  /\ UNCHANGED <<stored, single, unified, ghosts, chart, phase, haunted>>

----------------------------------------------------------------------------
(***************************************************************************)
(* The single replay, whose controls show in the classic layout            *)
(***************************************************************************)
ControlsSingle == page.shown /\ page.view = "classic"

PlaySingle ==
  /\ ControlsSingle /\ AllChains < MaxChains
  /\ single' = Played(single, MaxFrame)
  /\ UNCHANGED <<stored, page, unified, ghosts, chart, phase, haunted>>

PauseSingle ==
  /\ ControlsSingle
  /\ single' = Paused(single)
  /\ UNCHANGED <<stored, page, unified, ghosts, chart, phase, haunted>>

\* Reset and the timeline.
SeekSingle(f) ==
  /\ ControlsSingle
  /\ single' = Sought(single, f)
  /\ RenderFrame(page.file)
  /\ UNCHANGED <<stored, page, unified, ghosts, phase, haunted>>

SingleTimeout ==
  /\ \/ single.timer /\ single' = Fired(single)
     \/ single.strays > 0 /\ single' = StrayFired(single)
  /\ RenderFrame(page.file)
  /\ UNCHANGED <<stored, page, unified, ghosts, phase, haunted>>

SingleDrawn ==
  /\ single.drawing > 0 /\ single' = Drawn(single, MaxFrame)
  /\ UNCHANGED <<stored, page, unified, ghosts, chart, phase, haunted>>

\* The replay of a file before, whose page is gone.
GhostTimeout(g) ==
  /\ \/ ghosts[g].player.timer /\ ghosts' = [ghosts EXCEPT ![g].player = Fired(@)]
     \/ ghosts[g].player.strays > 0 /\ ghosts' = [ghosts EXCEPT ![g].player = StrayFired(@)]
  /\ RenderFrame(ghosts[g].file)
  /\ UNCHANGED <<stored, page, single, unified, phase, haunted>>

GhostDrawn(g) ==
  /\ ghosts[g].player.drawing > 0
  /\ LET next == Drawn(ghosts[g].player, LastFrame[ghosts[g].file])
     IN ghosts' = [ghosts EXCEPT ![g] =
                     IF Chains(next) = 0 THEN NoGhost ELSE [player |-> next, file |-> @.file]]
  /\ UNCHANGED <<stored, page, single, unified, chart, phase, haunted>>

----------------------------------------------------------------------------
(***************************************************************************)
(* The unified replay, whose controls show in the other two                *)
(***************************************************************************)
ControlsUnified == page.shown /\ page.view # "classic"

\* Mutant: the replays of the panels go on.
PlayUnifiedOnly ==
  /\ ControlsUnified /\ stored # "classic" /\ ~unified.playing /\ AllChains < MaxChains
  /\ unified' = Played(unified, MaxFrame)
  /\ UNCHANGED <<stored, page, single, ghosts, chart, phase, haunted>>

\* Nothing happens when another tab has chosen the classic layout.
PlayUnified ==
  /\ ControlsUnified /\ stored # "classic" /\ ~unified.playing /\ AllChains < MaxChains
  /\ unified' = Played(unified, MaxFrame)
  /\ single' = Paused(single)
  /\ UNCHANGED <<stored, page, ghosts, chart, phase, haunted>>

PauseUnified ==
  /\ ControlsUnified /\ PauseAll
  /\ UNCHANGED <<stored, page, ghosts, chart, phase, haunted>>

SeekUnified(f) ==
  /\ ControlsUnified
  /\ unified' = Sought(unified, f)
  /\ single' = Sought(single, f)
  /\ phase' = PhaseOf(page.file, f, phase)
  /\ RenderFrame(page.file)
  /\ UNCHANGED <<stored, page, ghosts, haunted>>

\* A phase of the rail: the replay goes to its first frame, and it is selected
\* even if another one contains that frame.
ClickPhase(i) ==
  /\ page.shown /\ page.view = "story" /\ i \in DOMAIN Phases[page.file]
  /\ unified' = Sought(unified, Phases[page.file][i][1])
  /\ single' = Sought(single, Phases[page.file][i][1])
  /\ phase' = i
  /\ RenderFrame(page.file)
  /\ UNCHANGED <<stored, page, ghosts, haunted>>

UnifiedTimeout ==
  /\ \/ unified.timer /\ unified' = Fired(unified)
     \/ unified.strays > 0 /\ unified' = StrayFired(unified)
  /\ DrawAll(unified'.frame)
  /\ UNCHANGED <<stored, page, ghosts, haunted>>

\* scheduleUnifiedNext leaves unifiedPlaying as it is in the classic layout.
UnifiedDrawn ==
  /\ unified.drawing > 0
  /\ unified' = IF stored = "classic" THEN [unified EXCEPT !.drawing = @ - 1]
                ELSE Drawn(unified, MaxFrame)
  /\ UNCHANGED <<stored, page, single, ghosts, chart, phase, haunted>>

----------------------------------------------------------------------------
(***************************************************************************)
(* The layout                                                              *)
(***************************************************************************)
\* Mutant: the replays go on in the classic layout.
SelectViewPlaying(view) ==
  /\ stored' = view /\ page' = [page EXCEPT !.view = view]
  /\ UNCHANGED <<single, unified, ghosts, chart, phase, haunted>>

\* setViewMode; to go from the classic layout to another stops nothing.
SelectView(view) ==
  /\ stored' = view /\ page' = [page EXCEPT !.view = view]
  /\ IF view = "classic" THEN PauseAll ELSE UNCHANGED <<single, unified>>
  /\ UNCHANGED <<ghosts, chart, phase, haunted>>

OtherTab(view) ==
  /\ stored # view /\ stored' = view
  /\ UNCHANGED <<pageVars, single, unified, ghosts>>

----------------------------------------------------------------------------
Single ==
  PlaySingle \/ PauseSingle \/ SingleTimeout \/ SingleDrawn \/ (\E f \in 0..MaxFrame : SeekSingle(f))

Unified ==
  \/ PlayUnified \/ PauseUnified \/ UnifiedTimeout \/ UnifiedDrawn
  \/ \E f \in 0..MaxFrame : SeekUnified(f)
  \/ page.file # NoFile /\ \E i \in DOMAIN Phases[page.file] : ClickPhase(i)

ReplayNext ==
  \/ (\E f \in Files : Load(f)) \/ Reject
  \/ Single \/ Unified
  \/ \E g \in GhostSlots : GhostTimeout(g) \/ GhostDrawn(g)
  \/ \E view \in Views : SelectView(view) \/ OtherTab(view)

\* The browser fires the timeouts of a replay and draws what it is asked to.
ReplayFairness ==
  WF_replayVars(SingleTimeout \/ SingleDrawn) /\ WF_replayVars(UnifiedTimeout \/ UnifiedDrawn)

ReplaySpec == ReplayInit /\ [][ReplayNext]_replayVars /\ ReplayFairness

----------------------------------------------------------------------------
\* The two replays never play together, whatever the order in which layouts are
\* chosen (here or in another tab), files are loaded and buttons are pressed.
OnePlayback == ~(single.playing /\ unified.playing)

SinglePlayback ==
  INSTANCE Playback WITH playing <- single.playing, frame <- single.frame, last <- MaxFrame
UnifiedPlayback ==
  INSTANCE Playback WITH playing <- unified.playing, frame <- unified.frame, last <- MaxFrame

\* No chain but the one of a replay that plays, which the next pause would stop.
Calm ==
  \A p \in {single, unified} :
    p.strays = 0 /\ ~Doubled(p) /\ (p.timer => p.playing /\ p.frame < MaxFrame)

\* A step of Playback by each replay, or one that leaves it alone.
SingleStep == [SinglePlayback!PlaybackNext]_<<single.playing, single.frame, MaxFrame>>
UnifiedStep == [UnifiedPlayback!PlaybackNext]_<<unified.playing, unified.frame, MaxFrame>>

\* As long as no chain is doubled, which takes a pause and a play while a frame
\* is drawn, both replays do what their controls promise.
RefinesPlayback == [][Calm => SingleStep /\ UnifiedStep]_replayVars

\* A replay comes to its end or is stopped; the unified one only if the layout
\* stays what it was: scheduleUnifiedNext would leave it playing for ever.
PlaybackEnds ==
  /\ single.playing ~> ~single.playing
  /\ unified.playing /\ Chains(unified) > 0 ~> ~unified.playing \/ stored = "classic"

\* The charts show the file of the page, unless a replay of another was under way
\* when it was loaded, whenever that one was left behind.
ChartShowsFile == page.file # NoFile /\ ~haunted => chart = page.file

\* The selected phase contains the frame the unified replay shows, if any does.
PhaseFollowsCursor ==
  page.file # NoFile =>
    LET cursor == IF unified.frame > MaxFrame THEN MaxFrame ELSE unified.frame
    IN (\E i \in DOMAIN Phases[page.file] : Within(page.file, i, cursor))
         => phase # 0 /\ Within(page.file, phase, cursor)

\* A replay shows its file: the charts are of the file of the page, and the phase
\* selected contains the unified cursor, whatever timeouts are pending.
ReplayShowsItsFile == ReplayTypeOK /\ ChartShowsFile /\ PhaseFollowsCursor
=============================================================================
