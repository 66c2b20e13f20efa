------------------------------- MODULE Compare -------------------------------
(***************************************************************************)
(* The compare page.  Two files are read, each into its slot; when both    *)
(* hold samples the comparison is rendered, with a replay of its own.  A   *)
(* change of view renders the comparison again from the pair it was given. *)
(*                                                                         *)
(* Nothing stops the replay of a comparison that is replaced: the pause it *)
(* registers is never called.  Each one left behind (runaway) draws its    *)
(* pair into the new charts as long as they have the elements it draws     *)
(* into.  The summary is added when the first frame is drawn, to whatever  *)
(* comparison the section then holds; both files have one to summarise.    *)
(***************************************************************************)
EXTENDS Naturals, Sequences, SequencesExt, FiniteSets

CONSTANTS
  CompareFiles,  \* files that hold samples
  LastOf,        \* index of the last frame of a file, as the base of a comparison
  NoSamples,     \* none, or one that is not JSON or has no samples
  MaxDraws,      \* bound on the first frames not yet drawn
  MaxRunaways    \* bound on the replays left behind that still tick

ASSUME CompareAssumption ==
  /\ LastOf \in [CompareFiles -> Nat \ {0}] /\ NoSamples \notin CompareFiles
  /\ MaxDraws \in Nat /\ MaxRunaways \in Nat

VARIABLES
  slots,       \* file whose samples each slot holds
  mode,        \* split or side, in localStorage
  comparison,  \* pair rendered, and its view
  player,      \* its replay: a timeout is live exactly while it plays
  runaways,    \* the replays that were left behind, their pairs and views
  drawn,       \* pair the memory chart shows
  summaries,   \* pairs summarised in the section, in order
  draws,       \* pairs whose first frame is not drawn yet
  hasty        \* history: a replay was under way when the comparison was rendered;
               \* the first frame of one before was not drawn yet

compareVars ==
  <<slots, mode, comparison, player, runaways, drawn, summaries, draws, hasty>>

Slots == {"A", "B"}
Modes == {"split", "side"}
NoPair == <<>>
Pairs == CompareFiles \X CompareFiles
LastFrameOf(pair) == IF pair = NoPair THEN 0 ELSE LastOf[pair[1]]

CompareTypeOK ==
  /\ slots \in [Slots -> CompareFiles \cup {NoSamples}]
  /\ mode \in Modes
  /\ comparison \in [pair: Pairs \cup {NoPair}, mode: Modes]
  /\ player \in [playing: BOOLEAN, frame: 0..LastFrameOf(comparison.pair)]
  /\ runaways \in Seq([pair: Pairs, mode: Modes, frame: Nat]) /\ Len(runaways) <= MaxRunaways
  /\ \A i \in DOMAIN runaways : runaways[i].frame <= LastFrameOf(runaways[i].pair)
  /\ drawn \in Pairs \cup {NoPair}
  /\ summaries \in Seq(Pairs) /\ draws \in Seq(Pairs) /\ Len(summaries) + Len(draws) <= MaxDraws
  /\ hasty \in [haunted: BOOLEAN, hurried: BOOLEAN]

CompareInit ==
  /\ slots = [s \in Slots |-> NoSamples]
  /\ mode = "split"
  /\ comparison = [pair |-> NoPair, mode |-> "split"]
  /\ player = [playing |-> FALSE, frame |-> 0] /\ runaways = <<>>
  /\ drawn = NoPair /\ summaries = <<>> /\ draws = <<>>
  /\ hasty = [haunted |-> FALSE, hurried |-> FALSE]

----------------------------------------------------------------------------
\* renderFrame draws the pair of its replay.
RenderPair(pair) == drawn' = pair

\* A replay that plays is left behind, beside the ones that were left before it.
LeaveReplay ==
  /\ player.playing => Len(runaways) < MaxRunaways
  /\ runaways' = IF player.playing
                 THEN Append(runaways, [pair |-> comparison.pair, mode |-> comparison.mode,
                                        frame |-> player.frame])
                 ELSE runaways

\* Mutant: the section keeps the summaries it has.
RenderOver(pair, view) ==
  /\ Len(draws) < MaxDraws /\ LeaveReplay
  /\ comparison' = [pair |-> pair, mode |-> view]
  /\ player' = [playing |-> FALSE, frame |-> 0]
  /\ RenderPair(pair) /\ summaries' = summaries /\ draws' = Append(draws, pair)
  /\ hasty' = [haunted |-> runaways' # <<>>, hurried |-> draws # <<>>]

\* renderCompareSection, at any time: new elements, a new replay, the first frame.
RenderComparison(pair, view) ==
  /\ Len(draws) < MaxDraws /\ LeaveReplay
  /\ comparison' = [pair |-> pair, mode |-> view]
  /\ player' = [playing |-> FALSE, frame |-> 0]
  /\ RenderPair(pair) /\ summaries' = <<>> /\ draws' = Append(draws, pair)
  /\ hasty' = [haunted |-> runaways' # <<>>, hurried |-> draws # <<>>]

\* Mutant: the comparison is rendered when the first of the two files is there.
RendersOnce(after) == comparison.pair = NoPair /\ \A s \in Slots : after[s] # NoSamples

\* tryRender, after a file with samples.
BothLoaded(after) == \A s \in Slots : after[s] # NoSamples

\* handleFileChange, when a file is read for a slot.  A comparison that was
\* rendered stays when the slot is emptied.
FileRead(s, f) ==
  /\ slots' = [slots EXCEPT ![s] = f]
  /\ IF f # NoSamples /\ BothLoaded(slots')
     THEN RenderComparison(<<slots'["A"], slots'["B"]>>, mode)
     ELSE UNCHANGED <<comparison, player, runaways, drawn, summaries, draws, hasty>>
  /\ UNCHANGED mode

\* The view of the comparison: the pair is the one it was given.
SelectMode(view) ==
  /\ comparison.pair # NoPair /\ view # comparison.mode
  /\ mode' = view
  /\ RenderComparison(comparison.pair, view)
  /\ UNCHANGED slots

OtherTabMode(view) ==
  /\ mode # view /\ mode' = view
  /\ UNCHANGED <<slots, comparison, player, runaways, drawn, summaries, draws, hasty>>

\* The first frame of a rendering is drawn, and its summary is added.
FirstFrameDrawn(i) ==
  /\ i \in DOMAIN draws
  /\ draws' = RemoveAt(draws, i)
  /\ summaries' = Append(summaries, draws[i])
  /\ UNCHANGED <<slots, mode, comparison, player, runaways, drawn, hasty>>

----------------------------------------------------------------------------
Play ==
  /\ comparison.pair # NoPair
  /\ player' = [player EXCEPT !.playing = TRUE]
  /\ UNCHANGED <<slots, mode, comparison, runaways, drawn, summaries, draws, hasty>>

Pause ==
  /\ comparison.pair # NoPair
  /\ player' = [player EXCEPT !.playing = FALSE]
  /\ UNCHANGED <<slots, mode, comparison, runaways, drawn, summaries, draws, hasty>>

\* Reset and the timeline.
SeekTo(frame) ==
  /\ comparison.pair # NoPair
  /\ player' = [playing |-> FALSE, frame |-> frame]
  /\ RenderPair(comparison.pair)
  /\ UNCHANGED <<slots, mode, comparison, runaways, summaries, draws, hasty>>

NextFrame(frame, last) == IF frame < last THEN frame + 1 ELSE last

\* Mutant: the last frame does not pause.
TickForever ==
  /\ player.playing
  /\ player' = [player EXCEPT !.frame = NextFrame(@, LastFrameOf(comparison.pair))]
  /\ RenderPair(comparison.pair)
  /\ UNCHANGED <<slots, mode, comparison, runaways, summaries, draws, hasty>>

\* tick draws the next frame and, at the last one, pauses.
Tick ==
  LET last == LastFrameOf(comparison.pair)
      next == NextFrame(player.frame, last)
  IN /\ player.playing
     /\ player' = [playing |-> next < last, frame |-> next]
     /\ RenderPair(comparison.pair)
     /\ UNCHANGED <<slots, mode, comparison, runaways, summaries, draws, hasty>>

\* The other view has not the elements it draws into: the tick fails, and is the last.
RunawayTick(i) ==
  LET mine == runaways[i]
      last == LastFrameOf(mine.pair)
      next == NextFrame(mine.frame, last)
  IN /\ IF mine.mode = comparison.mode /\ next < last
        THEN runaways' = [runaways EXCEPT ![i].frame = next]
        ELSE runaways' = RemoveAt(runaways, i)
     /\ IF mine.mode = comparison.mode THEN RenderPair(mine.pair) ELSE UNCHANGED drawn
     /\ UNCHANGED <<slots, mode, comparison, player, summaries, draws, hasty>>

RunawayTicks == \E i \in DOMAIN runaways : RunawayTick(i)
FirstFrames == \E i \in DOMAIN draws : FirstFrameDrawn(i)

CompareNext ==
  \/ \E s \in Slots, f \in CompareFiles \cup {NoSamples} : FileRead(s, f)
  \/ FirstFrames
  \/ \E view \in Modes : SelectMode(view) \/ OtherTabMode(view)
  \/ Play \/ Pause \/ Tick \/ RunawayTicks
  \/ \E frame \in 0..LastFrameOf(comparison.pair) : SeekTo(frame)

\* Timeouts fire.
CompareFairness == WF_compareVars(Tick)

CompareSpec == CompareInit /\ [][CompareNext]_compareVars /\ CompareFairness

----------------------------------------------------------------------------
\* Two slots that hold samples are compared, whatever was read, failed to be read
\* or was rendered again in between.
ComparesTheSlots ==
  (\A s \in Slots : slots[s] # NoSamples) => comparison.pair = <<slots["A"], slots["B"]>>

\* The charts show the pair that is compared, unless a replay was under way when it
\* was rendered: the one of the page, or any that was left behind and still ticks.
ChartsShowThePair == ~hasty.haunted => drawn = comparison.pair

\* Once drawn, the section has one summary, of its pair, unless the first frame of
\* one before was not drawn yet when it was rendered: then it may have two.
OneSummary ==
  comparison.pair # NoPair /\ draws = <<>> /\ ~hasty.hurried => summaries = <<comparison.pair>>

\* The page compares the files of its slots, and shows their charts and summary.
ComparisonAgrees == CompareTypeOK /\ ComparesTheSlots /\ ChartsShowThePair /\ OneSummary

ComparisonPlayback ==
  INSTANCE Playback WITH playing <- player.playing, frame <- player.frame,
                         last <- LastFrameOf(comparison.pair)

\* The replay of a comparison does what its controls promise: it shows frame after
\* frame, and comes to its end or is stopped.
ComparisonIsPlayback == ComparisonPlayback!PlaybackSpec /\ ComparisonPlayback!Ends
=============================================================================
