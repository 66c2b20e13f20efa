----------------------------- MODULE PagesProofs -----------------------------
(***************************************************************************)
(* Proofs about the compare page, the chart studio and the workspace deck, *)
(* for any files, runs, metrics, presets, panels and bounds.               *)
(*                                                                         *)
(* The arguments.  A comparison starts with its own pair drawn, and only a *)
(* replay left behind or a first frame still to come brings another: both  *)
(* are remembered.  Whatever is saved for another run, restoreLayers takes *)
(* a metric only if the run has it.  And every deck that is built stores   *)
(* the map it shows, which a chip then turns in one place.                 *)
(***************************************************************************)
EXTENDS Workspace, Studio, Compare, Extremes, SequenceTheorems, TLAPS

LEMMA RemoveAtKeeps ==
  ASSUME NEW S, NEW s \in Seq(S), NEW i \in DOMAIN s
  PROVE  RemoveAt(s, i) \in Seq(S) /\ Len(RemoveAt(s, i)) = Len(s) - 1
<1>. DEFINE left == SubSeq(s, 1, i - 1)
            right == SubSeq(s, i + 1, Len(s))
<1>1. i \in 1..Len(s) /\ Len(s) \in Nat /\ \A j \in 1..Len(s) : s[j] \in S
  OBVIOUS
<1>2. left \in Seq(S) /\ Len(left) = i - 1
  <2>1. \A j \in 1..i - 1 : s[j] \in S
    BY <1>1
  <2>. QED  BY <1>1, <2>1, SubSeqProperties
<1>3. right \in Seq(S) /\ Len(right) = Len(s) - i
  <2>1. \A j \in i + 1..Len(s) : s[j] \in S
    BY <1>1
  <2>. QED  BY <1>1, <2>1, SubSeqProperties
<1>4. RemoveAt(s, i) = left \o right
  BY DEF RemoveAt
<1>. HIDE DEF left, right
<1>5. left \o right \in Seq(S) /\ Len(left \o right) = Len(left) + Len(right)
  BY <1>2, <1>3, ConcatProperties
<1>. QED  BY <1>1, <1>2, <1>3, <1>4, <1>5

----------------------------------------------------------------------------
(***************************************************************************)
(* The compare page.  A comparison that is haunted has replays left        *)
(* behind, one that is hurried a first frame of another rendering to come; *)
(* any other draws its own pair alone, and has its first frame still to    *)
(* come or its one summary.                                                *)
(***************************************************************************)
\* Strengthens ChartsShowThePair.
NotHaunted == ~hasty.haunted => runaways = <<>>

\* Strengthens OneSummary.
NotHurried ==
  ~hasty.hurried =>
    /\ draws \in Seq({comparison.pair}) /\ summaries \in Seq({comparison.pair})
    /\ comparison.pair # NoPair => Len(draws) + Len(summaries) = 1

\* What is left behind has a pair.
PlaysAPair == player.playing => comparison.pair # NoPair

CompareInv ==
  CompareTypeOK /\ ComparesTheSlots /\ ChartsShowThePair /\ NotHaunted /\ NotHurried /\ PlaysAPair

Runaways == [pair: Pairs, mode: Modes, frame: Nat]

LEMMA LastOfPair ==
  ASSUME NEW pair \in Pairs \cup {NoPair}
  PROVE  LastFrameOf(pair) \in Nat
BY CompareAssumption DEF LastFrameOf, Pairs, NoPair

LEMMA CompareInvInit == CompareInit => CompareInv
<1>. SUFFICES ASSUME CompareInit PROVE CompareInv
  OBVIOUS
<1>1. LastFrameOf(NoPair) = 0 /\ MaxDraws \in Nat /\ MaxRunaways \in Nat
  BY CompareAssumption DEF LastFrameOf
<1>2. CompareTypeOK
  <2>1. Len(summaries) + Len(draws) <= MaxDraws /\ Len(runaways) <= MaxRunaways
    BY <1>1 DEF CompareInit
  <2>. QED  BY <1>1, <2>1 DEF CompareInit, CompareTypeOK, Modes
<1>3. ComparesTheSlots
  BY DEF CompareInit, ComparesTheSlots, Slots
<1>. QED
  BY <1>2, <1>3 DEF CompareInit, CompareInv, ChartsShowThePair, PlaysAPair, NotHaunted, NotHurried

\* What is left behind is a replay of the page, at one of its frames.
LEMMA LeftReplays ==
  ASSUME CompareInv, LeaveReplay
  PROVE  /\ runaways' \in Seq(Runaways) /\ Len(runaways') <= MaxRunaways
         /\ \A i \in DOMAIN runaways' : runaways'[i].frame <= LastFrameOf(runaways'[i].pair)
<1>. DEFINE r == [pair |-> comparison.pair, mode |-> comparison.mode, frame |-> player.frame]
<1>1. /\ runaways \in Seq(Runaways) /\ Len(runaways) <= MaxRunaways /\ MaxRunaways \in Nat
      /\ \A i \in DOMAIN runaways : runaways[i].frame <= LastFrameOf(runaways[i].pair)
  BY CompareAssumption DEF CompareInv, CompareTypeOK, Runaways
<1>2. CASE ~player.playing
  BY <1>1, <1>2 DEF LeaveReplay
<1>3. CASE player.playing
  <2>1. runaways' = Append(runaways, r) /\ Len(runaways) < MaxRunaways
    BY <1>3 DEF LeaveReplay
  <2>2. r \in Runaways /\ r.frame <= LastFrameOf(r.pair)
    <3>1. comparison.pair \in Pairs /\ comparison.mode \in Modes
      BY <1>3 DEF CompareInv, CompareTypeOK, PlaysAPair
    <3>2. player.frame \in 0..LastFrameOf(comparison.pair)
      BY DEF CompareInv, CompareTypeOK
    <3>3. LastFrameOf(comparison.pair) \in Nat
      BY <3>1, LastOfPair
    <3>. QED  BY <3>1, <3>2, <3>3 DEF Runaways
  <2>. HIDE DEF r
  <2>3. /\ runaways' \in Seq(Runaways) /\ Len(runaways') = Len(runaways) + 1
        /\ \A i \in DOMAIN runaways' :
             \/ runaways'[i] = r
             \/ i \in DOMAIN runaways /\ runaways'[i] = runaways[i]
    <3>1. /\ Append(runaways, r) \in Seq(Runaways)
          /\ Len(Append(runaways, r)) = Len(runaways) + 1
          /\ \A i \in 1..Len(runaways) : Append(runaways, r)[i] = runaways[i]
          /\ Append(runaways, r)[Len(runaways) + 1] = r
      BY <1>1, <2>2, AppendProperties
    <3>2. Len(runaways) \in Nat /\ DOMAIN runaways = 1..Len(runaways)
      BY <1>1
    <3>3. DOMAIN runaways' = 1..Len(runaways) + 1
      BY <2>1, <3>1
    <3>. QED  BY <2>1, <3>1, <3>2, <3>3
  <2>4. \A i \in DOMAIN runaways' : runaways'[i].frame <= LastFrameOf(runaways'[i].pair)
    BY <1>1, <2>2, <2>3
  <2>. QED  BY <1>1, <2>1, <2>3, <2>4
<1>. QED  BY <1>2, <1>3

\* What a comparison that is rendered starts from.
LEMMA Rendered ==
  ASSUME CompareInv, NEW pair \in Pairs, NEW view \in Modes, RenderComparison(pair, view),
         slots' \in [Slots -> CompareFiles \cup {NoSamples}], mode' \in Modes,
         (\A s \in Slots : slots'[s] # NoSamples) => pair = <<slots'["A"], slots'["B"]>>
  PROVE  CompareInv'
<1>1. /\ comparison' = [pair |-> pair, mode |-> view] /\ drawn' = pair /\ summaries' = <<>>
      /\ player' = [playing |-> FALSE, frame |-> 0] /\ draws' = Append(draws, pair)
      /\ hasty' = [haunted |-> runaways' # <<>>, hurried |-> draws # <<>>]
      /\ Len(draws) < MaxDraws /\ LeaveReplay
  BY DEF RenderComparison, RenderPair
<1>2. draws \in Seq(Pairs) /\ MaxDraws \in Nat
  BY CompareAssumption DEF CompareInv, CompareTypeOK
<1>3. /\ draws' \in Seq(Pairs) /\ Len(summaries') + Len(draws') <= MaxDraws
      /\ summaries' \in Seq(Pairs)
  BY <1>1, <1>2
<1>4. LastFrameOf(pair) \in Nat
  BY LastOfPair
<1>5. /\ runaways' \in Seq(Runaways) /\ Len(runaways') <= MaxRunaways
      /\ \A i \in DOMAIN runaways' : runaways'[i].frame <= LastFrameOf(runaways'[i].pair)
  BY <1>1, LeftReplays
<1>6. player' \in [playing: BOOLEAN, frame: 0..LastFrameOf(comparison'.pair)]
  BY <1>1, <1>4
<1>7. CompareTypeOK'
  BY <1>1, <1>3, <1>5, <1>6 DEF CompareTypeOK, Runaways
<1>8. NotHaunted'
  BY <1>1 DEF NotHaunted
<1>9. NotHurried'
  <2>1. ASSUME draws = <<>>
        PROVE  draws' = <<pair>> /\ draws' \in Seq({pair}) /\ Len(draws') + Len(summaries') = 1
    BY <1>1, <2>1
  <2>2. hasty'.hurried = (draws # <<>>)
    BY <1>1
  <2>3. ~hasty'.hurried => draws = <<>>
    BY <2>2
  <2>4. comparison'.pair = pair /\ summaries' \in Seq({pair})
    BY <1>1
  <2>. QED  BY <2>1, <2>3, <2>4 DEF NotHurried
<1>10. ComparesTheSlots' /\ ChartsShowThePair'
  BY <1>1 DEF ComparesTheSlots, ChartsShowThePair
<1>11. PlaysAPair'
  BY <1>1 DEF PlaysAPair
<1>. QED  BY <1>7, <1>8, <1>9, <1>10, <1>11 DEF CompareInv

\* One step per action.
LEMMA CompareInvNext == CompareInv /\ [CompareNext]_compareVars => CompareInv'
<1>. SUFFICES ASSUME CompareInv, [CompareNext]_compareVars PROVE CompareInv'
  OBVIOUS
<1>. USE DEF CompareInv
<1>a. /\ slots \in [Slots -> CompareFiles \cup {NoSamples}] /\ mode \in Modes
      /\ comparison \in [pair: Pairs \cup {NoPair}, mode: Modes]
      /\ LastFrameOf(comparison.pair) \in Nat /\ MaxDraws \in Nat /\ MaxRunaways \in Nat
  BY LastOfPair, CompareAssumption DEF CompareTypeOK
<1>b. /\ player \in [playing: BOOLEAN, frame: 0..LastFrameOf(comparison.pair)]
      /\ runaways \in Seq(Runaways) /\ Len(runaways) <= MaxRunaways
      /\ \A i \in DOMAIN runaways : runaways[i].frame <= LastFrameOf(runaways[i].pair)
      /\ drawn \in Pairs \cup {NoPair}
      /\ summaries \in Seq(Pairs) /\ draws \in Seq(Pairs) /\ Len(summaries) + Len(draws) <= MaxDraws
      /\ hasty \in [haunted: BOOLEAN, hurried: BOOLEAN]
  BY DEF CompareTypeOK, Runaways
<1>1. ASSUME NEW s \in Slots, NEW f \in CompareFiles \cup {NoSamples}, FileRead(s, f)
      PROVE  CompareInv'
  <2>1. slots' = [slots EXCEPT ![s] = f] /\ mode' = mode
    BY <1>1 DEF FileRead
  <2>2. slots' \in [Slots -> CompareFiles \cup {NoSamples}]
    BY <1>a, <2>1
  <2>3. CASE f # NoSamples /\ BothLoaded(slots')
    <3>. DEFINE pair == <<slots'["A"], slots'["B"]>>
    <3>1. RenderComparison(pair, mode)
      BY <1>1, <2>3 DEF FileRead
    <3>2. pair \in Pairs
      BY <2>2, <2>3 DEF BothLoaded, Slots, Pairs
    <3>. HIDE DEF pair
    <3>3. pair = <<slots'["A"], slots'["B"]>>
      BY DEF pair
    <3>. QED  BY <1>a, <2>1, <2>2, <3>1, <3>2, <3>3, Rendered
  <2>4. CASE ~(f # NoSamples /\ BothLoaded(slots'))
    <3>1. UNCHANGED <<comparison, player, runaways, drawn, summaries, draws, hasty>>
      BY <1>1, <2>4 DEF FileRead
    <3>2. ~(\A t \in Slots : slots'[t] # NoSamples)
      BY <1>a, <2>1, <2>4 DEF BothLoaded
    <3>3. ComparesTheSlots'
      BY <3>2 DEF ComparesTheSlots
    <3>4. CompareTypeOK'
      BY <1>a, <1>b, <2>1, <2>2, <3>1 DEF CompareTypeOK
    <3>. QED  BY <3>1, <3>3, <3>4 DEF ChartsShowThePair, PlaysAPair, NotHaunted, NotHurried
  <2>. QED  BY <2>3, <2>4
<1>2. ASSUME NEW i \in DOMAIN draws, FirstFrameDrawn(i) PROVE CompareInv'
  <2>1. /\ draws' = RemoveAt(draws, i) /\ summaries' = Append(summaries, draws[i])
        /\ UNCHANGED <<slots, mode, comparison, player, runaways, drawn, hasty>>
    BY <1>2 DEF FirstFrameDrawn
  <2>2. ASSUME NEW S, draws \in Seq(S), summaries \in Seq(S)
        PROVE  /\ draws' \in Seq(S) /\ summaries' \in Seq(S)
               /\ Len(summaries') + Len(draws') = Len(summaries) + Len(draws)
    <3>1. RemoveAt(draws, i) \in Seq(S) /\ Len(RemoveAt(draws, i)) = Len(draws) - 1
      BY <2>2, <1>2, RemoveAtKeeps
    <3>2. draws[i] \in S /\ Len(draws) \in Nat /\ Len(summaries) \in Nat
      BY <2>2, <1>2
    <3>3. /\ Append(summaries, draws[i]) \in Seq(S)
          /\ Len(Append(summaries, draws[i])) = Len(summaries) + 1
      BY <2>2, <3>2
    <3>. QED  BY <2>1, <3>1, <3>2, <3>3
  <2>3. CompareTypeOK'
    BY <1>a, <1>b, <2>1, <2>2 DEF CompareTypeOK, Runaways
  <2>4. NotHurried'
    <3>. DEFINE S == {comparison.pair}
    <3>1. SUFFICES ASSUME ~hasty.hurried
                   PROVE  /\ draws' \in Seq(S) /\ summaries' \in Seq(S)
                          /\ comparison.pair # NoPair => Len(draws') + Len(summaries') = 1
      BY <2>1 DEF NotHurried
    <3>2. /\ draws \in Seq(S) /\ summaries \in Seq(S)
          /\ comparison.pair # NoPair => Len(draws) + Len(summaries) = 1
      BY <3>1 DEF NotHurried
    <3>. HIDE DEF S
    <3>3. /\ draws' \in Seq(S) /\ summaries' \in Seq(S)
          /\ Len(summaries') + Len(draws') = Len(summaries) + Len(draws)
      BY <2>2, <3>2
    <3>4. /\ Len(draws) \in Nat /\ Len(summaries) \in Nat
          /\ Len(draws') \in Nat /\ Len(summaries') \in Nat
      BY <3>2, <3>3
    <3>. QED  BY <3>2, <3>3, <3>4
  <2>. QED  BY <2>1, <2>3, <2>4 DEF ComparesTheSlots, ChartsShowThePair, PlaysAPair, NotHaunted
<1>3. ASSUME NEW view \in Modes, SelectMode(view) PROVE CompareInv'
  <2>1. /\ comparison.pair # NoPair /\ mode' = view /\ slots' = slots
        /\ RenderComparison(comparison.pair, view)
    BY <1>3 DEF SelectMode
  <2>2. comparison.pair \in Pairs
    BY <1>a, <2>1
  <2>. QED  BY <1>a, <2>1, <2>2, Rendered DEF ComparesTheSlots
<1>4. ASSUME NEW view \in Modes, OtherTabMode(view) PROVE CompareInv'
  <2>1. mode' = view /\ UNCHANGED <<slots, comparison, player, runaways, drawn, summaries, draws, hasty>>
    BY <1>4 DEF OtherTabMode
  <2>2. CompareTypeOK'
    BY <1>a, <1>b, <2>1 DEF CompareTypeOK
  <2>. QED  BY <2>1, <2>2 DEF ComparesTheSlots, ChartsShowThePair, PlaysAPair, NotHaunted, NotHurried
<1>5. ASSUME player' \in [playing: BOOLEAN, frame: 0..LastFrameOf(comparison.pair)],
             drawn' \in {drawn, comparison.pair}, player'.playing => comparison.pair # NoPair,
             UNCHANGED <<slots, mode, comparison, runaways, summaries, draws, hasty>>
      PROVE  CompareInv'
  <2>1. CompareTypeOK'
    BY <1>a, <1>b, <1>5 DEF CompareTypeOK
  <2>2. ChartsShowThePair'
    BY <1>5 DEF ChartsShowThePair
  <2>. QED  BY <1>5, <2>1, <2>2 DEF ComparesTheSlots, PlaysAPair, NotHaunted, NotHurried
<1>6. CASE Play \/ Pause
  <2>1. /\ player' \in [playing: BOOLEAN, frame: 0..LastFrameOf(comparison.pair)]
        /\ comparison.pair # NoPair
    BY <1>6, <1>b DEF Play, Pause
  <2>. QED  BY <1>5, <1>6, <2>1 DEF Play, Pause
<1>7. CASE Tick
  <2>. DEFINE last == LastFrameOf(comparison.pair)
              next == NextFrame(player.frame, last)
  <2>1. /\ player' = [playing |-> next < last, frame |-> next] /\ drawn' = comparison.pair
        /\ UNCHANGED <<slots, mode, comparison, runaways, summaries, draws, hasty>>
    BY <1>7 DEF Tick, RenderPair
  <2>2. next \in 0..last
    BY <1>a, <1>b DEF NextFrame
  <2>3. (next < last) \in BOOLEAN /\ comparison.pair # NoPair
    BY <1>7 DEF Tick, PlaysAPair
  <2>. HIDE DEF next
  <2>. QED  BY <1>5, <2>1, <2>2, <2>3
<1>8. ASSUME NEW i \in DOMAIN runaways, RunawayTick(i) PROVE CompareInv'
  <2>. DEFINE mine == runaways[i]
              last == LastFrameOf(mine.pair)
              next == NextFrame(mine.frame, last)
  <2>1. /\ \/ next < last /\ runaways' = [runaways EXCEPT ![i].frame = next]
           \/ runaways' = RemoveAt(runaways, i)
        /\ drawn' \in {drawn, mine.pair}
        /\ UNCHANGED <<slots, mode, comparison, player, summaries, draws, hasty>>
    BY <1>8 DEF RunawayTick, RenderPair
  <2>2. mine \in Runaways
    BY <1>b, <1>8
  <2>3. last \in Nat /\ mine.pair \in Pairs /\ mine.frame \in Nat
    BY <2>2, LastOfPair DEF Runaways
  <2>4. next \in Nat
    BY <2>3 DEF NextFrame
  <2>5. /\ runaways' \in Seq(Runaways) /\ Len(runaways') <= MaxRunaways
        /\ \A k \in DOMAIN runaways' : runaways'[k].frame <= LastFrameOf(runaways'[k].pair)
    <3>1. CASE next < last /\ runaways' = [runaways EXCEPT ![i].frame = next]
      <4>. DEFINE r == [mine EXCEPT !.frame = next]
      <4>1. r \in Runaways /\ r.frame = next /\ r.pair = mine.pair
        BY <2>2, <2>4 DEF Runaways
      <4>2. runaways' = [runaways EXCEPT ![i] = r]
        BY <3>1
      <4>3. r.frame <= LastFrameOf(r.pair)
        BY <2>3, <2>4, <3>1, <4>1
      <4>. HIDE DEF r
      <4>4. runaways' \in Seq(Runaways) /\ Len(runaways') = Len(runaways)
        BY <1>b, <4>1, <4>2
      <4>5. DOMAIN runaways' = DOMAIN runaways /\ runaways'[i] = r
        BY <1>8, <4>2
      <4>6. \A k \in DOMAIN runaways : k # i => runaways'[k] = runaways[k]
        BY <4>2
      <4>7. \A k \in DOMAIN runaways' : runaways'[k].frame <= LastFrameOf(runaways'[k].pair)
        BY <1>b, <4>3, <4>5, <4>6
      <4>. QED  BY <1>b, <4>4, <4>7
    <3>2. CASE runaways' = RemoveAt(runaways, i)
      <4>. DEFINE Fine == {r \in Runaways : r.frame <= LastFrameOf(r.pair)}
      <4>1. runaways \in Seq(Fine)
        <5>1. \A k \in DOMAIN runaways : runaways[k] \in Fine
          BY <1>b
        <5>. HIDE DEF Fine
        <5>. QED  BY <1>b, <5>1
      <4>2. RemoveAt(runaways, i) \in Seq(Fine) /\ Len(RemoveAt(runaways, i)) = Len(runaways) - 1
        <5>. HIDE DEF Fine
        <5>. QED  BY <1>8, <4>1, RemoveAtKeeps
      <4>3. RemoveAt(runaways, i) \in Seq(Runaways)
        BY <1>8, <1>b, RemoveAtKeeps
      <4>4. \A k \in DOMAIN runaways' : runaways'[k] \in Fine
        <5>. HIDE DEF Fine
        <5>. QED  BY <3>2, <4>2
      <4>5. Len(runaways') <= MaxRunaways
        <5>1. Len(runaways) \in Nat
          BY <1>b
        <5>. QED  BY <1>a, <1>b, <3>2, <4>2, <5>1
      <4>. QED  BY <3>2, <4>3, <4>4, <4>5
    <3>. QED  BY <2>1, <3>1, <3>2
  <2>6. hasty.haunted
    BY <1>8 DEF NotHaunted
  <2>7. CompareTypeOK'
    <3>1. drawn' \in Pairs \cup {NoPair}
      BY <1>b, <2>1, <2>3
    <3>. HIDE DEF mine, next, last
    <3>. QED  BY <1>a, <1>b, <2>1, <2>5, <3>1 DEF CompareTypeOK, Runaways
  <2>. QED  BY <2>1, <2>6, <2>7 DEF ComparesTheSlots, ChartsShowThePair, PlaysAPair, NotHaunted, NotHurried
<1>9. ASSUME NEW frame \in 0..LastFrameOf(comparison.pair), SeekTo(frame) PROVE CompareInv'
  <2>1. player' = [playing |-> FALSE, frame |-> frame]
    BY <1>9 DEF SeekTo
  <2>2. /\ player' \in [playing: BOOLEAN, frame: 0..LastFrameOf(comparison.pair)]
        /\ ~player'.playing
    BY <2>1
  <2>. QED  BY <1>5, <1>9, <2>2 DEF SeekTo, RenderPair
<1>10. CASE UNCHANGED compareVars
  BY <1>b, <1>5, <1>10 DEF compareVars, PlaysAPair
<1>. QED
  BY <1>1, <1>2, <1>3, <1>4, <1>6, <1>7, <1>8, <1>9, <1>10
     DEF CompareNext, FirstFrames, RunawayTicks

LEMMA CompareSpecInv == CompareSpec => []CompareInv
BY CompareInvInit, CompareInvNext, PTL DEF CompareSpec

\* The page compares the files of its two slots, whatever is read, fails or is replaced, and
\* draws that pair and summarises it once, unless a replay was under way when it was rendered,
\* however many were left behind, or the first frame of one before was not drawn yet.
THEOREM ThePageComparesItsSlots == CompareSpec => []ComparisonAgrees
<1>1. CompareInv => OneSummary
  <2>. SUFFICES ASSUME CompareInv, comparison.pair # NoPair, draws = <<>>, ~hasty.hurried
                PROVE  summaries = <<comparison.pair>>
    BY DEF OneSummary
  <2>1. summaries \in Seq({comparison.pair}) /\ Len(draws) + Len(summaries) = 1
    BY DEF CompareInv, NotHurried
  <2>2. Len(summaries) = 1
    BY <2>1
  <2>3. \A i \in 1..Len(summaries) : summaries[i] = <<comparison.pair>>[i]
    BY <2>1, <2>2
  <2>4. <<comparison.pair>> \in Seq({comparison.pair}) /\ Len(<<comparison.pair>>) = 1
    OBVIOUS
  <2>. QED  BY <2>1, <2>2, <2>3, <2>4, SeqEqual
<1>2. CompareInv => ComparisonAgrees
  BY <1>1 DEF CompareInv, ComparisonAgrees
<1>. QED  BY CompareSpecInv, <1>2, PTL
\* The step of the abstract replay that each step of the compare page takes.
PlaybackStep ==
  [ComparisonPlayback!PlaybackNext]_<<player.playing, player.frame, LastFrameOf(comparison.pair)>>

LEMMA CompareStepPlays ==
  ASSUME CompareInv, [CompareNext]_compareVars
  PROVE  PlaybackStep
<1>. DEFINE last == LastFrameOf(comparison.pair)
<1>a. /\ player \in [playing: BOOLEAN, frame: 0..last] /\ last \in Nat
      /\ comparison.pair \in Pairs \cup {NoPair}
  BY LastOfPair DEF CompareInv, CompareTypeOK
<1>1. ASSUME player' = player, comparison' = comparison PROVE PlaybackStep
  BY <1>1 DEF PlaybackStep
<1>2. ASSUME player' = [playing |-> FALSE, frame |-> 0], comparison'.pair \in Pairs PROVE PlaybackStep
  <2>1. LastFrameOf(comparison'.pair) \in Nat
    BY <1>2, LastOfPair
  <2>. QED  BY <1>2, <2>1 DEF PlaybackStep, ComparisonPlayback!PlaybackNext, ComparisonPlayback!Load
<1>3. ASSUME NEW pair \in Pairs, NEW view, RenderComparison(pair, view) PROVE PlaybackStep
  BY <1>2, <1>3 DEF RenderComparison
<1>4. ASSUME NEW s \in Slots, NEW f \in CompareFiles \cup {NoSamples}, FileRead(s, f) PROVE PlaybackStep
  <2>1. slots' \in [Slots -> CompareFiles \cup {NoSamples}]
    BY <1>4 DEF FileRead, CompareInv, CompareTypeOK
  <2>2. CASE f # NoSamples /\ BothLoaded(slots')
    <3>. DEFINE pair == <<slots'["A"], slots'["B"]>>
    <3>1. RenderComparison(pair, mode)
      BY <1>4, <2>2 DEF FileRead
    <3>2. pair \in Pairs
      BY <2>1, <2>2 DEF BothLoaded, Slots, Pairs
    <3>. HIDE DEF pair
    <3>. QED  BY <1>3, <3>1, <3>2
  <2>3. CASE ~(f # NoSamples /\ BothLoaded(slots'))
    BY <1>1, <1>4, <2>3 DEF FileRead
  <2>. QED  BY <2>2, <2>3
<1>5. ASSUME NEW view \in Modes, SelectMode(view) PROVE PlaybackStep
  <2>1. comparison.pair \in Pairs /\ RenderComparison(comparison.pair, view)
    BY <1>a, <1>5 DEF SelectMode
  <2>. QED  BY <1>3, <2>1
<1>6. CASE Play
  <2>1. /\ player'.playing = TRUE /\ player'.frame = player.frame /\ comparison' = comparison
    BY <1>a, <1>6 DEF Play
  <2>. QED  BY <2>1 DEF PlaybackStep, ComparisonPlayback!PlaybackNext, ComparisonPlayback!Start
<1>7. CASE Pause
  <2>1. /\ player'.playing = FALSE /\ player'.frame = player.frame /\ comparison' = comparison
    BY <1>a, <1>7 DEF Pause
  <2>. QED  BY <2>1 DEF PlaybackStep, ComparisonPlayback!PlaybackNext, ComparisonPlayback!Stop
<1>8. ASSUME NEW frame \in 0..last, SeekTo(frame) PROVE PlaybackStep
  <2>1. player'.playing = FALSE /\ player'.frame = frame /\ comparison' = comparison
    BY <1>8 DEF SeekTo
  <2>. QED  BY <1>8, <2>1 DEF PlaybackStep, ComparisonPlayback!PlaybackNext, ComparisonPlayback!Seek
<1>9. CASE Tick
  <2>. DEFINE next == NextFrame(player.frame, last)
  <2>1. /\ player' = [playing |-> next < last, frame |-> next] /\ comparison' = comparison
        /\ player.playing
    BY <1>9 DEF Tick
  <2>2. player'.playing = (next < last) /\ player'.frame = next
    BY <2>1
  <2>3. player.frame \in Nat /\ player.frame <= last
    BY <1>a
  <2>4. CASE player.frame < last
    <3>1. next = player.frame + 1 /\ (next < last \/ next = last) /\ (next < last) \in BOOLEAN
      BY <1>a, <2>3, <2>4 DEF NextFrame
    <3>. HIDE DEF next
    <3>2. ComparisonPlayback!Advance
      BY <2>1, <2>2, <2>4, <3>1 DEF ComparisonPlayback!Advance
    <3>. QED  BY <3>2 DEF PlaybackStep, ComparisonPlayback!PlaybackNext
  <2>5. CASE ~(player.frame < last)
    <3>1. next = last /\ last = player.frame
      BY <1>a, <2>3, <2>5 DEF NextFrame
    <3>a. (next < last) = FALSE
      BY <1>a, <3>1
    <3>2. player'.playing = FALSE
      BY <2>2, <3>a
    <3>. HIDE DEF next
    <3>3. ComparisonPlayback!Stop
      BY <2>1, <2>2, <3>1, <3>2 DEF ComparisonPlayback!Stop
    <3>. QED  BY <3>3 DEF PlaybackStep, ComparisonPlayback!PlaybackNext
  <2>. QED  BY <2>4, <2>5
<1>10. CASE RunawayTicks \/ FirstFrames \/ \E view \in Modes : OtherTabMode(view)
  <2>1. player' = player /\ comparison' = comparison
    BY <1>10 DEF RunawayTicks, RunawayTick, FirstFrames, FirstFrameDrawn, OtherTabMode
  <2>. QED  BY <1>1, <2>1
<1>11. CASE UNCHANGED compareVars
  BY <1>1, <1>11 DEF compareVars
<1>12. ASSUME NEW view \in Modes, SelectMode(view) \/ OtherTabMode(view) PROVE PlaybackStep
  BY <1>5, <1>10, <1>12
<1>. QED
  BY <1>4, <1>6, <1>7, <1>8, <1>9, <1>10, <1>11, <1>12 DEF CompareNext

\* The replay of a comparison does only what its controls promise: play, tick, pause and the
\* timeline show one frame after the other, of the pair that is compared, up to its last.
\* (That it comes to its end, the other half of ComparisonIsPlayback, is left to TLC.)
THEOREM ComparisonRefinesPlayback == CompareSpec => ComparisonPlayback!PlaybackSpec
<1>1. CompareInit => ComparisonPlayback!PlaybackInit
  BY DEF CompareInit, ComparisonPlayback!PlaybackInit, LastFrameOf
<1>2. CompareInv /\ [CompareNext]_compareVars =>
        [ComparisonPlayback!PlaybackNext]_<<player.playing, player.frame, LastFrameOf(comparison.pair)>>
  BY CompareStepPlays DEF PlaybackStep
<1>. QED  BY CompareSpecInv, <1>1, <1>2, PTL DEF CompareSpec, ComparisonPlayback!PlaybackSpec
----------------------------------------------------------------------------
(***************************************************************************)
(* The chart studio.  A preset that is saved is saved with its layers; the *)
(* initial layers stay what they are until something is saved, but for a   *)
(* layer B that a run lacks.                                               *)
(***************************************************************************)
SavedWithPreset ==
  /\ saved.preset \in DOMAIN Overlay =>
       /\ saved.layers.a = Overlay[saved.preset].a
       /\ saved.layers.b \in {Overlay[saved.preset].b, NoMetric}
  /\ saved.preset = NoPreset => layers.a = Catalog[1]

StudioInv == StudioTypeOK /\ StudioIsOfItsRun /\ PressedIsOverlaid /\ SavedWithPreset

LEMMA CatalogFacts ==
  /\ Catalog[1] \in Metrics /\ Catalog[2] \in Metrics /\ NoMetric \notin Metrics
  /\ "custom" \notin DOMAIN Overlay /\ NoPreset \notin DOMAIN Overlay
  /\ DefaultPreset \in DOMAIN Overlay
  /\ \A id \in DOMAIN Overlay :
       /\ Overlay[id].a \in Metrics /\ Overlay[id].b \in Metrics
       /\ Overlay[id].a # Overlay[id].b /\ Overlay[id] = [a |-> Overlay[id].a, b |-> Overlay[id].b]
  /\ \A r \in Runs : Catalog[1] \in MetricsOf[r] /\ MetricsOf[r] \subseteq Metrics
<1>a. Catalog \in Seq(STRING) /\ Len(Catalog) > 1
  BY StudioAssumption
<1>1. DOMAIN Catalog = 1..Len(Catalog) /\ Len(Catalog) \in Nat /\ Len(Catalog) > 1
  BY <1>a, LenProperties
<1>2. Catalog[1] \in Metrics /\ Catalog[2] \in Metrics
  BY <1>1 DEF Metrics, ToSet
<1>. QED
  BY <1>2, StudioAssumption DEF Metrics, NoMetric, NoPreset, DefaultPreset

\* FirstOf is a metric of the run other than the one it is to avoid, or none.
LEMMA FirstOfAvoids ==
  ASSUME NEW r \in Runs, NEW m
  PROVE  FirstOf(r, m) \in (MetricsOf[r] \ {m}) \cup {NoMetric}
<1>. DEFINE I == {i \in 1..Len(Catalog) : Catalog[i] \in MetricsOf[r] /\ Catalog[i] # m}
            first == IF I # {} THEN Min(I) ELSE 0
<1>1. FirstOf(r, m) = IF first = 0 THEN NoMetric ELSE Catalog[first]
  BY DEF FirstOf, SelectInSeq
<1>2. I \subseteq Nat
  <2>1. Catalog \in Seq(STRING)
    BY StudioAssumption
  <2>2. Len(Catalog) \in Nat
    BY <2>1, LenProperties
  <2>. QED  BY <2>2
<1>3. I # {} => Min(I) \in I
  <2>. HIDE DEF I
  <2>. QED  BY <1>2, MinOfNaturals
<1>4. CASE I = {}
  BY <1>1, <1>4
<1>5. CASE I # {}
  <2>. DEFINE i == Min(I)
  <2>1. i \in I
    BY <1>3, <1>5
  <2>2. Catalog[i] \in MetricsOf[r] /\ Catalog[i] # m
    BY <2>1
  <2>3. FirstOf(r, m) \in {NoMetric, Catalog[i]}
    BY <1>1, <1>5
  <2>. HIDE DEF i
  <2>. QED  BY <2>2, <2>3
<1>. QED  BY <1>4, <1>5

\* restoreLayers gives metrics of the run.
LEMMA RestoredIsOfRun ==
  ASSUME NEW r \in Runs, StudioInv
  PROVE  /\ Restored(r) \in Layers /\ Restored(r).a \in MetricsOf[r]
         /\ Restored(r).b \in MetricsOf[r] \cup {NoMetric}
<1>. DEFINE wanted == IF saved.preset \in DOMAIN Overlay THEN Overlay[saved.preset]
                      ELSE IF saved.preset = "custom" THEN saved.layers ELSE layers
            x == IfAvailable(r, IfAvailable(r, wanted.a, layers.a), Catalog[1])
            y == IfAvailable(r, wanted.b, layers.b)
            z == IF y \in MetricsOf[r] THEN y ELSE FirstOf(r, x)
<1>1. Restored(r) = [a |-> x, b |-> z]
  BY DEF Restored
<1>2. MetricsOf[r] \subseteq Metrics /\ Catalog[1] \in MetricsOf[r]
  BY CatalogFacts
<1>3. x \in MetricsOf[r]
  BY <1>2 DEF IfAvailable
<1>. HIDE DEF x, y
<1>4. z \in MetricsOf[r] \cup {NoMetric}
  BY FirstOfAvoids
<1>. HIDE DEF z
<1>. QED  BY <1>1, <1>2, <1>3, <1>4 DEF Layers

\* Layers that the run has and that are wanted are restored.
LEMMA RestoredAsWanted ==
  ASSUME NEW r \in Runs, StudioInv, saved.preset \in DOMAIN Overlay,
         Overlay[saved.preset].a \in MetricsOf[r], Overlay[saved.preset].b \in MetricsOf[r]
  PROVE  Restored(r) = [a |-> Overlay[saved.preset].a, b |-> Overlay[saved.preset].b]
BY DEF Restored, IfAvailable

LEMMA RestoredAsSaved ==
  ASSUME NEW r \in Runs, StudioInv, saved.preset = "custom",
         saved.layers.a \in MetricsOf[r], saved.layers.b \in MetricsOf[r]
  PROVE  Restored(r).a = saved.layers.a /\ Restored(r).b = saved.layers.b
BY CatalogFacts DEF Restored, IfAvailable

LEMMA RestoredAsWas ==
  ASSUME NEW r \in Runs, StudioInv, saved.preset = NoPreset
  PROVE  /\ Restored(r).a = Catalog[1]
         /\ Restored(r).b \in {layers.b} \cup (Metrics \ {Catalog[1]}) \cup {NoMetric}
<1>. DEFINE b == IfAvailable(r, layers.b, layers.b)
            z == IF b \in MetricsOf[r] THEN b ELSE FirstOf(r, Catalog[1])
<1>1. layers.a = Catalog[1] /\ NoPreset \notin DOMAIN Overlay /\ NoPreset # "custom"
  BY CatalogFacts DEF StudioInv, SavedWithPreset, NoPreset
<1>2. Restored(r) = [a |-> Catalog[1], b |-> z]
  BY <1>1, CatalogFacts DEF Restored, IfAvailable
<1>3. b = layers.b
  BY DEF IfAvailable
<1>4. FirstOf(r, Catalog[1]) \in (Metrics \ {Catalog[1]}) \cup {NoMetric}
  BY FirstOfAvoids, CatalogFacts
<1>. QED  BY <1>2, <1>3, <1>4

LEMMA StudioInvInit == StudioInit => StudioInv
<1>. SUFFICES ASSUME StudioInit PROVE StudioInv
  OBVIOUS
<1>1. StudioTypeOK
  BY CatalogFacts DEF StudioInit, StudioTypeOK, Layers, Unmounted, NoPreset
<1>. QED
  BY <1>1, CatalogFacts
     DEF StudioInit, StudioInv, StudioIsOfItsRun, PressedIsOverlaid, SavedWithPreset, Unmounted

\* What the elements of the studio are when they are built for a run.
LEMMA MountedTypes ==
  ASSUME StudioInv, NEW metrics \in SUBSET Metrics, NEW at \in Layers
  PROVE  /\ Mounted(metrics, at) \in
                [offered: SUBSET Metrics, a: Metrics \cup {NoMetric},
                 b: Metrics \cup {NoMetric}, pressed: DOMAIN Overlay \cup {NoPreset}]
         /\ Mounted(metrics, at).offered = metrics
         /\ Mounted(metrics, at).a = ValueOf(at.a, metrics)
         /\ Mounted(metrics, at).b = ValueOf(at.b, metrics)
         /\ Mounted(metrics, at).pressed = PressedAtMount(metrics)
<1>1. ValueOf(at.a, metrics) \in Metrics \cup {NoMetric}
  BY DEF ValueOf, Layers
<1>2. ValueOf(at.b, metrics) \in Metrics \cup {NoMetric}
  BY DEF ValueOf, Layers
<1>3. PressedAtMount(metrics) \in DOMAIN Overlay \cup {NoPreset}
  BY DEF PressedAtMount
<1>. QED  BY <1>1, <1>2, <1>3 DEF Mounted

\* A run is given to the studio, on elements built for it or, stale, for another.
LEMMA RunGiven ==
  ASSUME StudioInv, NEW r \in Runs, NEW metrics \in SUBSET Metrics, NEW visible \in BOOLEAN,
         layers' = Restored(r), mounted' = Mounted(metrics, layers'),
         shows' = [run |-> r, visible |-> visible], stale' \in BOOLEAN,
         stale' \/ metrics = MetricsOf[r], saved' = saved
  PROVE  StudioInv'
<1>1. /\ layers' \in Layers /\ layers'.a \in MetricsOf[r]
      /\ layers'.b \in MetricsOf[r] \cup {NoMetric}
  BY RestoredIsOfRun
<1>2. /\ mounted' \in [offered: SUBSET Metrics, a: Metrics \cup {NoMetric},
                       b: Metrics \cup {NoMetric}, pressed: DOMAIN Overlay \cup {NoPreset}]
      /\ mounted'.offered = metrics /\ mounted'.a = ValueOf(layers'.a, metrics)
      /\ mounted'.b = ValueOf(layers'.b, metrics) /\ mounted'.pressed = PressedAtMount(metrics)
  BY <1>1, MountedTypes
<1>3. StudioTypeOK'
  BY <1>1, <1>2 DEF StudioInv, StudioTypeOK
<1>4. StudioIsOfItsRun'
  <2>1. SUFFICES ASSUME ~stale'
                 PROVE  /\ mounted'.offered = MetricsOf[r] /\ layers'.a \in MetricsOf[r]
                        /\ layers'.b \in MetricsOf[r] \cup {NoMetric}
                        /\ mounted'.a = layers'.a /\ mounted'.b = layers'.b
    BY DEF StudioIsOfItsRun
  <2>. QED  BY <1>1, <1>2, <2>1 DEF ValueOf
<1>5. PressedIsOverlaid'
  <2>1. SUFFICES ASSUME ~stale', mounted'.pressed \notin {NoPreset, DefaultPreset}
                 PROVE  layers' = [a |-> Overlay[mounted'.pressed].a, b |-> Overlay[mounted'.pressed].b]
    BY DEF PressedIsOverlaid
  <2>2. /\ saved.preset # NoPreset /\ mounted'.pressed = saved.preset
        /\ saved.preset \in DOMAIN Overlay
        /\ {Overlay[saved.preset].a, Overlay[saved.preset].b} \subseteq MetricsOf[r]
    BY <1>2, <2>1 DEF PressedAtMount
  <2>. QED  BY <2>2, RestoredAsWanted
<1>6. SavedWithPreset'
  <2>1. saved.preset = NoPreset => layers'.a = Catalog[1]
    BY RestoredAsWas
  <2>. QED  BY <2>1 DEF StudioInv, SavedWithPreset
<1>. QED  BY <1>3, <1>4, <1>5, <1>6 DEF StudioInv

\* The reader chooses layers that the studio offers.
LEMMA LayersChosen ==
  ASSUME StudioInv, Used, NEW chosen \in Layers, Choose(chosen),
         ~stale => chosen.a \in MetricsOf[shows.run]
                   /\ chosen.b \in MetricsOf[shows.run] \cup {NoMetric}
  PROVE  StudioInv'
<1>. USE DEF Choose
<1>1. /\ saved' = [preset |-> "custom", layers |-> chosen] /\ layers' = chosen
      /\ mounted' = [mounted EXCEPT !.a = chosen.a, !.b = ValueOf(chosen.b, mounted.offered),
                                    !.pressed = NoPreset]
      /\ shows' = shows /\ stale' = stale
  OBVIOUS
<1>2. ValueOf(chosen.b, mounted.offered) \in Metrics \cup {NoMetric}
  BY DEF ValueOf, Layers
<1>3. chosen.a \in Metrics
  BY DEF Layers
<1>4. /\ mounted' \in [offered: SUBSET Metrics, a: Metrics \cup {NoMetric},
                       b: Metrics \cup {NoMetric}, pressed: DOMAIN Overlay \cup {NoPreset}]
      /\ mounted'.offered = mounted.offered /\ mounted'.a = chosen.a
      /\ mounted'.b = ValueOf(chosen.b, mounted.offered) /\ mounted'.pressed = NoPreset
  BY <1>1, <1>2, <1>3 DEF StudioInv, StudioTypeOK
<1>5. StudioTypeOK'
  BY <1>1, <1>4 DEF StudioInv, StudioTypeOK
<1>6. StudioIsOfItsRun'
  BY <1>1, <1>4 DEF StudioInv, StudioIsOfItsRun, Used, ValueOf
<1>7. PressedIsOverlaid'
  BY <1>4 DEF PressedIsOverlaid
<1>8. SavedWithPreset'
  BY <1>1, CatalogFacts DEF SavedWithPreset, NoPreset
<1>. QED  BY <1>5, <1>6, <1>7, <1>8 DEF StudioInv

\* One step per action.
LEMMA StudioInvNext == StudioInv /\ [StudioNext]_studioVars => StudioInv'
<1>. SUFFICES ASSUME StudioInv, [StudioNext]_studioVars PROVE StudioInv'
  OBVIOUS
<1>a. /\ layers \in Layers /\ shows \in [run: Runs \cup {NoRun}, visible: BOOLEAN]
      /\ mounted \in [offered: SUBSET Metrics, a: Metrics \cup {NoMetric},
                      b: Metrics \cup {NoMetric}, pressed: DOMAIN Overlay \cup {NoPreset}]
      /\ stale \in BOOLEAN
      /\ saved \in [preset: DOMAIN Overlay \cup {"custom", NoPreset}, layers: Layers]
  BY DEF StudioInv, StudioTypeOK
<1>b. \A r \in Runs : MetricsOf[r] \in SUBSET Metrics
  BY CatalogFacts
<1>1. ASSUME NEW r \in Runs, NEW visible \in BOOLEAN, RenderRun(r, visible) PROVE StudioInv'
  BY <1>1, <1>b, RunGiven DEF RenderRun
<1>2. ASSUME NEW r \in Runs, NEW visible \in BOOLEAN, LoadFile(r, visible) PROVE StudioInv'
  <2>. DEFINE early == visible /\ shows.run # NoRun
              metrics == IF early THEN MetricsOf[shows.run] ELSE MetricsOf[r]
  <2>1. /\ layers' = Restored(r) /\ mounted' = Mounted(metrics, layers')
        /\ shows' = [run |-> r, visible |-> visible] /\ stale' = early /\ saved' = saved
    BY <1>2 DEF LoadFile
  <2>2. metrics \in SUBSET Metrics /\ early \in BOOLEAN /\ (early \/ metrics = MetricsOf[r])
    BY <1>a, <1>b
  <2>. HIDE DEF early, metrics
  <2>. QED  BY <2>1, <2>2, RunGiven
<1>3. ASSUME NEW visible \in BOOLEAN, ShowStudio(visible) PROVE StudioInv'
  <2>1. /\ shows' = [shows EXCEPT !.visible = visible]
        /\ UNCHANGED <<saved, layers, mounted, stale>>
    BY <1>3 DEF ShowStudio
  <2>2. shows' \in [run: Runs \cup {NoRun}, visible: BOOLEAN] /\ shows'.run = shows.run
    BY <1>a, <2>1
  <2>3. StudioTypeOK'
    BY <1>a, <2>1, <2>2 DEF StudioTypeOK
  <2>. QED  BY <2>1, <2>2, <2>3 DEF StudioInv, StudioIsOfItsRun, PressedIsOverlaid, SavedWithPreset
<1>4. ASSUME NEW id \in DOMAIN Overlay, ApplyPreset(id) PROVE StudioInv'
  <2>1. CASE UNCHANGED <<saved, layers, mounted>>
    <3>1. UNCHANGED studioVars
      BY <1>4, <2>1 DEF ApplyPreset, studioVars
    <3>. QED
      BY <3>1 DEF studioVars, StudioInv, StudioTypeOK, StudioIsOfItsRun, PressedIsOverlaid, SavedWithPreset
  <2>2. CASE Overlay[id].a \in MetricsOf[shows.run]
    <3>. DEFINE b == IfAvailable(shows.run, Overlay[id].b, NoMetric)
    <3>1. /\ layers' = [a |-> Overlay[id].a, b |-> b]
          /\ saved' = [preset |-> id, layers |-> layers']
          /\ mounted' = [mounted EXCEPT !.a = layers'.a, !.b = layers'.b, !.pressed = id]
          /\ shows' = shows /\ stale' = stale /\ shows.run # NoRun
          /\ {Overlay[id].a, Overlay[id].b} \subseteq mounted.offered
      BY <1>4, <2>2 DEF ApplyPreset, Used
    <3>2. Overlay[id].a \in Metrics /\ Overlay[id].b \in Metrics /\ id # NoPreset
      BY CatalogFacts
    <3>3. b \in {Overlay[id].b, NoMetric} /\ (b = NoMetric \/ b \in MetricsOf[shows.run])
      BY DEF IfAvailable
    <3>4. ~stale => b = Overlay[id].b
      BY <3>1 DEF StudioInv, StudioIsOfItsRun, IfAvailable
    <3>. HIDE DEF b
    <3>5. layers' \in Layers /\ layers'.a = Overlay[id].a /\ layers'.b = b
      BY <3>1, <3>2, <3>3 DEF Layers
    <3>6. /\ mounted' \in [offered: SUBSET Metrics, a: Metrics \cup {NoMetric},
                           b: Metrics \cup {NoMetric}, pressed: DOMAIN Overlay \cup {NoPreset}]
          /\ mounted'.offered = mounted.offered /\ mounted'.a = Overlay[id].a
          /\ mounted'.b = b /\ mounted'.pressed = id
      BY <1>a, <3>1, <3>2, <3>3, <3>5
    <3>7. saved'.preset = id /\ saved'.layers = layers'
      BY <3>1
    <3>8. saved' \in [preset: DOMAIN Overlay \cup {"custom", NoPreset}, layers: Layers]
      BY <3>1, <3>5
    <3>9. StudioTypeOK'
      BY <1>a, <3>1, <3>5, <3>6, <3>8 DEF StudioTypeOK
    <3>10. StudioIsOfItsRun'
      BY <2>2, <3>1, <3>3, <3>5, <3>6 DEF StudioInv, StudioIsOfItsRun
    <3>11. PressedIsOverlaid'
      BY <3>1, <3>4, <3>6 DEF PressedIsOverlaid
    <3>12. SavedWithPreset'
      BY <3>2, <3>3, <3>5, <3>7 DEF SavedWithPreset
    <3>. QED  BY <3>9, <3>10, <3>11, <3>12 DEF StudioInv
  <2>. QED  BY <1>4, <2>1, <2>2 DEF ApplyPreset
<1>5. ASSUME NEW m \in Metrics, SelectA(m) PROVE StudioInv'
  <2>. DEFINE b == IF layers.b = m THEN FirstOf(shows.run, m) ELSE layers.b
              chosen == [a |-> m, b |-> b]
  <2>1. Used /\ m \in mounted.offered /\ Choose(chosen)
    BY <1>5 DEF SelectA
  <2>2. shows.run \in Runs
    BY <1>a, <2>1 DEF Used
  <2>3. FirstOf(shows.run, m) \in MetricsOf[shows.run] \cup {NoMetric}
    BY <2>2, FirstOfAvoids
  <2>4. b \in Metrics \cup {NoMetric}
    BY <1>a, <1>b, <2>2, <2>3 DEF Layers
  <2>5. ~stale => m \in MetricsOf[shows.run] /\ b \in MetricsOf[shows.run] \cup {NoMetric}
    BY <2>1, <2>3 DEF StudioInv, StudioIsOfItsRun, Used
  <2>. HIDE DEF b
  <2>6. chosen \in Layers /\ chosen.a = m /\ chosen.b = b
    BY <2>4 DEF Layers
  <2>. HIDE DEF chosen
  <2>. QED  BY <2>1, <2>5, <2>6, LayersChosen
<1>6. ASSUME NEW m \in Metrics \cup {NoMetric}, SelectB(m) PROVE StudioInv'
  <2>. DEFINE chosen == [layers EXCEPT !.b = m]
  <2>1. Used /\ m \in mounted.offered \cup {NoMetric} /\ Choose(chosen)
    BY <1>6 DEF SelectB
  <2>2. chosen \in Layers /\ chosen.a = layers.a /\ chosen.b = m
    BY <1>a DEF Layers
  <2>3. ~stale => layers.a \in MetricsOf[shows.run] /\ m \in MetricsOf[shows.run] \cup {NoMetric}
    BY <2>1 DEF StudioInv, StudioIsOfItsRun, Used
  <2>. HIDE DEF chosen
  <2>. QED  BY <2>1, <2>2, <2>3, LayersChosen
<1>7. ASSUME NEW chosen \in Layers, NEW preset \in DOMAIN Overlay \cup {"custom"},
             OtherStudio(chosen, preset)
      PROVE  StudioInv'
  <2>1. /\ saved' = [preset |-> preset, layers |-> chosen]
        /\ preset \in DOMAIN Overlay => chosen = Overlay[preset]
        /\ UNCHANGED <<layers, mounted, shows, stale>>
    BY <1>7 DEF OtherStudio
  <2>2. /\ saved' \in [preset: DOMAIN Overlay \cup {"custom", NoPreset}, layers: Layers]
        /\ saved'.preset = preset /\ saved'.layers = chosen
    BY <2>1
  <2>3. preset # NoPreset
    BY CatalogFacts DEF NoPreset
  <2>4. StudioTypeOK'
    BY <1>a, <2>1, <2>2 DEF StudioTypeOK
  <2>5. SavedWithPreset'
    BY <2>1, <2>2, <2>3 DEF SavedWithPreset
  <2>. QED  BY <2>1, <2>4, <2>5 DEF StudioInv, StudioIsOfItsRun, PressedIsOverlaid
<1>8. ASSUME NEW id \in DOMAIN Overlay, OtherStudio(Overlay[id], id) PROVE StudioInv'
  <2>1. Overlay[id] \in Layers
    BY StudioAssumption DEF Layers, Metrics
  <2>. QED  BY <1>7, <1>8, <2>1
<1>9. ASSUME NEW r \in Runs, NEW x \in MetricsOf[r], NEW y \in MetricsOf[r],
             OtherStudio([a |-> x, b |-> y], "custom")
      PROVE  StudioInv'
  <2>1. [a |-> x, b |-> y] \in Layers
    BY <1>b DEF Layers
  <2>. QED  BY <1>7, <1>9, <2>1
<1>10. CASE UNCHANGED studioVars
  BY <1>10 DEF studioVars, StudioInv, StudioTypeOK, StudioIsOfItsRun, PressedIsOverlaid, SavedWithPreset
<1>. QED
  BY <1>1, <1>2, <1>3, <1>4, <1>5, <1>6, <1>8, <1>9, <1>10 DEF StudioNext, SelectsB

LEMMA StudioSpecInv == StudioSpec => []StudioInv
BY StudioInvInit, StudioInvNext, PTL DEF StudioSpec

\* Whatever is saved here and in other tabs, and whichever runs and files come: the studio
\* offers the metrics of its run, overlays only those, shows in its selects what it overlays,
\* and the preset that is pressed is the one overlaid.
THEOREM TheStudioAgrees == StudioSpec => []StudioAgrees
<1>1. StudioInv => StudioAgrees
  BY DEF StudioInv, StudioAgrees
<1>. QED  BY StudioSpecInv, <1>1, PTL
LEMMA LayersStayApart ==
  ASSUME StudioInv, [StudioNext]_studioVars, layers.a # layers.b, ~SelectsB,
         saved.layers.a \in MetricsOf[shows'.run], saved.layers.b \in MetricsOf[shows'.run],
         saved.layers.a # saved.layers.b
  PROVE  layers'.a # layers'.b
<1>1. ASSUME NEW r \in Runs, layers' = Restored(r), shows'.run = r PROVE layers'.a # layers'.b
  <2>1. NoMetric \notin MetricsOf[r]
    BY CatalogFacts
  <2>2. CASE saved.preset \in DOMAIN Overlay
    <3>1. saved.layers.a = Overlay[saved.preset].a /\ saved.layers.b = Overlay[saved.preset].b
      BY <1>1, <2>1, <2>2 DEF StudioInv, SavedWithPreset
    <3>. QED  BY <1>1, <2>2, <3>1, RestoredAsWanted
  <2>3. CASE saved.preset = "custom"
    BY <1>1, <2>3, RestoredAsSaved
  <2>4. CASE saved.preset = NoPreset
    <3>1. layers.a = Catalog[1] /\ Catalog[1] # NoMetric
      BY <2>4, CatalogFacts DEF StudioInv, SavedWithPreset
    <3>. QED  BY <1>1, <2>4, <3>1, RestoredAsWas
  <2>. QED  BY <2>2, <2>3, <2>4 DEF StudioInv, StudioTypeOK
<1>2. ASSUME NEW r \in Runs, NEW visible \in BOOLEAN, RenderRun(r, visible) \/ LoadFile(r, visible)
      PROVE  layers'.a # layers'.b
  BY <1>1, <1>2 DEF RenderRun, LoadFile
<1>3. ASSUME NEW id \in DOMAIN Overlay, ApplyPreset(id) PROVE layers'.a # layers'.b
  <2>1. Overlay[id].a # Overlay[id].b /\ Overlay[id].a # NoMetric
    BY CatalogFacts
  <2>. QED  BY <1>3, <2>1 DEF ApplyPreset, IfAvailable
<1>4. ASSUME NEW m \in Metrics, SelectA(m) PROVE layers'.a # layers'.b
  <2>1. shows.run \in Runs
    BY <1>4 DEF SelectA, Used, StudioInv, StudioTypeOK
  <2>2. FirstOf(shows.run, m) # m
    BY <2>1, FirstOfAvoids, CatalogFacts
  <2>3. layers' = [a |-> m, b |-> IF layers.b = m THEN FirstOf(shows.run, m) ELSE layers.b]
    BY <1>4 DEF SelectA, Choose
  <2>. QED  BY <2>2, <2>3
<1>5. ASSUME layers' = layers PROVE layers'.a # layers'.b
  BY <1>5
<1>6. ASSUME NEW chosen, NEW preset, OtherStudio(chosen, preset) PROVE layers'.a # layers'.b
  BY <1>5, <1>6 DEF OtherStudio
<1>7. ASSUME NEW visible \in BOOLEAN, ShowStudio(visible) PROVE layers'.a # layers'.b
  BY <1>5, <1>7 DEF ShowStudio
<1>8. CASE UNCHANGED studioVars
  BY <1>5, <1>8 DEF studioVars
<1>. QED  BY <1>2, <1>3, <1>4, <1>6, <1>7, <1>8 DEF StudioNext

\* No run that comes, no preset and no choice of layer A makes the two layers the same: only
\* the reader, for layer B, or a run that lacks what was saved, or what another tab saved.
THEOREM TheLayersDiffer == StudioSpec => LayersDiffer
<1>1. StudioInv /\ [StudioNext]_studioVars =>
        [layers.a # layers.b /\ layers'.a = layers'.b =>
           \/ SelectsB
           \/ \E m \in {saved.layers.a, saved.layers.b} : m \notin MetricsOf[shows'.run]
           \/ saved.layers.a = saved.layers.b]_studioVars
  BY LayersStayApart
<1>. QED  BY StudioSpecInv, <1>1, PTL DEF StudioSpec, LayersDiffer
----------------------------------------------------------------------------
(***************************************************************************)
(* The workspace deck.  The chips are what the stored map says, panel by   *)
(* panel, from the moment the deck is built, and the panels marked hidden   *)
(* are the others; what one sees follows from both.  The page in focus mode *)
(* has panels, one of them marked as focused, which the layout does not     *)
(* cover, or none if it was rendered again.                                 *)
(***************************************************************************)
ChipsStored ==
  DeckShown /\ ~past.foreign =>
    /\ deck.chips = deck.available \ deck.hidden
    /\ deck.preset = kept.preset
    /\ deck.available \subseteq DOMAIN kept.map
    /\ deck.chips = {p \in deck.available : kept.map[p]}
    /\ deck.preset # "custom" => deck.chips = deck.available \cap PresetOf[deck.preset]

FocusOnPage ==
  focus.body =>
    /\ DeckShown
    /\ ~past.rendered => \E p \in deck.available \ Covered : focus.panels = {p} /\ focus.active = {p}

RenderedFocus == past.rendered => focus.body /\ focus.active = {}

WorkspaceInv == WorkspaceTypeOK /\ ChipsStored /\ FocusOnPage /\ RenderedFocus

LEMMA MapFacts ==
  /\ \A D \in SUBSET Panels : [D -> BOOLEAN] \subseteq Maps
  /\ \A m \in Maps : DOMAIN m \subseteq Panels /\ m \in [DOMAIN m -> BOOLEAN]
BY DEF Maps

\* The map of a page has its panels, and says of each what the preset or the choice says.
LEMMA VisibilityFacts ==
  ASSUME NEW available \in SUBSET Panels, NEW preset, NEW map \in Maps
  PROVE  /\ Visibility(available, preset, map) \in [available -> BOOLEAN]
         /\ Visibility(available, preset, map) \in Maps
         /\ preset # "custom" =>
              ShownBy(Visibility(available, preset, map)) = available \cap PresetOf[preset]
         /\ \A p \in available : preset = "custom" =>
              (Visibility(available, preset, map)[p] <=> Chosen(map, p))
<1>. DEFINE v == Visibility(available, preset, map)
<1>1. \A p \in DOMAIN map : map[p] \in BOOLEAN
  BY MapFacts
<1>2. v \in [available -> BOOLEAN]
  <2>. DEFINE says(p) == IF preset # "custom" THEN p \in PresetOf[preset]
                         ELSE IF p \in DOMAIN map THEN map[p] ELSE TRUE
  <2>1. ASSUME NEW p \in available PROVE says(p) \in BOOLEAN
    <3>1. (p \in PresetOf[preset]) \in BOOLEAN
      OBVIOUS
    <3>2. CASE preset # "custom"
      BY <3>1, <3>2
    <3>3. CASE preset = "custom" /\ p \in DOMAIN map
      BY <1>1, <3>3
    <3>4. CASE preset = "custom" /\ p \notin DOMAIN map
      BY <3>4
    <3>. QED  BY <3>2, <3>3, <3>4
  <2>2. v = [p \in available |-> says(p)]
    BY DEF Visibility
  <2>. HIDE DEF says, v
  <2>. QED  BY <2>1, <2>2
<1>3. v \in Maps
  <2>. HIDE DEF v
  <2>. QED  BY <1>2, MapFacts
<1>4. preset # "custom" => ShownBy(v) = available \cap PresetOf[preset]
  BY DEF ShownBy, Visibility
<1>5. \A p \in available : preset = "custom" => (v[p] <=> Chosen(map, p))
  BY DEF Visibility, Chosen
<1>. QED  BY <1>2, <1>3, <1>4, <1>5

LEMMA HiddenAndShown ==
  ASSUME NEW available \in SUBSET Panels, NEW m \in [available -> BOOLEAN]
  PROVE  /\ HiddenBy(m) \subseteq available /\ ShownBy(m) = available \ HiddenBy(m)
         /\ ShownBy(m) = {p \in available : m[p]}
BY DEF HiddenBy, ShownBy

LEMMA WorkspaceInvInit == WorkspaceInit => WorkspaceInv
<1>. SUFFICES ASSUME WorkspaceInit PROVE WorkspaceInv
  OBVIOUS
<1>1. NoMap \in [{} -> BOOLEAN]
  BY DEF NoMap
<1>2. NoMap \in Maps
  BY <1>1, MapFacts
<1>3. WorkspaceTypeOK
  BY <1>2, WorkspaceAssumption
     DEF WorkspaceInit, WorkspaceTypeOK, PresetIds, Layouts, NoFocus
<1>. QED
  BY <1>3 DEF WorkspaceInit, WorkspaceInv, ChipsStored, DeckShown, FocusOnPage, RenderedFocus, NoFocus

\* A deck that is built agrees with what it stores, whatever was stored before.
LEMMA Built ==
  ASSUME WorkspaceInv, NEW layout \in Layouts, NEW available \in SUBSET Panels,
         Build(layout, available)
  PROVE  /\ kept' \in [layout: Layouts, preset: PresetIds, map: Maps]
         /\ deck' \in [live: BOOLEAN, layout: Layouts, available: SUBSET Panels,
                       hidden: SUBSET Panels, preset: PresetIds, chips: SUBSET Panels]
         /\ deck'.hidden \cup deck'.chips \subseteq deck'.available
         /\ ChipsStored' /\ deck'.available = available /\ deck'.layout = layout
         /\ kept'.preset = kept.preset
         /\ kept'.map = Visibility(available, kept.preset, kept.map)
<1>. DEFINE map == Visibility(available, kept.preset, kept.map)
<1>a. /\ kept \in [layout: Layouts, preset: PresetIds, map: Maps]
      /\ deck \in [live: BOOLEAN, layout: Layouts, available: SUBSET Panels,
                   hidden: SUBSET Panels, preset: PresetIds, chips: SUBSET Panels]
  BY DEF WorkspaceInv, WorkspaceTypeOK
<1>1. /\ deck' = [deck EXCEPT !.layout = layout, !.available = available,
                              !.hidden = HiddenBy(map), !.preset = kept.preset,
                              !.chips = ShownBy(map)]
      /\ kept' = [kept EXCEPT !.layout = layout, !.map = map]
  BY DEF Build
<1>2. /\ map \in [available -> BOOLEAN] /\ map \in Maps
      /\ kept.preset # "custom" => ShownBy(map) = available \cap PresetOf[kept.preset]
  BY <1>a, VisibilityFacts
<1>. HIDE DEF map
<1>3. /\ HiddenBy(map) \subseteq available /\ ShownBy(map) = available \ HiddenBy(map)
      /\ ShownBy(map) = {p \in available : map[p]}
  BY <1>2, HiddenAndShown
<1>4. /\ kept' \in [layout: Layouts, preset: PresetIds, map: Maps]
      /\ kept'.preset = kept.preset /\ kept'.map = map
  BY <1>a, <1>1, <1>2
<1>5. HiddenBy(map) \in SUBSET Panels /\ ShownBy(map) \in SUBSET Panels
  BY <1>3
<1>6. /\ deck' \in [live: BOOLEAN, layout: Layouts, available: SUBSET Panels,
                    hidden: SUBSET Panels, preset: PresetIds, chips: SUBSET Panels]
      /\ deck'.layout = layout /\ deck'.available = available /\ deck'.hidden = HiddenBy(map)
      /\ deck'.preset = kept.preset /\ deck'.chips = ShownBy(map)
  BY <1>a, <1>1, <1>5
<1>7. DOMAIN map = available
  BY <1>2
<1>8. ChipsStored'
  BY <1>2, <1>3, <1>4, <1>6, <1>7 DEF ChipsStored
<1>. QED  BY <1>3, <1>4, <1>6, <1>8 DEF map

\* What a deck without a focus, or with the classic layout, has to show for itself.
LEMMA Unfocused ==
  ASSUME focus' = NoFocus, ~past'.rendered
  PROVE  FocusOnPage' /\ RenderedFocus'
BY DEF NoFocus, FocusOnPage, RenderedFocus

\* The focus and the panels of the page stay.
LEMMA FocusStays ==
  ASSUME WorkspaceInv, focus' = focus, past'.rendered = past.rendered,
         deck'.available = deck.available, deck'.layout # "classic" \/ deck'.layout = deck.layout
  PROVE  FocusOnPage' /\ RenderedFocus'
BY DEF WorkspaceInv, FocusOnPage, RenderedFocus, DeckShown

\* One step per action.
LEMMA WorkspaceInvNext == WorkspaceInv /\ [WorkspaceNext]_workspaceVars => WorkspaceInv'
<1>. SUFFICES ASSUME WorkspaceInv, [WorkspaceNext]_workspaceVars PROVE WorkspaceInv'
  OBVIOUS
<1>a. /\ kept \in [layout: Layouts, preset: PresetIds, map: Maps]
      /\ deck \in [live: BOOLEAN, layout: Layouts, available: SUBSET Panels,
                   hidden: SUBSET Panels, preset: PresetIds, chips: SUBSET Panels]
      /\ deck.hidden \cup deck.chips \subseteq deck.available
      /\ focus \in [panels: SUBSET Panels, body: BOOLEAN, active: SUBSET Panels]
      /\ past \in [foreign: BOOLEAN, rendered: BOOLEAN]
  BY DEF WorkspaceInv, WorkspaceTypeOK
<1>b. NoFocus \in [panels: SUBSET Panels, body: BOOLEAN, active: SUBSET Panels]
  BY DEF NoFocus
<1>1. ASSUME NEW available \in Pages, Render(available) PROVE WorkspaceInv'
  <2>1. available \in SUBSET Panels
    BY WorkspaceAssumption
  <2>2. /\ focus' = IF kept.layout = "classic" THEN NoFocus ELSE [focus EXCEPT !.active = {}]
        /\ past' = [foreign |-> FALSE, rendered |-> focus'.body]
    BY <1>1 DEF Render
  <2>3. /\ focus' \in [panels: SUBSET Panels, body: BOOLEAN, active: SUBSET Panels]
        /\ focus'.active = {} /\ (focus'.body => kept.layout # "classic")
    <3>1. CASE kept.layout = "classic"
      BY <1>b, <2>2, <3>1 DEF NoFocus
    <3>2. CASE kept.layout # "classic"
      <4>1. focus' = [focus EXCEPT !.active = {}]
        BY <2>2, <3>2
      <4>. QED  BY <1>a, <3>2, <4>1
    <3>. QED  BY <3>1, <3>2
  <2>4. past' \in [foreign: BOOLEAN, rendered: BOOLEAN] /\ past'.rendered = focus'.body
    BY <2>2, <2>3
  <2>5. /\ kept' \in [layout: Layouts, preset: PresetIds, map: Maps]
        /\ deck' \in [live: BOOLEAN, layout: Layouts, available: SUBSET Panels,
                      hidden: SUBSET Panels, preset: PresetIds, chips: SUBSET Panels]
        /\ deck'.hidden \cup deck'.chips \subseteq deck'.available
        /\ ChipsStored' /\ deck'.layout = kept.layout
    <3>1. CASE deck.live /\ kept.layout = "classic"
      <4>1. /\ deck' = [deck EXCEPT !.layout = "classic", !.available = available,
                                    !.hidden = {}, !.chips = {}]
            /\ kept' = kept
        BY <1>1, <3>1 DEF Render
      <4>2. /\ deck' \in [live: BOOLEAN, layout: Layouts, available: SUBSET Panels,
                          hidden: SUBSET Panels, preset: PresetIds, chips: SUBSET Panels]
            /\ deck'.layout = "classic" /\ deck'.hidden = {} /\ deck'.chips = {}
        BY <1>a, <2>1, <4>1 DEF Layouts
      <4>3. ChipsStored'
        BY <4>2 DEF ChipsStored, DeckShown
      <4>. QED  BY <1>a, <3>1, <4>1, <4>2, <4>3
    <3>2. CASE ~(deck.live /\ kept.layout = "classic")
      <4>1. Build(kept.layout, available)
        BY <1>1, <3>2 DEF Render
      <4>2. kept.layout \in Layouts
        BY <1>a
      <4>. QED  BY <2>1, <4>1, <4>2, Built
    <3>. QED  BY <3>1, <3>2
  <2>6. WorkspaceTypeOK'
    BY <2>3, <2>4, <2>5 DEF WorkspaceTypeOK
  <2>7. RenderedFocus'
    BY <2>3, <2>4 DEF RenderedFocus
  <2>8. FocusOnPage'
    <3>1. deck'.available # {}
      <4>1. deck'.available = available
        BY <1>1, <1>a, <2>1, Built DEF Render
      <4>. QED  BY <4>1, WorkspaceAssumption
    <3>2. focus'.body => deck'.layout # "classic"
      BY <2>3, <2>5
    <3>. QED  BY <2>4, <3>1, <3>2 DEF FocusOnPage, DeckShown
  <2>. QED  BY <2>5, <2>6, <2>7, <2>8 DEF WorkspaceInv
<1>2. ASSUME NEW layout \in Layouts, SelectLayout(layout) PROVE WorkspaceInv'
  <2>1. CASE layout # "classic" /\ deck.available # {}
    <3>1. /\ Build(layout, deck.available) /\ focus' = focus
          /\ past' = [past EXCEPT !.foreign = FALSE]
      BY <1>2, <2>1 DEF SelectLayout
    <3>2. past' \in [foreign: BOOLEAN, rendered: BOOLEAN] /\ past'.rendered = past.rendered
      BY <1>a, <3>1
    <3>3. deck.available \in SUBSET Panels
      BY <1>a
    <3>4. /\ kept' \in [layout: Layouts, preset: PresetIds, map: Maps]
          /\ deck' \in [live: BOOLEAN, layout: Layouts, available: SUBSET Panels,
                        hidden: SUBSET Panels, preset: PresetIds, chips: SUBSET Panels]
          /\ deck'.hidden \cup deck'.chips \subseteq deck'.available
          /\ ChipsStored' /\ deck'.available = deck.available /\ deck'.layout = layout
      BY <3>1, <3>3, Built
    <3>5. FocusOnPage' /\ RenderedFocus'
      BY <2>1, <3>1, <3>2, <3>4, FocusStays
    <3>6. WorkspaceTypeOK'
      BY <1>a, <3>1, <3>2, <3>4 DEF WorkspaceTypeOK
    <3>. QED  BY <3>4, <3>5, <3>6 DEF WorkspaceInv
  <2>2. CASE ~(layout # "classic" /\ deck.available # {})
    <3>1. /\ kept' = [kept EXCEPT !.layout = layout]
          /\ deck' = [deck EXCEPT !.layout = layout, !.hidden = {}]
          /\ focus' = NoFocus /\ past' = [past EXCEPT !.rendered = FALSE]
      BY <1>2, <2>2 DEF SelectLayout
    <3>2. past' \in [foreign: BOOLEAN, rendered: BOOLEAN] /\ past'.rendered = FALSE
      BY <1>a, <3>1
    <3>3. /\ deck' \in [live: BOOLEAN, layout: Layouts, available: SUBSET Panels,
                        hidden: SUBSET Panels, preset: PresetIds, chips: SUBSET Panels]
          /\ deck'.layout = layout /\ deck'.available = deck.available
          /\ deck'.hidden = {} /\ deck'.chips = deck.chips
      BY <1>a, <3>1
    <3>4. kept' \in [layout: Layouts, preset: PresetIds, map: Maps]
      BY <1>a, <3>1
    <3>5. WorkspaceTypeOK'
      BY <1>a, <1>b, <3>1, <3>2, <3>3, <3>4 DEF WorkspaceTypeOK
    <3>6. ChipsStored'
      BY <2>2, <3>3 DEF ChipsStored, DeckShown
    <3>. QED  BY <3>1, <3>2, <3>5, <3>6, Unfocused DEF WorkspaceInv
  <2>. QED  BY <2>1, <2>2
<1>3. ASSUME NEW preset \in PresetIds, ClickPreset(preset) PROVE WorkspaceInv'
  <2>. DEFINE map == Visibility(deck.available, preset, kept.map)
  <2>1. /\ ControlsShown
        /\ kept' = [kept EXCEPT !.preset = preset, !.map = map]
        /\ deck' = [deck EXCEPT !.preset = preset, !.hidden = HiddenBy(map), !.chips = ShownBy(map)]
        /\ focus' = IF preset = "custom" THEN focus ELSE NoFocus
        /\ past' = [foreign |-> FALSE, rendered |-> past.rendered /\ preset = "custom"]
    BY <1>3 DEF ClickPreset
  <2>2. /\ map \in [deck.available -> BOOLEAN] /\ map \in Maps
        /\ preset # "custom" => ShownBy(map) = deck.available \cap PresetOf[preset]
    BY <1>a, VisibilityFacts
  <2>. HIDE DEF map
  <2>3. /\ HiddenBy(map) \subseteq deck.available /\ ShownBy(map) = deck.available \ HiddenBy(map)
        /\ ShownBy(map) = {p \in deck.available : map[p]} /\ DOMAIN map = deck.available
    BY <1>a, <2>2, HiddenAndShown
  <2>4. /\ kept' \in [layout: Layouts, preset: PresetIds, map: Maps]
        /\ kept'.preset = preset /\ kept'.map = map
    BY <1>a, <2>1, <2>2
  <2>5. HiddenBy(map) \in SUBSET Panels /\ ShownBy(map) \in SUBSET Panels
    BY <1>a, <2>3
  <2>6. /\ deck' \in [live: BOOLEAN, layout: Layouts, available: SUBSET Panels,
                      hidden: SUBSET Panels, preset: PresetIds, chips: SUBSET Panels]
        /\ deck'.layout = deck.layout /\ deck'.available = deck.available
        /\ deck'.hidden = HiddenBy(map) /\ deck'.preset = preset /\ deck'.chips = ShownBy(map)
    BY <1>a, <2>1, <2>5
  <2>7. past' \in [foreign: BOOLEAN, rendered: BOOLEAN]
    BY <1>a, <2>1
  <2>8. focus' \in [panels: SUBSET Panels, body: BOOLEAN, active: SUBSET Panels]
    BY <1>a, <1>b, <2>1
  <2>9. WorkspaceTypeOK'
    BY <2>3, <2>4, <2>6, <2>7, <2>8 DEF WorkspaceTypeOK
  <2>10. ChipsStored'
    BY <2>2, <2>3, <2>4, <2>6 DEF ChipsStored
  <2>11. FocusOnPage' /\ RenderedFocus'
    <3>1. CASE preset = "custom"
      <4>1. focus' = focus /\ past'.rendered = past.rendered
        BY <1>a, <2>1, <3>1
      <4>. QED  BY <2>6, <4>1, FocusStays
    <3>2. CASE preset # "custom"
      <4>1. focus' = NoFocus /\ past'.rendered = FALSE
        BY <2>1, <3>2
      <4>. QED  BY <4>1, Unfocused
    <3>. QED  BY <3>1, <3>2
  <2>. QED  BY <2>9, <2>10, <2>11 DEF WorkspaceInv
<1>4. ASSUME NEW p \in Panels, ClickChip(p) PROVE WorkspaceInv'
  <2>. DEFINE v == Visibility(deck.available, "custom", kept.map)
              map == [v EXCEPT ![p] = p \notin deck.chips]
              merged == Merged(map, kept.map)
  <2>1. /\ ControlsShown /\ p \in deck.available
        /\ kept' = [kept EXCEPT !.preset = "custom", !.map = merged]
        /\ deck' = [deck EXCEPT !.preset = "custom", !.hidden = HiddenBy(map),
                                !.chips = IF p \in deck.chips THEN deck.chips \ {p} ELSE deck.chips \cup {p}]
        /\ focus' = focus /\ past' = past
    BY <1>4 DEF ClickChip
  <2>2. /\ v \in [deck.available -> BOOLEAN]
        /\ \A q \in deck.available : v[q] <=> Chosen(kept.map, q)
    BY <1>a, VisibilityFacts
  <2>. HIDE DEF v
  <2>3. map \in [deck.available -> BOOLEAN]
    BY <2>1, <2>2
  <2>4. map[p] = (p \notin deck.chips) /\ \A q \in deck.available \ {p} : map[q] = v[q]
    BY <2>1, <2>2
  <2>. HIDE DEF map
  <2>5. /\ HiddenBy(map) \subseteq deck.available /\ ShownBy(map) = deck.available \ HiddenBy(map)
        /\ ShownBy(map) = {q \in deck.available : map[q]} /\ DOMAIN map = deck.available
    BY <1>a, <2>3, HiddenAndShown
  <2>6. /\ merged \in [deck.available \cup DOMAIN kept.map -> BOOLEAN]
        /\ \A q \in deck.available : merged[q] = map[q]
    <3>1. kept.map \in [DOMAIN kept.map -> BOOLEAN]
      BY <1>a, MapFacts
    <3>. QED  BY <2>3, <2>5, <3>1 DEF Merged
  <2>7. merged \in Maps
    <3>1. deck.available \cup DOMAIN kept.map \in SUBSET Panels
      BY <1>a, MapFacts
    <3>. HIDE DEF merged
    <3>. QED  BY <2>6, <3>1, MapFacts
  <2>. HIDE DEF merged
  <2>8. /\ kept' \in [layout: Layouts, preset: PresetIds, map: Maps]
        /\ kept'.preset = "custom" /\ kept'.map = merged
    BY <1>a, <2>1, <2>7 DEF PresetIds
  <2>. DEFINE chips == IF p \in deck.chips THEN deck.chips \ {p} ELSE deck.chips \cup {p}
  <2>9. chips \subseteq deck.available /\ chips \in SUBSET Panels
    BY <1>a, <2>1
  <2>10. \A q : q \in chips <=> IF q = p THEN p \notin deck.chips ELSE q \in deck.chips
    OBVIOUS
  <2>. HIDE DEF chips
  <2>11. deck' = [deck EXCEPT !.preset = "custom", !.hidden = HiddenBy(map), !.chips = chips]
    BY <2>1 DEF chips
  <2>12. HiddenBy(map) \in SUBSET Panels
    BY <1>a, <2>5
  <2>13. /\ deck' \in [live: BOOLEAN, layout: Layouts, available: SUBSET Panels,
                       hidden: SUBSET Panels, preset: PresetIds, chips: SUBSET Panels]
         /\ deck'.layout = deck.layout /\ deck'.available = deck.available
         /\ deck'.hidden = HiddenBy(map) /\ deck'.preset = "custom" /\ deck'.chips = chips
    BY <1>a, <2>9, <2>11, <2>12 DEF PresetIds
  <2>14. WorkspaceTypeOK'
    BY <1>a, <2>1, <2>5, <2>8, <2>9, <2>13 DEF WorkspaceTypeOK
  <2>15. ~past.foreign => chips = ShownBy(map)
    <3>1. SUFFICES ASSUME ~past.foreign, NEW q \in deck.available
                   PROVE  q \in chips <=> map[q]
      BY <2>5, <2>9
    <3>2. /\ deck.available \subseteq DOMAIN kept.map
          /\ deck.chips = {r \in deck.available : kept.map[r]}
      BY <2>1, <3>1 DEF ControlsShown, DeckShown, WorkspaceInv, ChipsStored
    <3>3. CASE q = p
      BY <2>4, <2>10, <3>3
    <3>4. CASE q # p
      BY <2>2, <2>4, <2>10, <3>1, <3>2, <3>4 DEF Chosen
    <3>. QED  BY <3>3, <3>4
  <2>16. {q \in deck.available : merged[q]} = ShownBy(map) /\ deck.available \subseteq DOMAIN merged
    BY <2>5, <2>6
  <2>17. ChipsStored'
    <3>1. SUFFICES ASSUME ~past.foreign
                   PROVE  /\ chips = deck.available \ HiddenBy(map)
                          /\ deck.available \subseteq DOMAIN merged
                          /\ chips = {q \in deck.available : merged[q]}
      BY <2>1, <2>8, <2>13 DEF ChipsStored
    <3>. QED  BY <2>5, <2>15, <2>16, <3>1
  <2>18. FocusOnPage' /\ RenderedFocus'
    BY <2>1, <2>13, FocusStays
  <2>. QED  BY <2>14, <2>17, <2>18 DEF WorkspaceInv
<1>5. ASSUME NEW p \in Panels, ClickFocus(p) PROVE WorkspaceInv'
  <2>1. /\ ControlsShown /\ p \in Seen
        /\ focus' = IF focus.panels = {p} THEN NoFocus
                    ELSE [panels |-> {p}, body |-> TRUE, active |-> {p}]
        /\ past' = [past EXCEPT !.rendered = FALSE]
        /\ kept' = kept /\ deck' = deck
    BY <1>5 DEF ClickFocus
  <2>2. /\ past' \in [foreign: BOOLEAN, rendered: BOOLEAN]
        /\ past'.rendered = FALSE /\ past'.foreign = past.foreign
    BY <1>a, <2>1
  <2>3. p \in deck.available \ Covered
    BY <2>1 DEF Seen, ControlsShown
  <2>5. focus' \in [panels: SUBSET Panels, body: BOOLEAN, active: SUBSET Panels]
    BY <1>b, <2>1
  <2>6. WorkspaceTypeOK'
    BY <1>a, <2>1, <2>2, <2>5 DEF WorkspaceTypeOK
  <2>7. ChipsStored'
    BY <2>1, <2>2 DEF WorkspaceInv, ChipsStored, DeckShown
  <2>8. FocusOnPage' /\ RenderedFocus'
    <3>1. CASE focus' = NoFocus
      BY <2>2, <3>1, Unfocused
    <3>2. CASE focus' = [panels |-> {p}, body |-> TRUE, active |-> {p}]
      <4>1. focus'.body /\ focus'.active = {p} /\ focus'.panels = {p}
        BY <3>2
      <4>2. DeckShown' /\ deck'.available = deck.available
        BY <2>1 DEF ControlsShown, DeckShown
      <4>. QED  BY <2>2, <2>3, <4>1, <4>2 DEF FocusOnPage, RenderedFocus
    <3>. QED  BY <2>1, <3>1, <3>2
  <2>. QED  BY <2>6, <2>7, <2>8 DEF WorkspaceInv
<1>6. ASSUME NEW preset \in PresetIds, NEW map \in Maps,
             kept' = [kept EXCEPT !.preset = preset, !.map = map],
             past' = [past EXCEPT !.foreign = TRUE], deck' = deck, focus' = focus
      PROVE  WorkspaceInv'
  <2>1. kept' \in [layout: Layouts, preset: PresetIds, map: Maps]
    BY <1>a, <1>6
  <2>2. /\ past' \in [foreign: BOOLEAN, rendered: BOOLEAN]
        /\ past'.foreign = TRUE /\ past'.rendered = past.rendered
    BY <1>a, <1>6
  <2>3. WorkspaceTypeOK'
    BY <1>a, <1>6, <2>1, <2>2 DEF WorkspaceTypeOK
  <2>4. ChipsStored'
    BY <2>2 DEF ChipsStored
  <2>5. FocusOnPage' /\ RenderedFocus'
    BY <1>6, <2>2, FocusStays
  <2>. QED  BY <2>3, <2>4, <2>5 DEF WorkspaceInv
<1>7. ASSUME NEW available \in Pages, NEW preset \in PresetIds, OtherDeck(available, preset)
      PROVE  WorkspaceInv'
  <2>1. available \in SUBSET Panels
    BY WorkspaceAssumption
  <2>2. Visibility(available, preset, kept.map) \in Maps
    BY <1>a, <2>1, VisibilityFacts
  <2>. QED  BY <1>6, <1>7, <2>2 DEF OtherDeck
<1>8. ASSUME NEW available \in Pages, NEW p \in Panels, NEW shown \in BOOLEAN,
             OtherChip(available, p, shown)
      PROVE  WorkspaceInv'
  <2>. DEFINE v == Visibility(available, "custom", kept.map)
              map == [v EXCEPT ![p] = shown]
              merged == Merged(map, kept.map)
  <2>1. available \in SUBSET Panels /\ p \in available
    BY <1>8, WorkspaceAssumption DEF OtherChip
  <2>2. v \in [available -> BOOLEAN]
    BY <1>a, <2>1, VisibilityFacts
  <2>3. /\ kept' = [kept EXCEPT !.preset = "custom", !.map = merged]
        /\ past' = [past EXCEPT !.foreign = TRUE] /\ deck' = deck /\ focus' = focus
    BY <1>8 DEF OtherChip
  <2>. HIDE DEF v
  <2>4. map \in [available -> BOOLEAN] /\ DOMAIN map = available
    BY <2>1, <2>2
  <2>. HIDE DEF map
  <2>5. kept.map \in [DOMAIN kept.map -> BOOLEAN] /\ DOMAIN kept.map \subseteq Panels
    BY <1>a, MapFacts
  <2>6. merged \in [available \cup DOMAIN kept.map -> BOOLEAN]
    BY <2>4, <2>5 DEF Merged
  <2>. HIDE DEF merged
  <2>7. merged \in Maps
    BY <2>1, <2>5, <2>6, MapFacts
  <2>. QED  BY <1>6, <2>3, <2>7 DEF PresetIds
<1>9. ASSUME NEW layout \in Layouts, OtherLayout(layout) PROVE WorkspaceInv'
  <2>1. kept' = [kept EXCEPT !.layout = layout] /\ UNCHANGED <<deck, focus, past>>
    BY <1>9 DEF OtherLayout
  <2>2. /\ kept' \in [layout: Layouts, preset: PresetIds, map: Maps]
        /\ kept'.preset = kept.preset /\ kept'.map = kept.map
    BY <1>a, <2>1
  <2>3. WorkspaceTypeOK'
    BY <1>a, <2>1, <2>2 DEF WorkspaceTypeOK
  <2>4. ChipsStored'
    BY <2>1, <2>2 DEF WorkspaceInv, ChipsStored, DeckShown
  <2>5. FocusOnPage' /\ RenderedFocus'
    BY <2>1, FocusStays
  <2>. QED  BY <2>3, <2>4, <2>5 DEF WorkspaceInv
<1>10. CASE UNCHANGED workspaceVars
  <2>1. kept' = kept /\ deck' = deck /\ focus' = focus /\ past' = past
    BY <1>10 DEF workspaceVars
  <2>2. WorkspaceTypeOK' /\ ChipsStored'
    BY <2>1 DEF WorkspaceInv, WorkspaceTypeOK, ChipsStored, DeckShown
  <2>. QED  BY <2>1, <2>2, FocusStays DEF WorkspaceInv
<1>. QED
  BY <1>1, <1>2, <1>3, <1>4, <1>5, <1>7, <1>8, <1>9, <1>10 DEF WorkspaceNext, Renders

LEMMA WorkspaceSpecInv == WorkspaceSpec => []WorkspaceInv
BY WorkspaceInvInit, WorkspaceInvNext, PTL DEF WorkspaceSpec

\* In the studio, out of focus mode, one sees the panels that are neither marked nor
\* covered; in focus mode, the one in focus.
LEMMA WhatIsSeen == WorkspaceInv => ChipsAgree /\ FocusIsOnOnePanel
<1>. SUFFICES ASSUME WorkspaceInv PROVE ChipsAgree /\ FocusIsOnOnePanel
  OBVIOUS
<1>1. deck.available \subseteq Panels
  BY DEF WorkspaceInv, WorkspaceTypeOK
<1>2. ASSUME deck.layout = "studio", ~focus.body, deck.chips = deck.available \ deck.hidden
      PROVE  Seen = deck.chips \ Covered
  <2>1. Seen = (deck.available \ (deck.hidden \cup Covered)) \cap Panels
    BY <1>2 DEF Seen
  <2>. QED  BY <1>1, <1>2, <2>1
<1>3. ASSUME deck.layout = "studio", focus.body, NEW p \in deck.available \ Covered,
             focus.active = {p}
      PROVE  Seen = {p} \ deck.hidden
  <2>1. Seen = (deck.available \ (deck.hidden \cup Covered)) \cap {p}
    BY <1>3 DEF Seen
  <2>. QED  BY <1>3, <2>1
<1>4. ChipsAgree
  BY <1>2 DEF WorkspaceInv, ChipsStored, ChipsAgree
<1>5. FocusIsOnOnePanel
  BY <1>3 DEF WorkspaceInv, FocusOnPage, FocusIsOnOnePanel
<1>. QED  BY <1>4, <1>5

\* Unless another tab has chosen since, the chips are the stored choice and that of the
\* pressed preset, and in the studio they are the panels one sees, but for the three that
\* the style sheet hides; in focus mode one sees there the expanded panel unless its chip
\* hid it or the page was rendered since.  This holds whatever presets, chips, layouts
\* and pages come and whatever other tabs store.
THEOREM TheDeckAgrees == WorkspaceSpec => []DeckAgrees
<1>1. WorkspaceInv => DeckAgrees
  BY WhatIsSeen DEF WorkspaceInv, DeckAgrees
<1>. QED  BY WorkspaceSpecInv, <1>1, PTL

\* The map of a page keeps what is chosen for its panels, and so does one that goes over it.
LEMMA VisibilityKeeps ==
  ASSUME NEW available \in SUBSET Panels, NEW map \in Maps, NEW p \in available
  PROVE  Chosen(Visibility(available, "custom", map), p) = Chosen(map, p)
<1>. DEFINE v == Visibility(available, "custom", map)
<1>1. v \in [available -> BOOLEAN] /\ (v[p] <=> Chosen(map, p))
  BY VisibilityFacts
<1>2. DOMAIN v = available /\ p \in DOMAIN v
  BY <1>1
<1>. HIDE DEF v
<1>3. Chosen(v, p) <=> v[p]
  BY <1>2 DEF Chosen
<1>4. Chosen(v, p) <=> Chosen(map, p)
  BY <1>1, <1>3
<1>5. Chosen(v, p) \in BOOLEAN /\ Chosen(map, p) \in BOOLEAN
  BY DEF Chosen
<1>6. Chosen(v, p) = Chosen(map, p)
  BY <1>4, <1>5
<1>. QED  BY <1>6 DEF v

LEMMA ChoiceStays ==
  ASSUME WorkspaceInv, [WorkspaceNext]_workspaceVars, kept.preset = "custom",
         kept'.preset = "custom", deck' # deck, NEW p \in deck'.available
  PROVE  Chosen(kept'.map, p) = Chosen(kept.map, p) \/ ClickChip(p)
<1>. DEFINE Stays == Chosen(kept'.map, p) = Chosen(kept.map, p)
<1>a. /\ kept \in [layout: Layouts, preset: PresetIds, map: Maps]
      /\ deck \in [live: BOOLEAN, layout: Layouts, available: SUBSET Panels,
                   hidden: SUBSET Panels, preset: PresetIds, chips: SUBSET Panels]
  BY DEF WorkspaceInv, WorkspaceTypeOK
<1>1. ASSUME NEW layout \in Layouts, NEW available \in SUBSET Panels, Build(layout, available)
      PROVE  Stays
  <2>1. deck'.available = available /\ kept'.map = Visibility(available, "custom", kept.map)
    BY <1>1, Built
  <2>. QED  BY <1>a, <2>1, VisibilityKeeps
<1>2. ASSUME kept'.map = kept.map PROVE Stays
  BY <1>2
<1>3. ASSUME NEW available \in Pages, Render(available) PROVE Stays
  <2>1. available \in SUBSET Panels /\ kept.layout \in Layouts
    BY <1>a, WorkspaceAssumption
  <2>. QED  BY <1>1, <1>2, <1>3, <2>1 DEF Render
<1>4. ASSUME NEW layout \in Layouts, SelectLayout(layout) PROVE Stays
  <2>1. deck.available \in SUBSET Panels
    BY <1>a
  <2>2. [kept EXCEPT !.layout = layout].map = kept.map
    BY <1>a
  <2>. QED  BY <1>1, <1>2, <1>4, <2>1, <2>2 DEF SelectLayout
<1>5. ASSUME NEW preset \in PresetIds, ClickPreset(preset) PROVE Stays
  <2>. DEFINE map == Visibility(deck.available, preset, kept.map)
  <2>1. /\ kept' = [kept EXCEPT !.preset = preset, !.map = map]
        /\ deck' = [deck EXCEPT !.preset = preset, !.hidden = HiddenBy(map), !.chips = ShownBy(map)]
    BY <1>5 DEF ClickPreset
  <2>. HIDE DEF map
  <2>2. kept'.map = map /\ preset = "custom" /\ deck'.available = deck.available
    BY <1>a, <2>1
  <2>3. kept'.map = Visibility(deck.available, "custom", kept.map)
    BY <2>2 DEF map
  <2>. QED  BY <1>a, <2>2, <2>3, VisibilityKeeps
<1>6. ASSUME NEW q \in Panels, ClickChip(q), q # p PROVE Stays
  <2>. DEFINE v == Visibility(deck.available, "custom", kept.map)
              map == [v EXCEPT ![q] = q \notin deck.chips]
  <2>1. kept' = [kept EXCEPT !.preset = "custom", !.map = Merged(map, kept.map)]
    BY <1>6 DEF ClickChip
  <2>2. \E hidden, chips :
          deck' = [deck EXCEPT !.preset = "custom", !.hidden = hidden, !.chips = chips]
    BY <1>6 DEF ClickChip
  <2>3. p \in deck.available
    BY <1>a, <2>2
  <2>4. v \in [deck.available -> BOOLEAN] /\ Chosen(v, p) = Chosen(kept.map, p)
    BY <1>a, <2>3, VisibilityFacts, VisibilityKeeps
  <2>. HIDE DEF v
  <2>5. DOMAIN map = deck.available /\ map[p] = v[p]
    BY <1>6, <2>3, <2>4
  <2>. HIDE DEF map
  <2>6. kept'.map = Merged(map, kept.map)
    BY <1>a, <2>1
  <2>7. p \in DOMAIN Merged(map, kept.map) /\ Merged(map, kept.map)[p] = v[p]
    BY <2>3, <2>5 DEF Merged
  <2>8. Chosen(kept'.map, p) = Chosen(v, p)
    <3>1. p \in DOMAIN kept'.map /\ kept'.map[p] = v[p] /\ p \in DOMAIN v
      BY <2>3, <2>4, <2>6, <2>7
    <3>. QED  BY <3>1 DEF Chosen
  <2>. QED  BY <2>4, <2>8
<1>7. ASSUME deck' = deck PROVE FALSE
  BY <1>7
<1>8. ASSUME NEW q \in Panels, NEW a \in Pages, NEW shown \in BOOLEAN, OtherChip(a, q, shown)
      PROVE  FALSE
  BY <1>7, <1>8 DEF OtherChip
<1>9. ASSUME NEW a \in Pages, NEW preset \in PresetIds, OtherDeck(a, preset) PROVE FALSE
  BY <1>7, <1>9 DEF OtherDeck
<1>10. ASSUME NEW layout \in Layouts, OtherLayout(layout) PROVE FALSE
  BY <1>7, <1>10 DEF OtherLayout
<1>11. ASSUME NEW q \in Panels, ClickFocus(q) PROVE FALSE
  BY <1>7, <1>11 DEF ClickFocus
<1>12. CASE UNCHANGED workspaceVars
  BY <1>7, <1>12 DEF workspaceVars
<1>. QED
  BY <1>3, <1>4, <1>5, <1>6, <1>8, <1>9, <1>10, <1>11, <1>12 DEF WorkspaceNext, Renders

\* What the reader has chosen for a panel of the page outlives every rendering, layout, preset
\* and chip of this tab but a click on its own chip.
THEOREM TheChoiceIsKept == WorkspaceSpec => ChoiceKept
<1>1. WorkspaceInv /\ [WorkspaceNext]_workspaceVars =>
        [kept.preset = "custom" /\ kept'.preset = "custom" /\ deck' # deck =>
           \A p \in deck'.available :
             Chosen(kept'.map, p) = Chosen(kept.map, p) \/ ClickChip(p)]_workspaceVars
  BY ChoiceStays
<1>. QED  BY WorkspaceSpecInv, <1>1, PTL DEF WorkspaceSpec, ChoiceKept
=============================================================================
