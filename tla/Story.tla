------------------------------- MODULE Story -------------------------------
(***************************************************************************)
(* detectPhases of the build story: the windows of frames in which the     *)
(* memory peaked, grew or fell most, the heap was full, or the JIT, the    *)
(* class loader or the collector was busiest.                              *)
(*                                                                         *)
(* The live page computes them anew for every sample it gets, the replay   *)
(* page once.  A frame has the total and the values of each process; a     *)
(* value that is not there is Absent.  Frames count from 1.                *)
(***************************************************************************)
EXTENDS Integers, Sequences, FiniteSetsExt

CONSTANTS
  Rows,        \* number of processes; the code goes through them in order
  Readings,    \* the frames a run may have
  MaxFrames    \* bound on the frames

Absent == -1
Metrics == {"ratio", "gc", "jit", "classes"}

ASSUME StoryAssumption ==
  /\ Rows \in Nat /\ MaxFrames \in Nat
  /\ \A r \in Readings :
       /\ r.total \in Nat \cup {Absent}
       /\ \A metric \in Metrics : r[metric] \in [1..Rows -> Nat \cup {Absent}]

VARIABLE frames

StoryInit == frames = <<>>

\* A sample arrives and the page is rendered anew.
Render(r) == Len(frames) < MaxFrames /\ frames' = Append(frames, r)

StoryNext == \E r \in Readings : Render(r)

StorySpec == StoryInit /\ [][StoryNext]_frames

----------------------------------------------------------------------------
(***************************************************************************)
(* Series.  The values of all processes are taken one process after the    *)
(* other, so that the first of two that are equal is found as in the code. *)
(***************************************************************************)
Length == Len(frames)
Total == [i \in 1..Length |-> frames[i].total]
Series(metric, row) == [i \in 1..Length |-> frames[i][metric][row]]

Places == 1..Rows * Length
FrameOf(place) == 1 + ((place - 1) % Length)
RowOf(place) == 1 + ((place - 1) \div Length)
Values(metric) == [place \in Places |-> Series(metric, RowOf(place))[FrameOf(place)]]

IsPresent(v) == v # Absent
Highest(s) == Max({Absent} \cup Range(s))

\* Mutant: the place among the values that are there.
PlaceOfPresent(s) ==
  LET place == Min({k \in DOMAIN s : s[k] = Highest(s)})
  IN Cardinality({k \in 1..place : IsPresent(s[k])})

\* The place of the first of the highest values.
PlaceOfHighest(s) == Min({place \in DOMAIN s : s[place] = Highest(s)})

\* valueAt and deltaInRange: what a series rises from frame i to frame j, from
\* the last value up to each.
Until(s, i) == {k \in 1..i : IsPresent(s[k])}
Rise(s, i, j) == IF Until(s, i) = {} THEN 0 ELSE s[Max(Until(s, j))] - s[Max(Until(s, i))]

\* percentile: the least of the values that 85 percent do not exceed.
Percentile(s) ==
  LET present == {k \in DOMAIN s : IsPresent(s[k])}
      rank == 1 + (85 * (Cardinality(present) - 1)) \div 100
  IN Min({v \in Range(s) : IsPresent(v) /\ Cardinality({k \in present : s[k] <= v}) >= rank})

\* The range of the totals, 1 at least.
Spread == Max({1, Highest(Total) - Min({Highest(Total)} \cup {v \in Range(Total) : IsPresent(v)})})

----------------------------------------------------------------------------
(***************************************************************************)
(* The phases                                                              *)
(***************************************************************************)
Radius == Max({2, (7 * Length + 50) \div 100})
EarlyEnd == 1 + Max({1, (16 * Length + 50) \div 100})

Phase(label, start, end) == [label |-> label, start |-> start, end |-> end]

\* windowBounds
Around(label, i) == Phase(label, Max({1, i - Radius}), Min({Length, i + Radius}))

Warmup ==
  IF \E i \in 1..EarlyEnd, row \in 1..Rows : frames[i].jit[row] > 0 \/ frames[i].classes[row] > 0
  THEN {Phase("warmup", 1, EarlyEnd)} ELSE {}

Pressure ==
  IF Highest(Total) = Absent THEN {} ELSE {Around("peak", PlaceOfHighest(Total))}

\* What a series rises in the window of a radius that starts at each frame.
Rises(s) == [i \in 1..Length |-> IF i + Radius > Length THEN 0 ELSE Rise(s, i, i + Radius)]

\* The first of the windows that rise most, if they rise enough.
Climb(label, rises, least) ==
  LET first == FrameOf(PlaceOfHighest(rises))
  IN IF Highest(rises) < least THEN {} ELSE {Phase(label, first, first + Radius)}

Growth == Climb("growth", Rises(Total), (18 * Spread + 99) \div 100)
Churn ==
  Climb("churn", [place \in Places |-> Rises(Series("gc", RowOf(place)))[FrameOf(place)]], 1)

\* The first process that reaches the percentile, where it does so first.
HeapPressure ==
  LET ratios == Values("ratio")
      high == Percentile(ratios)
  IN IF Highest(ratios) = Absent THEN {}
     ELSE {Around("heap", FrameOf(Min({place \in Places : ratios[place] >= high})))}

\* scanMetricPeak
Burst(label, metric) ==
  LET rates == Values(metric)
  IN IF Highest(rates) <= 0 THEN {} ELSE {Around(label, FrameOf(PlaceOfHighest(rates)))}

\* From one frame to the next, if both have a total.
Falls ==
  [i \in 1..Length |->
     IF i = 1 \/ Absent \in {Total[i], Total[i - 1]} THEN 0 ELSE Total[i - 1] - Total[i]]

DropOff ==
  IF 5 * Highest(Falls) < Spread THEN {} ELSE {Around("drop", PlaceOfHighest(Falls))}

FullRun == IF Length = 0 THEN {} ELSE {Phase("full", 1, Length)}

\* The code sorts them by where they start, and keeps the first eight: all.
Phases ==
  LET found == Warmup \cup Pressure \cup Growth \cup HeapPressure \cup Burst("compilation", "jit")
                 \cup Burst("loading", "classes") \cup Churn \cup DropOff
  IN IF Length < 4 \/ found = {} THEN FullRun ELSE found

----------------------------------------------------------------------------
\* Phases are windows of the run, which the replay takes for granted, and no two
\* have the same name, by which a click finds them.
StoryTypeOK ==
  /\ frames \in Seq(Readings) /\ Length <= MaxFrames
  /\ \A x \in Phases : 1 <= x.start /\ x.end <= Length /\ (Length > 1 => x.start < x.end)
  /\ \A x, y \in Phases : x.label = y.label => x = y

In(label, i) == \E x \in Phases : x.label = label /\ x.start <= i /\ i <= x.end

\* The phases show the extremes of the run, also when values are missing or two
\* are the same: the peak, the largest fall if it is a fifth of the range, a
\* frame at which the compiler was busiest.
ExtremesAreTold ==
  Length >= 4 =>
    /\ \A i \in 1..Length :
         IsPresent(Total[i]) /\ (\A j \in 1..Length : Total[j] <= Total[i])
           => \E j \in 1..i : In("peak", j) /\ Total[j] = Total[i]
    /\ \A i \in 2..Length :
         (5 * Falls[i] >= Spread /\ \A j \in 1..Length : Falls[j] <= Falls[i])
           => \E j \in 2..i : In("drop", j - 1) /\ In("drop", j) /\ Falls[j] = Falls[i]
    /\ \A i \in 1..Length, row \in 1..Rows : frames[i].jit[row] > 0 =>
         \E j \in 1..Length, other \in 1..Rows :
           In("compilation", j) /\ frames[j].jit[other] >= frames[i].jit[row]

\* No window of the growth phase's length rises more than it, and the memory of a
\* run without one rises little in every such window.
ClimbsAreTold ==
  Length >= 4 =>
    \A i \in 1..Length - Radius :
      LET rise == Rise(Total, i, i + Radius)
      IN 100 * rise >= 18 * Spread =>
           \E x \in Phases : x.label = "growth" /\ Rise(Total, x.start, x.end) >= rise
\* The story of a run is told by windows of it, its extremes and climbs in them.
PhasesTellTheRun == StoryTypeOK /\ ExtremesAreTold /\ ClimbsAreTold
=============================================================================
