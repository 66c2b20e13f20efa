----------------------------- MODULE ReplayData -----------------------------
(***************************************************************************)
(* What the browser and the job summary make of the samples of a run: the  *)
(* lines of the memory charts, the end of the build, rates of counters,    *)
(* three numbers for the peak, and the checkpoints of the Mermaid chart.   *)
(* All are computed from the log of the module Reports.                    *)
(*                                                                         *)
(* A counter is any value the samples carry; it falls when the process     *)
(* that has the pid is another one.  The recorded sizes stand for it.      *)
(***************************************************************************)
EXTENDS Reports

CONSTANTS
  MinPeak,          \* total from which a drop may be the end of a build
  MaxCheckpoints    \* checkpoints of the Mermaid chart

ASSUME ReplayDataAssumption == MinPeak \in Nat /\ MaxCheckpoints \in Nat \ {0, 1}

Sampled(src, i, p) == Measured(src, i, p) # {}
Value(src, i, p) == CHOOSE v \in Measured(src, i, p) : TRUE

----------------------------------------------------------------------------
(***************************************************************************)
(* Memory                                                                  *)
(***************************************************************************)
\* buildForwardFilledSeries of the browser; 0 where nothing is drawn.
Line(src, p) ==
  LET gap == DashboardGap
      late(seen, now) == gap > 0 /\ seen > 0 /\ now - seen > gap
      f[i \in 0..Len(log)] ==
        IF i = 0 THEN NoValue
        ELSE IF Sampled(src, i, p)
        THEN [rss |-> Value(src, i, p), seen |-> Timestamp(src, i)]
        ELSE IF late(f[i - 1].seen, Timestamp(src, i)) THEN [f[i - 1] EXCEPT !.rss = 0]
        ELSE f[i - 1]
  IN f

\* Mutant: the peak of the whole run is known from the start.
DropsFromWholePeak(total, i) ==
  LET peak == Max({total[j] : j \in DOMAIN total}) IN peak >= MinPeak /\ 5 * total[i] < peak

Drops(total, i) ==
  LET peak == Max({total[j] : j \in 1..i}) IN peak >= MinPeak /\ 5 * total[i] < peak

\* buildReplayData: the first drop ends the build; it and what follows is cut,
\* whatever comes: a build that idles and grows again is shown up to the pause.
Frames(src) ==
  LET total == [i \in DOMAIN log |-> DashboardTotal(src, i)]
      drops == {i \in DOMAIN log : Drops(total, i)}
  IN IF drops = {} THEN DOMAIN log ELSE 1..Min(drops) - 1

\* buildProcessSummary: the peak of each process, and of all.
MaxRss(src, p) == Max({0} \cup UNION {Measured(src, i, p) : i \in DOMAIN log})
OverallMaxRss(src) == Max({0} \cup {DashboardTotal(src, i) : i \in DOMAIN log})

\* prediction-view: the latest sample of every process, however old.
AggregateRss(src, i) == Sum([p \in Procs |-> Cursor(src, p)[i].rss])
PeakAggregateRss(src) == Max({0} \cup {AggregateRss(src, i) : i \in DOMAIN log})

----------------------------------------------------------------------------
(***************************************************************************)
(* Counters.  A rate is a pair: what was counted, and the seconds it took. *)
(***************************************************************************)
NoRate == <<>>
SeenBefore(src, i, p) == {j \in 1..i - 1 : Sampled(src, j, p)}

\* Mutant: the rate is per interval of the run.
NewRatePerFrame(src, i, p) ==
  LET last == Max(SeenBefore(src, i, p))
      counted == Value(src, i, p) - Value(src, last, p)
  IN IF counted >= 0 THEN <<counted, Times[i] - Times[i - 1]>> ELSE NoRate

\* A counter that fell has no rate.
NewRate(src, i, p) ==
  LET last == Max(SeenBefore(src, i, p))
      counted == Value(src, i, p) - Value(src, last, p)
  IN IF counted >= 0 THEN <<counted, Times[i] - Times[last]>> ELSE NoRate

HasNewRate(src, i, p) ==
  Sampled(src, i, p) /\ SeenBefore(src, i, p) # {} /\ NewRate(src, i, p) # NoRate

\* The frames at which buildCounterSeries has learnt a rate, up to frame i.
RatedUntil(src, i, p) == {j \in 1..i : HasNewRate(src, j, p)}

\* The last rate is shown for two median intervals.
Rate(src, i, p) ==
  LET rated == RatedUntil(src, i, p)
  IN IF rated # {} /\ RecentlySeen(DashboardGap, Timestamp(src, Max(rated)), Timestamp(src, i))
     THEN NewRate(src, Max(rated), p)
     ELSE NoRate

Cumulative(src, i, p) == Cursor(src, p)[i].rss

----------------------------------------------------------------------------
(***************************************************************************)
(* The Mermaid chart of the job summary                                    *)
(***************************************************************************)
\* selectRepresentativeTimestamps: all of a short run, and of a long one the
\* multiples of an interval, rounded.
Checkpoint(n) ==
  IF Len(log) <= MaxCheckpoints THEN n
  ELSE 1 + (2 * (n - 1) * (Len(log) - 1) + MaxCheckpoints - 1) \div (2 * (MaxCheckpoints - 1))

Checkpoints == 1..IF Len(log) <= MaxCheckpoints THEN Len(log) ELSE MaxCheckpoints

\* A checkpoint adds up the processes sampled at its timestamp.
Aggregated(i) == Sum([p \in Procs |-> Max({0} \cup Measured("report", i, p))])

----------------------------------------------------------------------------
\* In every frame of a replay the lines add up to the total, though two
\* programs decide whether a process has ended; the lines of processes last
\* seen at time 0 go on for ever and are not in the total.
LinesMakeTheTotal ==
  \A src \in Sources : \A i \in Frames(src) :
    DashboardTotal(src, i) =
      Sum([p \in Procs |-> LET drawn == Line(src, p)[i]
                           IN IF drawn.seen > 0 \/ Timestamp(src, i) = 0 THEN drawn.rss ELSE 0])

\* What the chart of the cleanup trims as the tail of a large build, the replay
\* has cut too: the first goes backwards from the end and knows the peak, the
\* other goes forwards and knows the peak so far.  A megabyte for each process
\* is left for what the backend truncates.  A report whose timestamps start at 0
\* is not meant, here and below: the browser may miss processes of it.
TrimmedIsCut ==
  LET slack == 10 * Cardinality(Procs)
  IN \A src \in Sources, i \in DOMAIN log :
       /\ Timestamp(src, 1) > 0
       /\ ~Drawn(i)
       /\ Peak >= MinPeak + slack
       /\ 5 * ChartTotal(i) + slack < Peak
       => i \notin Frames(src)

\* What the replay cuts comes after a fall that the chart of the cleanup has as
\* well: from a total of a large build that is replayed to less than a fifth of
\* it.  Without one, all is replayed, the peak included; with one, a higher peak
\* may follow, which the chart of the cleanup shows and the replay does not.
CutIsAFall ==
  \A src \in Sources :
    LET replayed == Frames(src)
        slack == 10 * Cardinality(Procs)
    IN \A i \in DOMAIN log \ replayed :
         Timestamp(src, 1) > 0
         => \E high \in replayed, low \in 1..i :
              /\ high < low
              /\ ChartTotal(high) >= MinPeak
              /\ 5 * ChartTotal(low) < ChartTotal(high) + 5 * slack

\* The moment at which a page of the browser puts the peak of a run is one the
\* chart of the cleanup draws, though it trims by another peak, up to what the
\* backend truncates.
PagePeakIsDrawn ==
  \A src \in Sources :
    LET highest == OverallMaxRss(src)
    IN \A i \in DOMAIN log :
         /\ Timestamp(src, 1) > 0
         /\ highest >= 20 * Cardinality(Procs)
         /\ DashboardTotal(src, i) = highest
         => Drawn(i)

\* The peaks three pages show are in order: that of a process, that of the run,
\* and that of the prediction view, which never takes a process to have ended.
\* The last two are the same if every process is sampled until the end.
PeaksAreOrdered ==
  \A src \in Sources :
    /\ \A p \in Procs : MaxRss(src, p) <= OverallMaxRss(src)
    /\ OverallMaxRss(src) <= PeakAggregateRss(src)
    /\ (\A i \in DOMAIN log, p \in Procs : SeenBefore(src, i, p) # {} => Sampled(src, i, p))
         => OverallMaxRss(src) = PeakAggregateRss(src)

\* As long as a counter has not fallen, its rates account for it: multiplied by
\* the time since the sample before, they add up to what was counted.
RatesAddUp ==
  \A src \in Sources, p \in Procs, i \in DOMAIN log :
    LET seen == {j \in 1..i : Sampled(src, j, p)}
        fresh == {j \in seen : j > Min(seen)}
        since(j) == Times[j] - Times[Max(SeenBefore(src, j, p))]
    IN /\ seen # {}
       /\ \A j \in fresh : Value(src, j, p) >= Value(src, Max(SeenBefore(src, j, p)), p)
       => /\ \A j \in fresh : Rate(src, j, p) # NoRate
          /\ Sum([j \in fresh |-> (Rate(src, j, p)[1] * since(j)) \div Rate(src, j, p)[2]])
               = Cumulative(src, i, p) - Value(src, Min(seen), p)

\* The checkpoints of the Mermaid chart are distinct, in order and from the first
\* to the last timestamp; what they show for all processes is what the other chart
\* shows, less the processes that were not sampled just then.
CheckpointsAgree ==
  log # <<>> =>
    /\ Checkpoint(1) = 1 /\ Checkpoint(Max(Checkpoints)) = Len(log)
    /\ \A n \in Checkpoints \ {1} : Checkpoint(n - 1) < Checkpoint(n)
    /\ \A n \in Checkpoints :
         LET i == Checkpoint(n)
             carried == {p \in Active(i) : log[i].rss[p] = 0}
         IN ChartTotal(i) = Aggregated(i) + Sum([p \in carried |-> ForwardFilled(p)[i].rss])

\* The charts of memory that the cleanup and the browser draw of a run agree, as
\* lines, as a total, and on where a build ends.  The chart of the cleanup shows
\* every peak; the replay does until the first fall of a large build.
ChartsAgree ==
  /\ TotalsAgree /\ LinesMakeTheTotal
  /\ PeakIsDrawn /\ PagePeakIsDrawn
  /\ TrimmedIsCut /\ CutIsAFall

\* The numbers the pages and the job summary derive from the samples add up.
SeriesAddUp == PeaksAreOrdered /\ RatesAddUp /\ CheckpointsAgree
=============================================================================
