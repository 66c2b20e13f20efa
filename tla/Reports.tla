------------------------------ MODULE Reports ------------------------------
(***************************************************************************)
(* What becomes of a measurement: the monitor writes it to the log and     *)
(* sends it to the backend in two slightly different lines, two parsers    *)
(* read them, and two charts show the total memory of the build, one drawn *)
(* by the cleanup from the log and one in the browser, from what the       *)
(* backend stored or from the JSON report of the cleanup.                  *)
(*                                                                         *)
(* A cell of a line is a sequence: <<v>>, or <<>> for the text N/A.  Lines  *)
(* have memory in tenths of a megabyte, the backend stores whole ones.  A  *)
(* process that runs never measures 0.                                     *)
(***************************************************************************)
EXTENDS Integers, Sequences, FiniteSetsExt

CONSTANTS
  Procs,     \* build processes
  Bare,      \* those of which jstat reports nothing
  Sizes,     \* resident sizes, in tenths of a MB
  Starts,    \* seconds until an iteration finds a process
  Gaps,      \* seconds between two iterations of the monitor
  Origin,    \* timestamp of the start of a run the backend stores
  MaxLog     \* bound on the iterations that sample anything

ASSUME ReportsAssumption ==
  /\ IsFiniteSet(Procs) /\ Bare \subseteq Procs /\ Sizes \subseteq Nat \ {0}
  /\ Starts \subseteq Nat /\ Gaps \subseteq Nat \ {0}
  /\ Origin \in Nat \ {0} /\ MaxLog \in Nat

VARIABLE log   \* elapsed time and resident sizes, 0 for a process not sampled

Iterations == [time: Nat, rss: [Procs -> Sizes \cup {0}]]

ReportsTypeOK == log \in Seq(Iterations) /\ Len(log) <= MaxLog

ReportsInit == log = <<>>

\* An iteration of the monitor that finds a process; the time is relative to
\* the start, and the first iterations may find none.
Sample(gap, rss) ==
  /\ Len(log) < MaxLog
  /\ \E p \in Procs : rss[p] # 0
  /\ log' = Append(log, [time |-> gap + IF log = <<>> THEN 0 ELSE log[Len(log)].time,
                         rss |-> rss])

ReportsNext ==
  \E gap \in IF log = <<>> THEN Starts ELSE Gaps, rss \in [Procs -> Sizes \cup {0}] :
    Sample(gap, rss)

ReportsSpec == ReportsInit /\ [][ReportsNext]_log

----------------------------------------------------------------------------
(***************************************************************************)
(* The lines and their parsers                                             *)
(***************************************************************************)
NA == <<>>
Heap(rss) == rss \div 2

LogLine(p, rss) ==
  [rss |-> <<rss>>, heap |-> IF p \in Bare THEN NA ELSE <<Heap(rss)>>]

\* Mutant: the line of the log is sent as it is.
SentLineVerbatim(p, rss) == LogLine(p, rss)

\* A heap that is not known is sent as 0, and logged as N/A.
SentLine(p, rss) ==
  [rss |-> <<rss>>, heap |-> IF p \in Bare THEN <<0>> ELSE <<Heap(rss)>>]

\* ParseData skips a line whose memory cells are not numbers, and truncates.
ParseData(line) ==
  IF NA \in {line.rss, line.heap} THEN {}
  ELSE {[rss |-> line.rss[1] \div 10, heap |-> line.heap[1] \div 10]}

\* parseLogSample never does; the reports show 0 for what is not a number.
NumberOrZero(cell) == IF cell = NA THEN 0 ELSE cell[1]
ReportSample(line) == [rss |-> NumberOrZero(line.rss), heap |-> NumberOrZero(line.heap)]

\* What the backend has of process p at iteration i, and what the log has.
Stored(i, p) ==
  IF log[i].rss[p] = 0 THEN {} ELSE ParseData(SentLine(p, log[i].rss[p]))
Logged(i, p) ==
  IF log[i].rss[p] = 0 THEN {} ELSE {ReportSample(LogLine(p, log[i].rss[p]))}

----------------------------------------------------------------------------
(***************************************************************************)
(* The charts.  A process is taken to go on between two samples if they    *)
(* are at most two median sampling intervals apart.                        *)
(***************************************************************************)
Times == [i \in DOMAIN log |-> log[i].time]
Deltas == [i \in 1..Len(log) - 1 |-> Times[i + 1] - Times[i]]

\* The k-th of the elements of s, in ascending order.
Ranked(s, k) == Min({v \in Range(s) : Cardinality({i \in DOMAIN s : s[i] <= v}) >= k})

TwiceMedian(s) ==
  LET mid == Len(s) \div 2
  IN IF Len(s) % 2 = 0 THEN Ranked(s, mid) + Ranked(s, mid + 1) ELSE 2 * Ranked(s, mid + 1)

Sum(f) == MapThenSumSet(LAMBDA x : f[x], DOMAIN f)

\* buildForwardFilledSeries of the cleanup: the last value is forgotten at the
\* first timestamp that is too late for it.  A gap of one second is taken when
\* there is no interval to measure.
ChartGap == IF Len(log) < 2 THEN 2 ELSE TwiceMedian(Deltas)

NoValue == [rss |-> 0, seen |-> 0]

\* Mutant: a value is never forgotten.
ForwardFilledForever(p) ==
  LET f[i \in 0..Len(log)] ==
        IF i = 0 THEN NoValue
        ELSE IF log[i].rss[p] # 0 THEN [rss |-> log[i].rss[p], seen |-> Times[i]]
        ELSE f[i - 1]
  IN f

ForwardFilled(p) ==
  LET f[i \in 0..Len(log)] ==
        IF i = 0 THEN NoValue
        ELSE IF Logged(i, p) # {}
        THEN [rss |-> (CHOOSE s \in Logged(i, p) : TRUE).rss, seen |-> Times[i]]
        ELSE IF Times[i] - f[i - 1].seen > ChartGap THEN NoValue
        ELSE f[i - 1]
  IN f

ChartTotal(i) == Sum([p \in Procs |-> ForwardFilled(p)[i].rss])

\* The samples of the browser have the units of where they come from; both are
\* tenths of a MB here.  The report counts the time from the start of the run.
Sources == {"backend", "report"}
Measured(src, i, p) ==
  IF src = "backend" THEN {10 * s.rss : s \in Stored(i, p)} ELSE {s.rss : s \in Logged(i, p)}
Timestamp(src, i) == Times[i] + IF src = "backend" THEN Origin ELSE 0

\* buildTotalRssSeries of the browser: a cursor per process has read every
\* sample up to the timestamp; the last one counts if it was seen recently.
DashboardGap == IF Len(log) < 2 THEN 0 ELSE TwiceMedian(Deltas)

Cursor(src, p) ==
  LET f[i \in 0..Len(log)] ==
        IF i = 0 THEN NoValue
        ELSE IF Measured(src, i, p) = {} THEN f[i - 1]
        ELSE [rss |-> CHOOSE v \in Measured(src, i, p) : TRUE, seen |-> Timestamp(src, i)]
  IN f

RecentlySeen(gap, seen, now) == seen = now \/ (gap > 0 /\ seen > 0 /\ now - seen <= gap)

DashboardTotal(src, i) ==
  LET gap == DashboardGap
      now == Timestamp(src, i)
      last(p) == Cursor(src, p)[i]
  IN Sum([p \in Procs |-> IF RecentlySeen(gap, last(p).seen, now) THEN last(p).rss ELSE 0])

\* The tail of the chart of the cleanup: once two processes have run together,
\* the totals at the end that are small and of one process are not drawn.
Active(i) == {p \in Procs : ForwardFilled(p)[i].rss # 0}
Peak == Max({0} \cup {ChartTotal(i) : i \in DOMAIN log})

Drawn(i) ==
  (\E j \in DOMAIN log : Cardinality(Active(j)) >= 2)
    => \E j \in i..Len(log) :
         ChartTotal(j) # 0 /\ (Cardinality(Active(j)) >= 2 \/ 5 * ChartTotal(j) > Peak)

----------------------------------------------------------------------------
\* Every sample the log has is stored by the backend, in whole megabytes: no
\* line the monitor sends is one that ParseData skips.  What is read of a line
\* has the type the charts expect.
EverySampleIsStored ==
  /\ ReportsTypeOK
  /\ \A i \in DOMAIN log, p \in Procs :
       Stored(i, p) = {[rss |-> s.rss \div 10, heap |-> s.heap \div 10] : s \in Logged(i, p)}

\* A process whose only samples have timestamp 0, later on: for the browser it
\* was never seen.
SeenAtZero(i) == {p \in Procs : Times[i] > 0 /\ Cursor("report", p)[i].seen = 0}

\* The two charts of a run agree, although one forgets values as it goes and the
\* other asks for each timestamp how old its last sample is: up to less than a
\* megabyte for each process when the samples are those of the backend, and but
\* for processes last seen at time 0 when they are those of the report.
TotalsAgree ==
  \A i \in DOMAIN log :
    LET lost == ChartTotal(i) - DashboardTotal("backend", i)
    IN /\ 0 <= lost /\ lost <= 9 * Cardinality(Active(i))
       /\ ChartTotal(i) = DashboardTotal("report", i)
            + Sum([p \in SeenAtZero(i) |-> ForwardFilled(p)[i].rss])

\* Whatever is trimmed from the chart, its peak is drawn, and so is every
\* moment at which two processes ran.
PeakIsDrawn ==
  \A i \in DOMAIN log :
    ChartTotal(i) = Peak \/ Cardinality(Active(i)) >= 2 => Drawn(i)
=============================================================================
