---------------------------- MODULE ReportsProofs ----------------------------
(***************************************************************************)
(* Proofs about what becomes of the samples of a run and the page that     *)
(* follows it, for any processes, sizes, gaps, readings, checkpoints and   *)
(* number of loads under way.                                              *)
(*                                                                         *)
(* Run page: a timeout is pending exactly while refreshTimer names one, so *)
(* setting the next always clears it; and the page of a run under way has  *)
(* a timeout or a load, since each step that takes one away brings the     *)
(* other.                                                                  *)
(*                                                                         *)
(* Samples: all that is shown is a function of the log, and the one fact   *)
(* about the log it needs is that times rise (LogInv).  The recursive      *)
(* functions are unrolled with Recursion, and each is brought to the same  *)
(* form: what a program has of a process at frame i depends only on the    *)
(* last frame k that sampled it (LastSample, SeriesAt).  Two programs that *)
(* agree for each process agree on the sums (SumOfDifferences).            *)
(*                                                                         *)
(* Story: the place of the highest value is the least of the places that   *)
(* have it (HighestIs), and a window around a frame of the run is one of   *)
(* the run (AroundIs).                                                     *)
(***************************************************************************)
EXTENDS ReplayData, Story, RunPage, Extremes

----------------------------------------------------------------------------
(***************************************************************************)
(* The page of a run                                                       *)
(***************************************************************************)
\* refreshTimer names the timeout that is pending, if there is one.
TimerIsNamed == refresh.held <=> refresh.pending = 1

PageInv == PageFollowsRun /\ TimerIsNamed

LEMMA CheckpointIsListed ==
  ASSUME NEW state \in States, selected \in Windows \cup {NoWindow}
  PROVE  /\ SelectCheckpoint(state) \in Windows \cup {NoWindow}
         /\ SelectCheckpoint(state) \in IF Listed[state] = {} THEN {NoWindow} ELSE Listed[state]
<1>1. /\ Listed[state] \subseteq Windows
      /\ ReadyOf[state] \subseteq Listed[state]
      /\ Listed[state] \in SUBSET Int /\ ReadyOf[state] \in SUBSET Int
      /\ IsFiniteSet(Listed[state])
  BY RunPageAssumption DEF Windows, States
<1>2. IsFiniteSet(ReadyOf[state])
  BY <1>1, FS_Subset
<1>3. ReadyOf[state] # {} => Max(ReadyOf[state]) \in ReadyOf[state]
  BY <1>1, <1>2, MaxIsGreatest
<1>4. Listed[state] # {} => Max(Listed[state]) \in Listed[state]
  BY <1>1, MaxIsGreatest
<1>. QED  BY <1>1, <1>3, <1>4 DEF SelectCheckpoint

LEMMA CancelledTimer ==
  ASSUME RunPageTypeOK, TimerIsNamed
  PROVE  Cancelled(refresh) = [pending |-> 0, held |-> FALSE]
<1>1. refresh.pending \in 0..1
  BY DEF RunPageTypeOK
<1>2. CASE refresh.held
  <2>1. refresh.pending = 1
    BY <1>2 DEF TimerIsNamed
  <2>2. Cancelled(refresh) = [pending |-> refresh.pending - 1, held |-> FALSE]
    BY <1>2 DEF Cancelled
  <2>. QED  BY <2>1, <2>2
<1>3. CASE ~refresh.held
  <2>1. refresh.pending = 0
    BY <1>1, <1>3 DEF TimerIsNamed
  <2>2. Cancelled(refresh) = [pending |-> refresh.pending - 0, held |-> FALSE]
    BY <1>3 DEF Cancelled
  <2>. QED  BY <2>1, <2>2
<1>. QED  BY <1>2, <1>3

LEMMA PageInvInit == RunPageInit => PageInv
<1>. SUFFICES ASSUME RunPageInit PROVE PageInv
  OBVIOUS
<1>1. 0 \in States
  BY RunPageAssumption DEF States
<1>2. loads \in [LoadIds -> [pc: {"idle", "sent", "answered"}, state: States]]
  BY <1>1 DEF RunPageInit, NoLoad
<1>3. RunPageTypeOK
  BY <1>1, <1>2 DEF RunPageInit, RunPageTypeOK
<1>4. KeepsPolling /\ SelectedIsListed /\ TimerIsNamed
  BY DEF RunPageInit, KeepsPolling, SelectedIsListed, TimerIsNamed, ShowsLive
<1>. QED  BY <1>3, <1>4 DEF PageInv, PageFollowsRun

LEMMA PageInvNext == PageInv /\ [RunPageNext]_runPageVars => PageInv'
<1>. SUFFICES ASSUME PageInv, [RunPageNext]_runPageVars PROVE PageInv'
  OBVIOUS
<1>. USE DEF PageInv, PageFollowsRun
<1>. DEFINE Load == [pc: {"idle", "sent", "answered"}, state: States]
<1>a. NoLoad \in Load
  BY RunPageAssumption DEF NoLoad, States
<1>1. ASSUME NEW s \in LoadIds, Answer(s) PROVE PageInv'
  <2>1. [pc |-> "answered", state |-> run] \in Load
    BY DEF RunPageTypeOK
  <2>2. loads' \in [LoadIds -> Load]
    BY <1>1, <2>1 DEF Answer, RunPageTypeOK
  <2>3. RunPageTypeOK'
    BY <1>1, <2>2 DEF Answer, RunPageTypeOK, Windows, States
  <2>4. loads'[s].pc # "idle"
    BY <1>1 DEF Answer, RunPageTypeOK
  <2>5. KeepsPolling' /\ SelectedIsListed' /\ TimerIsNamed'
    BY <1>1, <2>4 DEF Answer, KeepsPolling, ShowsLive, Finished, SelectedIsListed, TimerIsNamed
  <2>. QED  BY <2>3, <2>5
<1>2. ASSUME NEW s \in LoadIds, Draw(s) PROVE PageInv'
  <2>. DEFINE state == loads[s].state
  <2>1. state \in States /\ selected \in Windows \cup {NoWindow}
    BY DEF RunPageTypeOK
  <2>2. /\ SelectCheckpoint(state) \in Windows \cup {NoWindow}
        /\ SelectCheckpoint(state) \in IF Listed[state] = {} THEN {NoWindow} ELSE Listed[state]
    <3>. HIDE DEF state
    <3>. QED  BY <2>1, CheckpointIsListed
  <2>3. refresh' = IF Finished(state) THEN [pending |-> 0, held |-> FALSE]
                   ELSE [pending |-> 1, held |-> TRUE]
    <3>1. Cancelled(refresh) = [pending |-> 0, held |-> FALSE]
      BY CancelledTimer
    <3>2. Cancelled(refresh).pending + 1 = 1
      BY <3>1
    <3>. QED  BY <1>2, <3>1, <3>2 DEF Draw
  <2>4. loads' \in [LoadIds -> Load]
    BY <1>2, <1>a DEF Draw, RunPageTypeOK
  <2>5. RunPageTypeOK'
    <3>1. refresh' \in [pending: 0..1, held: BOOLEAN]
      BY <2>3
    <3>2. view' \in [shows: {"loading", "run", "unavailable"}, state: States]
      BY <1>2, <2>1 DEF Draw
    <3>. QED  BY <1>2, <2>2, <2>4, <3>1, <3>2 DEF Draw, RunPageTypeOK, Windows, States
  <2>6. KeepsPolling' /\ TimerIsNamed'
    BY <1>2, <2>3 DEF Draw, KeepsPolling, ShowsLive, Finished, TimerIsNamed
  <2>7. SelectedIsListed'
    BY <1>2, <2>2 DEF Draw, SelectedIsListed
  <2>. QED  BY <2>5, <2>6, <2>7
<1>3. ASSUME NEW s \in LoadIds, Fail(s) PROVE PageInv'
  <2>1. loads' \in [LoadIds -> Load]
    BY <1>3, <1>a DEF Fail, RunPageTypeOK
  <2>2. view' \in [shows: {"loading", "run", "unavailable"}, state: States]
        /\ view'.shows = "unavailable"
    BY <1>3 DEF Fail, RunPageTypeOK
  <2>3. RunPageTypeOK'
    BY <1>3, <2>1, <2>2 DEF Fail, RunPageTypeOK, Windows, States
  <2>4. KeepsPolling' /\ SelectedIsListed' /\ TimerIsNamed'
    BY <1>3, <2>2 DEF Fail, KeepsPolling, ShowsLive, SelectedIsListed, TimerIsNamed
  <2>. QED  BY <2>3, <2>4
<1>4. ASSUME NEW s \in LoadIds, Send(s)
      PROVE  loads' \in [LoadIds -> Load] /\ loads'[s].pc # "idle"
  BY <1>4 DEF Send, RunPageTypeOK
<1>5. ASSUME NEW s \in LoadIds, Refresh(s) PROVE PageInv'
  <2>1. loads' \in [LoadIds -> Load] /\ loads'[s].pc # "idle"
    BY <1>4, <1>5 DEF Refresh
  <2>2. refresh' = [pending |-> 0, held |-> FALSE]
    <3>1. refresh.pending \in 0..1
      BY DEF RunPageTypeOK
    <3>2. refresh.pending - 1 = 0
      BY <1>5, <3>1 DEF Refresh
    <3>. QED  BY <1>5, <3>2 DEF Refresh
  <2>3. RunPageTypeOK'
    BY <1>5, <2>1, <2>2 DEF Refresh, RunPageTypeOK, Windows, States
  <2>4. KeepsPolling' /\ SelectedIsListed' /\ TimerIsNamed'
    BY <1>5, <2>1, <2>2 DEF Refresh, KeepsPolling, SelectedIsListed, TimerIsNamed
  <2>. QED  BY <2>3, <2>4
<1>6. ASSUME NEW s \in LoadIds, SelectInterval(s) PROVE PageInv'
  <2>1. loads' \in [LoadIds -> Load] /\ loads'[s].pc # "idle"
    BY <1>4, <1>6 DEF SelectInterval
  <2>2. refresh' = [pending |-> 0, held |-> FALSE]
    BY <1>6, CancelledTimer DEF SelectInterval
  <2>3. RunPageTypeOK'
    BY <1>6, <2>1, <2>2 DEF SelectInterval, RunPageTypeOK, Windows, States
  <2>4. KeepsPolling' /\ SelectedIsListed' /\ TimerIsNamed'
    BY <1>6, <2>1, <2>2 DEF SelectInterval, KeepsPolling, SelectedIsListed, TimerIsNamed
  <2>. QED  BY <2>3, <2>4
<1>7. ASSUME NEW s \in LoadIds, Retry(s) PROVE PageInv'
  <2>1. loads' \in [LoadIds -> Load] /\ loads'[s].pc # "idle"
    BY <1>4, <1>7 DEF Retry
  <2>2. RunPageTypeOK'
    BY <1>7, <2>1 DEF Retry, RunPageTypeOK, Windows, States
  <2>3. KeepsPolling' /\ SelectedIsListed' /\ TimerIsNamed'
    BY <1>7, <2>1 DEF Retry, KeepsPolling, SelectedIsListed, TimerIsNamed
  <2>. QED  BY <2>2, <2>3
<1>8. ASSUME NEW w \in Windows, SelectWindow(w) PROVE PageInv'
  <2>1. RunPageTypeOK'
    BY <1>8 DEF SelectWindow, RunPageTypeOK, Windows, States
  <2>2. KeepsPolling' /\ SelectedIsListed' /\ TimerIsNamed'
    BY <1>8 DEF SelectWindow, KeepsPolling, ShowsLive, Finished, SelectedIsListed, TimerIsNamed
  <2>. QED  BY <2>1, <2>2
<1>9. ASSUME RunGoesOn PROVE PageInv'
  <2>1. run' \in States
    BY <1>9, RunPageAssumption DEF RunGoesOn, RunPageTypeOK, Finished, States
  <2>2. RunPageTypeOK'
    BY <1>9, <2>1 DEF RunGoesOn, RunPageTypeOK, Windows, States
  <2>3. KeepsPolling' /\ SelectedIsListed' /\ TimerIsNamed'
    BY <1>9 DEF RunGoesOn, KeepsPolling, ShowsLive, Finished, SelectedIsListed, TimerIsNamed
  <2>. QED  BY <2>2, <2>3
<1>10. ASSUME UNCHANGED runPageVars PROVE PageInv'
  BY <1>10 DEF runPageVars, RunPageTypeOK, KeepsPolling, ShowsLive, Finished, SelectedIsListed,
               TimerIsNamed, Windows, States
<1>. QED  BY <1>1, <1>2, <1>3, <1>5, <1>6, <1>7, <1>8, <1>9, <1>10 DEF RunPageNext

\* The page of a run under way follows it, for any states and checkpoints of the
\* run, with any number of loads under way, in any order of their answers: at most
\* one timeout is pending, a load or a timeout always is while the run is under
\* way, and the checkpoint that is selected is on the page (loadRunData,
\* cancelRefresh and selectCheckpoint).
THEOREM ThePageFollowsItsRun == RunPageSpec => []PageFollowsRun
<1>1. PageInv => PageFollowsRun
  BY DEF PageInv
<1>. QED  BY <1>1, PageInvInit, PageInvNext, PTL DEF RunPageSpec

----------------------------------------------------------------------------
(***************************************************************************)
(* The samples                                                             *)
(***************************************************************************)
LEMMA LogIsTyped == ReportsSpec => []ReportsTypeOK
<1>1. ReportsInit => ReportsTypeOK
  BY ReportsAssumption DEF ReportsInit, ReportsTypeOK
<1>2. ReportsTypeOK /\ [ReportsNext]_log => ReportsTypeOK'
  <2>. SUFFICES ASSUME ReportsTypeOK, [ReportsNext]_log PROVE ReportsTypeOK'
    OBVIOUS
  <2>1. CASE UNCHANGED log
    BY <2>1 DEF ReportsTypeOK
  <2>2. ASSUME NEW gap \in Nat, NEW rss \in [Procs -> Sizes \cup {0}], Sample(gap, rss)
        PROVE  ReportsTypeOK'
    <3>. DEFINE time == gap + IF log = <<>> THEN 0 ELSE log[Len(log)].time
    <3>1. time \in Nat
      <4>1. log \in Seq(Iterations)
        BY DEF ReportsTypeOK
      <4>2. CASE log = <<>>
        BY <4>2
      <4>3. CASE log # <<>>
        <5>1. log[Len(log)] \in Iterations
          BY <4>1, <4>3
        <5>. QED  BY <4>3, <5>1 DEF Iterations
      <4>. QED  BY <4>2, <4>3
    <3>2. [time |-> time, rss |-> rss] \in Iterations
      <4>. HIDE DEF time
      <4>. QED  BY <3>1 DEF Iterations
    <3>3. log' = Append(log, [time |-> time, rss |-> rss]) /\ Len(log) < MaxLog
      BY <2>2 DEF Sample
    <3>. HIDE DEF time
    <3>. QED  BY <3>2, <3>3, ReportsAssumption DEF ReportsTypeOK
  <2>3. Starts \subseteq Nat /\ Gaps \subseteq Nat
    BY ReportsAssumption
  <2>. QED  BY <2>1, <2>2, <2>3 DEF ReportsNext
<1>. QED  BY <1>1, <1>2, PTL DEF ReportsSpec

LEMMA SampleIsStored ==
  ASSUME ReportsTypeOK, NEW i \in DOMAIN log, NEW p \in Procs
  PROVE  Stored(i, p) = {[rss |-> s.rss \div 10, heap |-> s.heap \div 10] : s \in Logged(i, p)}
<1>. DEFINE size == log[i].rss[p]
<1>1. size \in Nat
  <2>1. log[i] \in Iterations
    BY DEF ReportsTypeOK
  <2>2. size \in Sizes \cup {0}
    BY <2>1 DEF Iterations
  <2>3. Sizes \subseteq Nat
    BY ReportsAssumption
  <2>. HIDE DEF size
  <2>. QED  BY <2>2, <2>3
<1>2. CASE size = 0
  BY <1>2 DEF Stored, Logged
<1>3. CASE size # 0
  <2>. HIDE DEF size
  <2>1. Stored(i, p) = ParseData(SentLine(p, size)) /\ Logged(i, p) = {ReportSample(LogLine(p, size))}
    BY <1>3 DEF Stored, Logged, size
  <2>2. CASE p \in Bare
    BY <2>1, <2>2 DEF ParseData, SentLine, ReportSample, LogLine, NumberOrZero, NA
  <2>3. CASE p \notin Bare
    BY <2>1, <2>3 DEF ParseData, SentLine, ReportSample, LogLine, NumberOrZero, NA
  <2>. QED  BY <2>2, <2>3
<1>. QED  BY <1>2, <1>3

\* For any processes, sizes and times: the backend stores every sample the log
\* has, in whole megabytes, whether jstat reports of the process or not (the main
\* loop of the monitor, ParseData and parseLogSample).
THEOREM EverySampleArrives == ReportsSpec => []EverySampleIsStored
<1>1. ReportsTypeOK => EverySampleIsStored
  BY SampleIsStored DEF EverySampleIsStored
<1>. QED  BY <1>1, LogIsTyped, PTL

----------------------------------------------------------------------------
(***************************************************************************)
(* Sums.  The definition takes the elements in some order; none matters.   *)
(***************************************************************************)
\* One sum for each part of the domain of f, taken in the order of CHOOSE.
Taken(sums, f, parts) ==
  \A T \in parts : sums[T] = IF T = {} THEN 0
                             ELSE LET x == CHOOSE y \in T : TRUE IN f[x] + sums[T \ {x}]

LEMMA SumIsDefined ==
  ASSUME NEW S, IsFiniteSet(S), NEW f \in [S -> Int]
  PROVE  \E sums \in [SUBSET S -> Int] : Taken(sums, f, SUBSET S)
<1>. DEFINE N == Cardinality(S)
            Upto(k) == {T \in SUBSET S : Cardinality(T) <= k}
            B == {k \in 0..N : \E sums \in [Upto(k) -> Int] : Taken(sums, f, Upto(k))}
<1>1. /\ N \in Nat
      /\ \A T \in SUBSET S : Cardinality(T) \in 0..N /\ IsFiniteSet(T)
      /\ \A T \in SUBSET S : Cardinality(T) = 0 <=> T = {}
      /\ \A T \in SUBSET S : \A x \in T : Cardinality(T \ {x}) = Cardinality(T) - 1
  <2>1. N \in Nat
    BY FS_CardinalityType
  <2>2. ASSUME NEW T \in SUBSET S
        PROVE  IsFiniteSet(T) /\ Cardinality(T) \in 0..N /\ (Cardinality(T) = 0 <=> T = {})
    <3>1. IsFiniteSet(T) /\ Cardinality(T) <= N
      BY FS_Subset
    <3>2. Cardinality(T) \in Nat
      BY <3>1, FS_CardinalityType
    <3>. HIDE DEF N
    <3>. QED  BY <2>1, <3>1, <3>2, FS_EmptySet
  <2>3. ASSUME NEW T \in SUBSET S, NEW x \in T PROVE Cardinality(T \ {x}) = Cardinality(T) - 1
    BY <2>2, FS_RemoveElement
  <2>. QED  BY <2>1, <2>2, <2>3
<1>2. 0 \in B
  <2>1. Upto(0) = {{}}
    BY <1>1
  <2>2. Taken([T \in {{}} |-> 0], f, {{}}) /\ [T \in {{}} |-> 0] \in [{{}} -> Int]
    BY DEF Taken
  <2>. HIDE DEF Upto
  <2>. QED  BY <1>1, <2>1, <2>2
<1>3. ASSUME NEW k \in 1..N, k - 1 \in B PROVE k \in B
  <2>1. PICK sums \in [Upto(k - 1) -> Int] : Taken(sums, f, Upto(k - 1))
    BY <1>3
  <2>. DEFINE c(T) == CHOOSE y \in T : TRUE
              g == [T \in Upto(k) |-> IF T \in Upto(k - 1) THEN sums[T]
                                      ELSE f[c(T)] + sums[T \ {c(T)}]]
  <2>2. ASSUME NEW T \in Upto(k), T # {} PROVE c(T) \in T /\ c(T) \in S /\ T \ {c(T)} \in Upto(k - 1)
    <3>1. c(T) \in T
      BY <2>2
    <3>. HIDE DEF c
    <3>2. Cardinality(T \ {c(T)}) = Cardinality(T) - 1 /\ Cardinality(T) \in 0..N
      BY <1>1, <3>1
    <3>. QED  BY <3>1, <3>2
  <2>3. {} \in Upto(k - 1)
    BY <1>1
  <2>4. \A T \in Upto(k - 1) : T \in Upto(k)
    BY <1>1
  <2>. HIDE DEF c, Upto
  <2>5. g \in [Upto(k) -> Int]
    <3>1. ASSUME NEW T \in Upto(k), T \notin Upto(k - 1) PROVE f[c(T)] + sums[T \ {c(T)}] \in Int
      <4>1. f[c(T)] \in Int /\ sums[T \ {c(T)}] \in Int
        BY <2>2, <2>3, <3>1
      <4>. QED  BY <4>1
    <3>2. ASSUME NEW T \in Upto(k), T \in Upto(k - 1) PROVE sums[T] \in Int
      BY <3>2
    <3>. QED  BY <3>1, <3>2
  <2>6. ASSUME NEW T \in Upto(k) PROVE g[T] = IF T = {} THEN 0 ELSE f[c(T)] + g[T \ {c(T)}]
    <3>1. CASE T = {}
      <4>1. g[T] = sums[T]
        BY <2>3, <3>1
      <4>. QED  BY <2>1, <2>3, <3>1, <4>1 DEF Taken
    <3>2. CASE T # {}
      <4>1. T \ {c(T)} \in Upto(k - 1)
        BY <2>2, <3>2
      <4>2. g[T \ {c(T)}] = sums[T \ {c(T)}]
        BY <2>4, <4>1
      <4>3. CASE T \in Upto(k - 1)
        <5>1. g[T] = sums[T]
          BY <4>3
        <5>2. sums[T] = f[c(T)] + sums[T \ {c(T)}]
          BY <2>1, <3>2, <4>3 DEF Taken, c
        <5>. QED  BY <3>2, <4>2, <5>1, <5>2
      <4>4. CASE T \notin Upto(k - 1)
        BY <3>2, <4>2, <4>4
      <4>. QED  BY <4>3, <4>4
    <3>. QED  BY <3>1, <3>2
  <2>7. Taken(g, f, Upto(k))
    <3>. HIDE DEF g
    <3>. QED  BY <2>6 DEF Taken, c
  <2>. HIDE DEF g
  <2>. QED  BY <2>5, <2>7
<1>4. 0..N \subseteq B
  <2>. HIDE DEF B, N
  <2>. QED  BY <1>1, <1>2, <1>3, Upwards
<1>5. Upto(N) = SUBSET S
  BY <1>1
<1>6. N \in B
  <2>. HIDE DEF B, N
  <2>. QED  BY <1>1, <1>4
<1>. QED  BY <1>5, <1>6

LEMMA SumIsTaken ==
  ASSUME NEW S, IsFiniteSet(S), NEW f \in [S -> Int]
  PROVE  \E sums \in [SUBSET S -> Int] : Taken(sums, f, SUBSET S) /\ Sum(f) = sums[S]
<1>. DEFINE Body(g) == [T \in SUBSET S |-> IF T = {} THEN 0
                                           ELSE LET x == CHOOSE y \in T : TRUE IN f[x] + g[T \ {x}]]
            sums == CHOOSE g : g = Body(g)
<1>1. PICK g \in [SUBSET S -> Int] : Taken(g, f, SUBSET S)
  BY SumIsDefined
<1>2. g = Body(g)
  BY <1>1 DEF Taken
<1>3. sums = Body(sums)
  <2>. HIDE DEF Body
  <2>. QED  BY <1>2
<1>4. Sum(f) = sums[S]
  BY DEF Sum, MapThenSumSet, MapThenFoldSet
<1>5. /\ DOMAIN sums = SUBSET S
      /\ \A T \in SUBSET S : sums[T] = IF T = {} THEN 0
                                       ELSE LET x == CHOOSE y \in T : TRUE IN f[x] + sums[T \ {x}]
  <2>. HIDE DEF sums
  <2>. QED  BY <1>3
<1>. HIDE DEF sums
<1>6. SUBSET S \subseteq {T \in SUBSET S : sums[T] \in Int}
  <2>. DEFINE B == {T \in SUBSET S : sums[T] \in Int}
  <2>1. {} \in B
    BY <1>5
  <2>2. ASSUME NEW T \in SUBSET S, T # {}, \A x \in T : T \ {x} \in B PROVE T \in B
    <3>. DEFINE c == CHOOSE y \in T : TRUE
    <3>1. c \in T
      BY <2>2
    <3>2. sums[T] = f[c] + sums[T \ {c}]
      BY <1>5, <2>2
    <3>. HIDE DEF c
    <3>3. f[c] \in Int /\ sums[T \ {c}] \in Int
      BY <2>2, <3>1
    <3>. QED  BY <3>2, <3>3
  <2>. HIDE DEF B
  <2>3. SUBSET S \subseteq B
    BY <2>1, <2>2, SubsetsUpwards
  <2>. QED  BY <2>3 DEF B
<1>7. sums \in [SUBSET S -> Int]
  <2>1. sums = [T \in SUBSET S |-> sums[T]]
    BY <1>3, <1>5
  <2>. QED  BY <1>6, <2>1
<1>. QED  BY <1>4, <1>5, <1>7 DEF Taken

\* In whatever order the elements are taken.
InAnyOrder(sums, f, S) ==
  sums[{}] = 0 /\ \A T \in SUBSET S : \A x \in T : sums[T] = f[x] + sums[T \ {x}]

LEMMA OrderIsFree ==
  ASSUME NEW S, IsFiniteSet(S), NEW f \in [S -> Int]
  PROVE  \E sums \in [SUBSET S -> Int] : InAnyOrder(sums, f, S) /\ Sum(f) = sums[S]
<1>1. PICK sums \in [SUBSET S -> Int] : Taken(sums, f, SUBSET S) /\ Sum(f) = sums[S]
  BY SumIsTaken
<1>. DEFINE B == {T \in SUBSET S : \A x \in T : sums[T] = f[x] + sums[T \ {x}]}
<1>2. {} \in B
  OBVIOUS
<1>3. ASSUME NEW T \in SUBSET S, T # {}, \A x \in T : T \ {x} \in B PROVE T \in B
  <2>. DEFINE c == CHOOSE y \in T : TRUE
  <2>1. c \in T
    BY <1>3
  <2>2. sums[T] = f[c] + sums[T \ {c}]
    BY <1>1, <1>3 DEF Taken
  <2>3. ASSUME NEW x \in T PROVE sums[T] = f[x] + sums[T \ {x}]
    <3>. HIDE DEF c
    <3>1. CASE x = c
      BY <2>2, <3>1
    <3>2. CASE x # c
      <4>1. sums[T \ {c}] = f[x] + sums[(T \ {c}) \ {x}]
        BY <1>3, <2>1, <3>2
      <4>2. sums[T \ {x}] = f[c] + sums[(T \ {x}) \ {c}]
        BY <1>3, <2>1, <3>2
      <4>3. (T \ {c}) \ {x} = (T \ {x}) \ {c}
        OBVIOUS
      <4>4. f[x] \in Int /\ f[c] \in Int /\ sums[(T \ {c}) \ {x}] \in Int
        BY <2>1
      <4>5. \A a, b, d \in Int : a + (b + d) = b + (a + d)
        OBVIOUS
      <4>6. sums[T] = f[c] + (f[x] + sums[(T \ {c}) \ {x}])
        BY <2>2, <4>1
      <4>7. f[x] + sums[T \ {x}] = f[x] + (f[c] + sums[(T \ {c}) \ {x}])
        BY <4>2, <4>3
      <4>. QED  BY <4>4, <4>5, <4>6, <4>7
    <3>. QED  BY <3>1, <3>2
  <2>. QED  BY <2>3
<1>4. SUBSET S \subseteq B
  <2>. HIDE DEF B
  <2>. QED  BY <1>2, <1>3, SubsetsUpwards
<1>5. InAnyOrder(sums, f, S)
  BY <1>1, <1>4 DEF Taken, InAnyOrder
<1>. QED  BY <1>1, <1>5

\* Whatever adds up the elements is the sum.
LEMMA SumsAreUnique ==
  ASSUME NEW S, IsFiniteSet(S), NEW f, NEW g, NEW h,
         InAnyOrder(g, f, S), InAnyOrder(h, f, S)
  PROVE  g[S] = h[S]
<1>. DEFINE B == {T \in SUBSET S : g[T] = h[T]}
<1>1. {} \in B
  BY DEF InAnyOrder
<1>2. ASSUME NEW T \in SUBSET S, T # {}, \A x \in T : T \ {x} \in B PROVE T \in B
  <2>1. PICK x \in T : TRUE
    BY <1>2
  <2>2. g[T] = f[x] + g[T \ {x}] /\ h[T] = f[x] + h[T \ {x}]
    BY DEF InAnyOrder
  <2>. QED  BY <1>2, <2>1, <2>2
<1>3. SUBSET S \subseteq B
  <2>. HIDE DEF B
  <2>. QED  BY <1>1, <1>2, SubsetsUpwards
<1>. QED  BY <1>3

LEMMA SumIs ==
  ASSUME NEW S, IsFiniteSet(S), NEW f \in [S -> Int], NEW sums, InAnyOrder(sums, f, S)
  PROVE  Sum(f) = sums[S]
BY OrderIsFree, SumsAreUnique

LEMMA SumOfNothing == Sum([x \in {} |-> 0]) = 0
<1>1. IsFiniteSet({}) /\ [x \in {} |-> 0] \in [{} -> Int]
  BY FS_EmptySet
<1>2. PICK sums \in [SUBSET {} -> Int] :
        InAnyOrder(sums, [x \in {} |-> 0], {}) /\ Sum([x \in {} |-> 0]) = sums[{}]
  BY <1>1, OrderIsFree
<1>. QED  BY <1>2 DEF InAnyOrder

LEMMA SumOfDifferences ==
  ASSUME NEW S, IsFiniteSet(S), NEW f \in [S -> Int], NEW g \in [S -> Int]
  PROVE  /\ Sum(f) \in Int /\ Sum(g) \in Int
         /\ Sum([x \in S |-> f[x] - g[x]]) = Sum(f) - Sum(g)
<1>1. PICK F \in [SUBSET S -> Int] : InAnyOrder(F, f, S) /\ Sum(f) = F[S]
  BY OrderIsFree
<1>2. PICK G \in [SUBSET S -> Int] : InAnyOrder(G, g, S) /\ Sum(g) = G[S]
  BY OrderIsFree
<1>. DEFINE h == [x \in S |-> f[x] - g[x]]
            H == [T \in SUBSET S |-> F[T] - G[T]]
<1>3. H[{}] = 0
  BY <1>1, <1>2 DEF InAnyOrder
<1>4. ASSUME NEW T \in SUBSET S, NEW x \in T PROVE H[T] = h[x] + H[T \ {x}]
  <2>1. F[T] = f[x] + F[T \ {x}] /\ G[T] = g[x] + G[T \ {x}]
    BY <1>1, <1>2 DEF InAnyOrder
  <2>2. f[x] \in Int /\ g[x] \in Int /\ F[T \ {x}] \in Int /\ G[T \ {x}] \in Int /\ x \in S
    OBVIOUS
  <2>3. H[T] = F[T] - G[T] /\ H[T \ {x}] = F[T \ {x}] - G[T \ {x}] /\ h[x] = f[x] - g[x]
    BY <2>2
  <2>. HIDE DEF h, H
  <2>. QED  BY <2>1, <2>2, <2>3
<1>5. InAnyOrder(H, h, S)
  <2>. HIDE DEF h, H
  <2>. QED  BY <1>3, <1>4 DEF InAnyOrder
<1>6. h \in [S -> Int]
  OBVIOUS
<1>7. Sum(h) = H[S]
  <2>. HIDE DEF h, H
  <2>. QED  BY <1>5, <1>6, SumIs
<1>. QED  BY <1>1, <1>2, <1>7

\* A sum of naturals is at least each of them, and 0 only if all are.
LEMMA SumOfNaturals ==
  ASSUME NEW S, IsFiniteSet(S), NEW f \in [S -> Nat]
  PROVE  /\ Sum(f) \in Nat
         /\ \A x \in S : f[x] <= Sum(f)
         /\ (\A x \in S : f[x] = 0) => Sum(f) = 0
<1>0. f \in [S -> Int]
  OBVIOUS
<1>1. PICK F \in [SUBSET S -> Int] : InAnyOrder(F, f, S) /\ Sum(f) = F[S]
  BY <1>0, OrderIsFree
<1>. DEFINE B == {T \in SUBSET S : /\ F[T] \in Nat
                                   /\ \A x \in T : f[x] <= F[T]
                                   /\ (\A x \in T : f[x] = 0) => F[T] = 0}
<1>2. {} \in B
  BY <1>1 DEF InAnyOrder
<1>3. ASSUME NEW T \in SUBSET S, T # {}, \A x \in T : T \ {x} \in B PROVE T \in B
  <2>1. \A x \in T : F[T] = f[x] + F[T \ {x}] /\ f[x] \in Nat /\ F[T \ {x}] \in Nat
    BY <1>1, <1>3 DEF InAnyOrder
  <2>2. PICK x \in T : TRUE
    BY <1>3
  <2>3. \A a, b \in Nat : a + b \in Nat /\ a <= a + b
    OBVIOUS
  <2>4. F[T] \in Nat /\ \A y \in T : f[y] <= F[T]
    <3>1. ASSUME NEW y \in T PROVE F[T] \in Nat /\ f[y] <= F[T]
      <4>1. F[T] = f[y] + F[T \ {y}] /\ f[y] \in Nat /\ F[T \ {y}] \in Nat
        BY <2>1
      <4>. QED  BY <2>3, <4>1
    <3>. QED  BY <2>2, <3>1
  <2>5. ASSUME \A y \in T : f[y] = 0 PROVE F[T] = 0
    <3>1. F[T \ {x}] = 0
      BY <1>3, <2>2, <2>5
    <3>. QED  BY <2>1, <2>2, <2>5, <3>1
  <2>. QED  BY <2>4, <2>5
<1>4. SUBSET S \subseteq B
  <2>. HIDE DEF B
  <2>. QED  BY <1>2, <1>3, SubsetsUpwards
<1>. QED  BY <1>1, <1>4

LEMMA SumIsMonotonic ==
  ASSUME NEW S, IsFiniteSet(S), NEW f \in [S -> Int], NEW g \in [S -> Int],
         \A x \in S : f[x] <= g[x]
  PROVE  Sum(f) <= Sum(g)
<1>. DEFINE h == [x \in S |-> g[x] - f[x]]
<1>1. h \in [S -> Nat]
  OBVIOUS
<1>2. Sum(h) = Sum(g) - Sum(f) /\ Sum(f) \in Int /\ Sum(g) \in Int
  BY SumOfDifferences
<1>3. Sum(h) \in Nat
  <2>. HIDE DEF h
  <2>. QED  BY <1>1, SumOfNaturals
<1>. QED  BY <1>2, <1>3

\* What is 0 outside of a part adds up to what the part adds up to.
LEMMA SumOfPart ==
  ASSUME NEW S, IsFiniteSet(S), NEW f \in [S -> Int], NEW P \in SUBSET S,
         \A x \in S \ P : f[x] = 0
  PROVE  Sum(f) = Sum([x \in P |-> f[x]])
<1>. DEFINE g == [x \in P |-> f[x]]
<1>1. IsFiniteSet(P) /\ g \in [P -> Int]
  BY FS_Subset
<1>2. PICK G \in [SUBSET P -> Int] : InAnyOrder(G, g, P) /\ Sum(g) = G[P]
  <2>. HIDE DEF g
  <2>. QED  BY <1>1, OrderIsFree
<1>. DEFINE F == [T \in SUBSET S |-> G[T \cap P]]
<1>3. F[{}] = 0
  <2>1. {} \cap P = {}
    OBVIOUS
  <2>. QED  BY <1>2, <2>1 DEF InAnyOrder
<1>4. ASSUME NEW T \in SUBSET S, NEW x \in T PROVE F[T] = f[x] + F[T \ {x}]
  <2>1. F[T] = G[T \cap P] /\ F[T \ {x}] = G[(T \ {x}) \cap P] /\ G[(T \ {x}) \cap P] \in Int
    OBVIOUS
  <2>. HIDE DEF F
  <2>2. CASE x \in P
    <3>1. (T \ {x}) \cap P = (T \cap P) \ {x} /\ x \in T \cap P /\ T \cap P \in SUBSET P
      BY <2>2
    <3>2. G[T \cap P] = g[x] + G[(T \cap P) \ {x}] /\ g[x] = f[x]
      BY <1>2, <2>2, <3>1 DEF InAnyOrder
    <3>. QED  BY <2>1, <3>1, <3>2
  <2>3. CASE x \notin P
    <3>1. (T \ {x}) \cap P = T \cap P /\ f[x] = 0
      BY <2>3
    <3>2. F[T] = F[T \ {x}] /\ F[T] \in Int
      BY <2>1, <3>1
    <3>. QED  BY <3>1, <3>2
  <2>. QED  BY <2>2, <2>3
<1>5. InAnyOrder(F, f, S)
  <2>. HIDE DEF F
  <2>. QED  BY <1>3, <1>4 DEF InAnyOrder
<1>6. Sum(f) = F[S]
  <2>. HIDE DEF F
  <2>. QED  BY <1>5, SumIs
<1>7. S \cap P = P
  OBVIOUS
<1>. QED  BY <1>2, <1>6, <1>7

\* A sum of c for each element.
LEMMA SumOfSame ==
  ASSUME NEW S, IsFiniteSet(S), NEW c \in Nat
  PROVE  Sum([x \in S |-> c]) = c * Cardinality(S)
<1>. DEFINE f == [x \in S |-> c]
            F == [T \in SUBSET S |-> c * Cardinality(T)]
<1>1. \A T \in SUBSET S : IsFiniteSet(T) /\ Cardinality(T) \in Nat
  BY FS_Subset, FS_CardinalityType
<1>2. F[{}] = 0
  BY FS_EmptySet
<1>3. ASSUME NEW T \in SUBSET S, NEW x \in T PROVE F[T] = f[x] + F[T \ {x}]
  <2>1. Cardinality(T \ {x}) = Cardinality(T) - 1 /\ Cardinality(T) \in Nat
    BY <1>1, FS_RemoveElement
  <2>2. c * Cardinality(T) = c + c * (Cardinality(T) - 1)
    BY <2>1
  <2>. QED  BY <2>1, <2>2
<1>4. InAnyOrder(F, f, S) /\ f \in [S -> Int]
  <2>1. f \in [S -> Int]
    OBVIOUS
  <2>. HIDE DEF f, F
  <2>. QED  BY <1>2, <1>3, <2>1 DEF InAnyOrder
<1>5. Sum(f) = F[S]
  <2>. HIDE DEF f, F
  <2>. QED  BY <1>4, SumIs
<1>. QED  BY <1>5

----------------------------------------------------------------------------
(***************************************************************************)
(* The log, and the gap of the charts                                      *)
(***************************************************************************)
LogInv ==
  /\ ReportsTypeOK
  /\ \A i, j \in DOMAIN log : i < j => log[i].time < log[j].time

LEMMA LogEntries ==
  ASSUME ReportsTypeOK
  PROVE  /\ Len(log) \in Nat /\ DOMAIN log = 1..Len(log)
         /\ \A i \in 1..Len(log) : log[i] \in Iterations /\ log[i].time \in Nat /\ Times[i] = log[i].time
         /\ \A i \in 1..Len(log) : \A p \in Procs : log[i].rss[p] \in Nat
<1>1. log \in Seq(Iterations) /\ Len(log) \in Nat /\ DOMAIN log = 1..Len(log)
  BY DEF ReportsTypeOK
<1>2. \A i \in 1..Len(log) : log[i] \in Iterations
  BY <1>1
<1>3. Sizes \subseteq Nat
  BY ReportsAssumption
<1>4. \A i \in 1..Len(log) : log[i].time \in Nat /\ Times[i] = log[i].time
  BY <1>1, <1>2 DEF Iterations, Times
<1>5. ASSUME NEW i \in 1..Len(log), NEW p \in Procs PROVE log[i].rss[p] \in Nat
  <2>1. log[i].rss[p] \in Sizes \cup {0}
    BY <1>2 DEF Iterations
  <2>. DEFINE size == log[i].rss[p]
  <2>. HIDE DEF size
  <2>2. size \in Sizes \cup {0} => size \in Nat
    BY <1>3
  <2>. QED  BY <2>1, <2>2 DEF size
<1>. QED  BY <1>1, <1>2, <1>4, <1>5

LEMMA LogInvInit == ReportsInit => LogInv
BY ReportsAssumption DEF ReportsInit, LogInv, ReportsTypeOK

LEMMA LogInvNext == LogInv /\ [ReportsNext]_log => LogInv'
<1>. SUFFICES ASSUME LogInv, [ReportsNext]_log PROVE LogInv'
  OBVIOUS
<1>1. CASE UNCHANGED log
  BY <1>1 DEF LogInv, ReportsTypeOK
<1>2. ASSUME NEW gap \in Nat, NEW rss \in [Procs -> Sizes \cup {0}], Sample(gap, rss),
             log # <<>> => gap \in Gaps
      PROVE  LogInv'
  <2>. DEFINE time == gap + IF log = <<>> THEN 0 ELSE log[Len(log)].time
              entry == [time |-> time, rss |-> rss]
  <2>1. /\ Len(log) \in Nat /\ DOMAIN log = 1..Len(log)
        /\ \A i \in 1..Len(log) : log[i] \in Iterations /\ log[i].time \in Nat
    BY LogEntries DEF LogInv
  <2>2. log = <<>> <=> Len(log) = 0
    BY DEF LogInv, ReportsTypeOK
  <2>3. time \in Nat /\ \A i \in 1..Len(log) : log[i].time < time
    <3>1. CASE log = <<>>
      BY <2>2, <3>1
    <3>2. CASE log # <<>>
      <4>1. gap \in Nat \ {0} /\ Len(log) \in 1..Len(log)
        BY <1>2, <2>1, <2>2, <3>2, ReportsAssumption
      <4>2. log[Len(log)].time \in Nat /\ time = gap + log[Len(log)].time
        BY <2>1, <3>2, <4>1
      <4>3. \A i \in 1..Len(log) : log[i].time <= log[Len(log)].time
        BY <2>1, <4>1 DEF LogInv
      <4>. HIDE DEF time
      <4>. QED  BY <2>1, <4>1, <4>2, <4>3
    <3>. QED  BY <3>1, <3>2
  <2>4. log' = Append(log, entry) /\ Len(log) < MaxLog
    BY <1>2 DEF Sample
  <2>. HIDE DEF time
  <2>5. entry \in Iterations
    BY <2>3 DEF Iterations
  <2>6. entry.time = time
    OBVIOUS
  <2>. HIDE DEF entry
  <2>7. ReportsTypeOK'
    BY <2>4, <2>5, ReportsAssumption DEF LogInv, ReportsTypeOK
  <2>8. /\ DOMAIN log' = 1..Len(log) + 1
        /\ \A i \in 1..Len(log) : log'[i] = log[i]
        /\ log'[Len(log) + 1] = entry
    <3>1. log \in Seq(Iterations)
      BY DEF LogInv, ReportsTypeOK
    <3>. DEFINE L == Append(log, entry)
    <3>2. /\ DOMAIN L = 1..Len(log) + 1 /\ L[Len(log) + 1] = entry
          /\ \A i \in 1..Len(log) : L[i] = log[i]
      BY <2>5, <3>1
    <3>. HIDE DEF L
    <3>. QED  BY <2>4, <3>2 DEF L
  <2>9. \A i, j \in DOMAIN log' : i < j => log'[i].time < log'[j].time
    BY <2>1, <2>3, <2>6, <2>8 DEF LogInv
  <2>. QED  BY <2>7, <2>9 DEF LogInv
<1>3. Starts \subseteq Nat /\ Gaps \subseteq Nat
  BY ReportsAssumption
<1>. QED  BY <1>1, <1>2, <1>3 DEF ReportsNext

LEMMA LogInvHolds == ReportsSpec => []LogInv
BY LogInvInit, LogInvNext, PTL DEF ReportsSpec

\* The k-th element is there.
LEMMA RankedElement ==
  ASSUME NEW n \in Nat, NEW s \in [1..n -> Nat \ {0}], NEW k \in 1..n
  PROVE  Ranked(s, k) \in Nat \ {0}
<1>. DEFINE enough == {v \in Range(s) : Cardinality({i \in DOMAIN s : s[i] <= v}) >= k}
<1>1. Range(s) \in SUBSET Int /\ Range(s) # {} /\ Range(s) \subseteq Nat \ {0}
  BY DEF Range
<1>2. IsFiniteSet(1..n) /\ Cardinality(1..n) = n
  BY FS_Interval
<1>3. IsFiniteSet(Range(s))
  <2>1. s \in Surjection(1..n, Range(s))
    BY DEF Surjection, Range
  <2>. QED  BY <1>2, <2>1, FS_Surjection
<1>4. Max(Range(s)) \in Range(s) /\ \A v \in Range(s) : v <= Max(Range(s))
  BY <1>1, <1>3, MaxIsGreatest
<1>5. {i \in DOMAIN s : s[i] <= Max(Range(s))} = 1..n
  BY <1>4 DEF Range
<1>6. Max(Range(s)) \in enough
  <2>. DEFINE m == Max(Range(s))
  <2>1. Cardinality({i \in DOMAIN s : s[i] <= m}) >= k
    <3>1. {i \in DOMAIN s : s[i] <= m} = 1..n /\ n >= k
      BY <1>5
    <3>. HIDE DEF m
    <3>. QED  BY <1>2, <3>1
  <2>. HIDE DEF m
  <2>2. m \in Range(s)
    BY <1>4 DEF m
  <2>3. m \in enough
    BY <2>1, <2>2
  <2>. QED  BY <2>3 DEF m
<1>7. enough \in SUBSET Nat
  BY <1>1
<1>8. Min(enough) \in enough
  <2>. HIDE DEF enough
  <2>. QED  BY <1>6, <1>7, MinOfNaturals
<1>. QED  BY <1>1, <1>8 DEF Ranked

LEMMA GapsAgree ==
  ASSUME LogInv
  PROVE  /\ Len(log) < 2 => DashboardGap = 0 /\ ChartGap = 2
         /\ Len(log) >= 2 => DashboardGap \in Nat \ {0} /\ ChartGap = DashboardGap
         /\ ChartGap \in Nat \ {0} /\ DashboardGap \in Nat
<1>. DEFINE n == Len(log) - 1
<1>1. Len(log) \in Nat
  BY LogEntries DEF LogInv
<1>2. CASE Len(log) < 2
  BY <1>2 DEF DashboardGap, ChartGap
<1>3. CASE Len(log) >= 2
  <2>1. n \in Nat \ {0}
    <3>1. \A k \in Nat : k >= 2 => k - 1 \in Nat \ {0}
      OBVIOUS
    <3>. QED  BY <1>1, <1>3, <3>1
  <2>2. Deltas \in [1..n -> Nat \ {0}]
    <3>1. ASSUME NEW i \in 1..n PROVE Times[i + 1] - Times[i] \in Nat \ {0}
      <4>1. i \in 1..Len(log) /\ i + 1 \in 1..Len(log) /\ i < i + 1
        BY <1>1
      <4>2. Times[i] \in Nat /\ Times[i + 1] \in Nat /\ Times[i] < Times[i + 1]
        BY <4>1, LogEntries DEF LogInv
      <4>. QED  BY <4>2
    <3>. QED  BY <3>1 DEF Deltas
  <2>3. Len(Deltas) = n
    BY <2>1 DEF Deltas
  <2>. HIDE DEF n
  <2>4. \A k \in 1..n : Ranked(Deltas, k) \in Nat \ {0}
    BY <2>1, <2>2, RankedElement
  <2>5. TwiceMedian(Deltas) \in Nat \ {0}
    <3>. DEFINE mid == n \div 2
    <3>1. CASE n % 2 = 0
      <4>1. mid \in 1..n /\ mid + 1 \in 1..n
        BY <2>1, <3>1
      <4>2. Ranked(Deltas, mid) \in Nat \ {0} /\ Ranked(Deltas, mid + 1) \in Nat \ {0}
        BY <2>4, <4>1
      <4>3. TwiceMedian(Deltas) = Ranked(Deltas, mid) + Ranked(Deltas, mid + 1)
        BY <2>3, <3>1 DEF TwiceMedian
      <4>. QED  BY <4>2, <4>3
    <3>2. CASE n % 2 # 0
      <4>1. mid + 1 \in 1..n
        BY <2>1, <3>2
      <4>2. Ranked(Deltas, mid + 1) \in Nat \ {0}
        BY <2>4, <4>1
      <4>3. TwiceMedian(Deltas) = 2 * Ranked(Deltas, mid + 1)
        BY <2>3, <3>2 DEF TwiceMedian
      <4>. QED  BY <4>2, <4>3
    <3>. QED  BY <3>1, <3>2
  <2>. QED  BY <1>1, <1>3, <2>5 DEF DashboardGap, ChartGap
<1>. QED  BY <1>1, <1>2, <1>3

----------------------------------------------------------------------------
(***************************************************************************)
(* The series of one process                                               *)
(***************************************************************************)
\* A size in the units of a source, in tenths of a MB.
InUnits(src, size) == IF src = "backend" THEN 10 * (size \div 10) ELSE size

LEMMA WhatIsMeasured ==
  ASSUME ReportsTypeOK, NEW src \in Sources, NEW p \in Procs, NEW i \in 1..Len(log)
  PROVE  /\ log[i].rss[p] = 0 => Measured(src, i, p) = {} /\ Logged(i, p) = {}
         /\ log[i].rss[p] # 0 =>
              /\ Measured(src, i, p) = {InUnits(src, log[i].rss[p])}
              /\ Logged(i, p) # {} /\ (CHOOSE s \in Logged(i, p) : TRUE).rss = log[i].rss[p]
<1>. DEFINE size == log[i].rss[p]
            sample == ReportSample(LogLine(p, size))
<1>1. i \in DOMAIN log
  BY LogEntries
<1>2. Stored(i, p) = {[rss |-> s.rss \div 10, heap |-> s.heap \div 10] : s \in Logged(i, p)}
  BY <1>1, SampleIsStored
<1>3. CASE size = 0
  BY <1>2, <1>3 DEF Logged, Measured
<1>4. CASE size # 0
  <2>1. Logged(i, p) = {sample}
    BY <1>4 DEF Logged
  <2>2. sample.rss = size
    BY DEF ReportSample, LogLine, NumberOrZero, NA
  <2>. HIDE DEF sample
  <2>3. (CHOOSE s \in Logged(i, p) : TRUE).rss = size
    BY <2>1, <2>2
  <2>4. Measured(src, i, p) = {InUnits(src, size)}
    <3>1. CASE src = "backend"
      <4>1. {[rss |-> s.rss \div 10, heap |-> s.heap \div 10] : s \in {sample}}
              = {[rss |-> size \div 10, heap |-> sample.heap \div 10]}
        BY <2>2
      <4>2. Stored(i, p) = {[rss |-> size \div 10, heap |-> sample.heap \div 10]}
        BY <1>2, <2>1, <4>1
      <4>. QED  BY <3>1, <4>2 DEF Measured, InUnits
    <3>2. CASE src # "backend"
      BY <2>1, <2>2, <3>2 DEF Measured, InUnits
    <3>. QED  BY <3>1, <3>2
  <2>. QED  BY <1>4, <2>1, <2>3, <2>4
<1>. QED  BY <1>3, <1>4

Readouts == [rss: Nat, seen: Nat]

LEMMA UnitsAreNatural ==
  ASSUME NEW src, NEW size \in Nat
  PROVE  InUnits(src, size) \in Nat /\ InUnits(src, size) <= size /\ size - InUnits(src, size) <= 9
BY DEF InUnits

LEMMA TimestampIsNatural ==
  ASSUME ReportsTypeOK, NEW src \in Sources, NEW i \in 1..Len(log)
  PROVE  Timestamp(src, i) \in Nat
BY LogEntries, ReportsAssumption DEF Timestamp

LEMMA CursorIs ==
  ASSUME ReportsTypeOK, NEW src \in Sources, NEW p \in Procs
  PROVE  /\ Cursor(src, p) \in [0..Len(log) -> Readouts]
         /\ Cursor(src, p)[0] = NoValue
         /\ \A i \in 1..Len(log) :
              Cursor(src, p)[i] =
                IF log[i].rss[p] = 0 THEN Cursor(src, p)[i - 1]
                ELSE [rss |-> InUnits(src, log[i].rss[p]), seen |-> Timestamp(src, i)]
<1>. DEFINE n == Len(log)
            taken(i) == [rss |-> InUnits(src, log[i].rss[p]), seen |-> Timestamp(src, i)]
            step == [x \in (1..n) \X Readouts |-> IF log[x[1]].rss[p] = 0 THEN x[2] ELSE taken(x[1])]
            Body(f) == [i \in 0..Len(log) |->
                          IF i = 0 THEN NoValue
                          ELSE IF Measured(src, i, p) = {} THEN f[i - 1]
                          ELSE [rss |-> CHOOSE v \in Measured(src, i, p) : TRUE, seen |-> Timestamp(src, i)]]
            F == CHOOSE f : f = Body(f)
<1>1. n \in Nat /\ NoValue \in Readouts
  BY LogEntries DEF Readouts, NoValue
<1>2. \A i \in 1..n : taken(i) \in Readouts
  BY LogEntries, UnitsAreNatural, TimestampIsNatural DEF Readouts
<1>3. step \in [(1..n) \X Readouts -> Readouts]
  <2>. HIDE DEF taken, n, Readouts
  <2>. QED  BY <1>2
<1>4. PICK f \in [0..n -> Readouts] : Follows(f, n, NoValue, step)
  <2>. HIDE DEF step, n
  <2>. QED  BY <1>1, <1>3, Recursion
<1>5. ASSUME NEW g, NEW i \in 1..n
      PROVE  Body(g)[i] = IF log[i].rss[p] = 0 THEN g[i - 1] ELSE taken(i)
  <2>1. i \in 0..n /\ i # 0
    BY <1>1
  <2>2. CASE log[i].rss[p] = 0
    BY <2>1, <2>2, WhatIsMeasured
  <2>3. CASE log[i].rss[p] # 0
    <3>1. Measured(src, i, p) = {InUnits(src, log[i].rss[p])}
      BY <2>3, WhatIsMeasured
    <3>. QED  BY <2>1, <2>3, <3>1
  <2>. QED  BY <2>2, <2>3
<1>6. f = Body(f)
  <2>1. DOMAIN Body(f) = 0..n /\ Body(f)[0] = NoValue
    BY <1>1
  <2>2. ASSUME NEW i \in 1..n PROVE f[i] = Body(f)[i]
    <3>1. f[i - 1] \in Readouts
      BY <1>1
    <3>2. step[<<i, f[i - 1]>>] = IF log[i].rss[p] = 0 THEN f[i - 1] ELSE taken(i)
      <4>. HIDE DEF taken, Readouts
      <4>. QED  BY <3>1
    <3>. HIDE DEF step, Body, taken
    <3>. QED  BY <1>4, <1>5, <3>2 DEF Follows
  <2>3. Body(f) = [i \in 0..n |-> Body(f)[i]] /\ f = [i \in 0..n |-> f[i]]
    OBVIOUS
  <2>. HIDE DEF Body, step
  <2>4. \A i \in 0..n : f[i] = Body(f)[i]
    <3>1. \A i \in 0..n : i = 0 \/ i \in 1..n
      BY <1>1
    <3>. HIDE DEF n
    <3>. QED  BY <1>4, <2>1, <2>2, <3>1 DEF Follows
  <2>. QED  BY <2>3, <2>4
<1>7. F = Body(F)
  <2>. HIDE DEF Body
  <2>. QED  BY <1>6
<1>8. F = Cursor(src, p)
  BY DEF Cursor
<1>9. /\ F[0] = NoValue
      /\ \A i \in 1..n : F[i] = IF log[i].rss[p] = 0 THEN F[i - 1] ELSE taken(i)
  <2>1. Body(F)[0] = NoValue
    BY <1>1
  <2>. HIDE DEF Body, F, taken
  <2>. QED  BY <1>5, <1>7, <2>1
<1>10. F = [i \in 0..n |-> F[i]]
  <2>1. Body(F) = [i \in 0..n |-> Body(F)[i]]
    OBVIOUS
  <2>. HIDE DEF Body, F
  <2>. QED  BY <1>7, <2>1
<1>. DEFINE B == {i \in 0..n : F[i] \in Readouts}
<1>11. 0..n \subseteq B
  <2>. HIDE DEF F, taken, n, Readouts
  <2>1. 0 \in B /\ \A i \in 1..n : i - 1 \in B => i \in B
    BY <1>1, <1>2, <1>9
  <2>. HIDE DEF B
  <2>. QED  BY <1>1, <2>1, Upwards
<1>12. F \in [0..n -> Readouts]
  <2>. HIDE DEF F, n, Readouts
  <2>. QED  BY <1>10, <1>11
<1>. QED  BY <1>8, <1>9, <1>12
LEMMA ForwardFilledIs ==
  ASSUME LogInv, NEW p \in Procs
  PROVE  /\ ForwardFilled(p) \in [0..Len(log) -> Readouts]
         /\ ForwardFilled(p)[0] = NoValue
         /\ \A i \in 1..Len(log) :
              ForwardFilled(p)[i] =
                IF log[i].rss[p] # 0 THEN [rss |-> log[i].rss[p], seen |-> Times[i]]
                ELSE IF Times[i] - ForwardFilled(p)[i - 1].seen > ChartGap THEN NoValue
                ELSE ForwardFilled(p)[i - 1]
<1>. DEFINE n == Len(log)
            taken(i) == [rss |-> log[i].rss[p], seen |-> Times[i]]
            next(i, last) == IF log[i].rss[p] # 0 THEN taken(i)
                             ELSE IF Times[i] - last.seen > ChartGap THEN NoValue ELSE last
            step == [x \in (1..n) \X Readouts |-> next(x[1], x[2])]
            Body(f) == [i \in 0..Len(log) |->
                          IF i = 0 THEN NoValue
                          ELSE IF Logged(i, p) # {}
                          THEN [rss |-> (CHOOSE s \in Logged(i, p) : TRUE).rss, seen |-> Times[i]]
                          ELSE IF Times[i] - f[i - 1].seen > ChartGap THEN NoValue
                          ELSE f[i - 1]]
            F == CHOOSE f : f = Body(f)
<1>1. n \in Nat /\ NoValue \in Readouts
  BY LogEntries DEF LogInv, Readouts, NoValue
<1>2. \A i \in 1..n : \A last \in Readouts : next(i, last) \in Readouts
  <2>1. \A i \in 1..n : taken(i) \in Readouts
    BY LogEntries DEF LogInv, Readouts
  <2>. HIDE DEF taken, Readouts
  <2>. QED  BY <1>1, <2>1
<1>3. step \in [(1..n) \X Readouts -> Readouts]
  <2>. HIDE DEF next, n, Readouts
  <2>. QED  BY <1>2
<1>4. PICK f \in [0..n -> Readouts] : Follows(f, n, NoValue, step)
  <2>. HIDE DEF step, n
  <2>. QED  BY <1>1, <1>3, Recursion
<1>5. ASSUME NEW g, NEW i \in 1..n
      PROVE  Body(g)[i] = next(i, g[i - 1])
  <2>1. i \in 0..n /\ i # 0
    BY <1>1
  <2>2. PICK src \in Sources : TRUE
    BY DEF Sources
  <2>3. CASE log[i].rss[p] = 0
    <3>1. Logged(i, p) = {}
      BY <2>3, WhatIsMeasured DEF LogInv
    <3>. QED  BY <2>1, <2>3, <3>1
  <2>4. CASE log[i].rss[p] # 0
    <3>1. Logged(i, p) # {} /\ (CHOOSE s \in Logged(i, p) : TRUE).rss = log[i].rss[p]
      BY <2>4, WhatIsMeasured DEF LogInv
    <3>. QED  BY <2>1, <2>4, <3>1
  <2>. QED  BY <2>3, <2>4
<1>6. f = Body(f)
  <2>1. DOMAIN Body(f) = 0..n /\ Body(f)[0] = NoValue
    BY <1>1
  <2>2. ASSUME NEW i \in 1..n PROVE f[i] = Body(f)[i]
    <3>1. f[i - 1] \in Readouts
      BY <1>1
    <3>2. step[<<i, f[i - 1]>>] = next(i, f[i - 1])
      <4>. HIDE DEF next, Readouts
      <4>. QED  BY <3>1
    <3>. HIDE DEF step, Body, next
    <3>. QED  BY <1>4, <1>5, <3>2 DEF Follows
  <2>3. Body(f) = [i \in 0..n |-> Body(f)[i]] /\ f = [i \in 0..n |-> f[i]]
    OBVIOUS
  <2>. HIDE DEF Body, step
  <2>4. \A i \in 0..n : f[i] = Body(f)[i]
    <3>1. \A i \in 0..n : i = 0 \/ i \in 1..n
      BY <1>1
    <3>. HIDE DEF n
    <3>. QED  BY <1>4, <2>1, <2>2, <3>1 DEF Follows
  <2>. QED  BY <2>3, <2>4
<1>7. F = Body(F)
  <2>. HIDE DEF Body
  <2>. QED  BY <1>6
<1>8. F = ForwardFilled(p)
  BY DEF ForwardFilled
<1>9. /\ F[0] = NoValue
      /\ \A i \in 1..n : F[i] = next(i, F[i - 1])
  <2>1. Body(F)[0] = NoValue
    BY <1>1
  <2>. HIDE DEF Body, F, next
  <2>. QED  BY <1>5, <1>7, <2>1
<1>10. F = [i \in 0..n |-> F[i]]
  <2>1. Body(F) = [i \in 0..n |-> Body(F)[i]]
    OBVIOUS
  <2>. HIDE DEF Body, F
  <2>. QED  BY <1>7, <2>1
<1>. DEFINE B == {i \in 0..n : F[i] \in Readouts}
<1>11. 0..n \subseteq B
  <2>. HIDE DEF F, next, n, Readouts
  <2>1. 0 \in B /\ \A i \in 1..n : i - 1 \in B => i \in B
    BY <1>1, <1>2, <1>9
  <2>. HIDE DEF B
  <2>. QED  BY <1>1, <2>1, Upwards
<1>12. F \in [0..n -> Readouts]
  <2>. HIDE DEF F, n, Readouts
  <2>. QED  BY <1>10, <1>11
<1>. QED  BY <1>8, <1>9, <1>12

\* From then on the line of a process is not drawn.
TooLate(seen, now) == DashboardGap > 0 /\ seen > 0 /\ now - seen > DashboardGap

LEMMA LineIs ==
  ASSUME LogInv, NEW src \in Sources, NEW p \in Procs
  PROVE  /\ Line(src, p) \in [0..Len(log) -> Readouts]
         /\ Line(src, p)[0] = NoValue
         /\ \A i \in 1..Len(log) :
              Line(src, p)[i] =
                IF log[i].rss[p] # 0
                THEN [rss |-> InUnits(src, log[i].rss[p]), seen |-> Timestamp(src, i)]
                ELSE IF TooLate(Line(src, p)[i - 1].seen, Timestamp(src, i))
                THEN [rss |-> 0, seen |-> Line(src, p)[i - 1].seen]
                ELSE Line(src, p)[i - 1]
<1>. DEFINE n == Len(log)
            taken(i) == [rss |-> InUnits(src, log[i].rss[p]), seen |-> Timestamp(src, i)]
            next(i, last) == IF log[i].rss[p] # 0 THEN taken(i)
                             ELSE IF TooLate(last.seen, Timestamp(src, i))
                             THEN [rss |-> 0, seen |-> last.seen] ELSE last
            step == [x \in (1..n) \X Readouts |-> next(x[1], x[2])]
            late(seen, now) == DashboardGap > 0 /\ seen > 0 /\ now - seen > DashboardGap
            Body(f) == [i \in 0..Len(log) |->
                          IF i = 0 THEN NoValue
                          ELSE IF Sampled(src, i, p)
                          THEN [rss |-> Value(src, i, p), seen |-> Timestamp(src, i)]
                          ELSE IF late(f[i - 1].seen, Timestamp(src, i)) THEN [f[i - 1] EXCEPT !.rss = 0]
                          ELSE f[i - 1]]
            F == CHOOSE f : f = Body(f)
<1>1. n \in Nat /\ NoValue \in Readouts
  BY LogEntries DEF LogInv, Readouts, NoValue
<1>2. \A i \in 1..n : \A last \in Readouts : next(i, last) \in Readouts
  <2>1. \A i \in 1..n : taken(i) \in Readouts
    BY LogEntries, UnitsAreNatural, TimestampIsNatural DEF LogInv, Readouts
  <2>2. \A last \in Readouts : [rss |-> 0, seen |-> last.seen] \in Readouts
    BY DEF Readouts
  <2>. HIDE DEF taken, Readouts
  <2>. QED  BY <1>1, <2>1, <2>2
<1>3. step \in [(1..n) \X Readouts -> Readouts]
  <2>. HIDE DEF next, n, Readouts
  <2>. QED  BY <1>2
<1>4. PICK f \in [0..n -> Readouts] : Follows(f, n, NoValue, step)
  <2>. HIDE DEF step, n
  <2>. QED  BY <1>1, <1>3, Recursion
<1>5. ASSUME NEW g, NEW i \in 1..n, g[i - 1] \in Readouts
      PROVE  Body(g)[i] = next(i, g[i - 1])
  <2>1. i \in 0..n /\ i # 0
    BY <1>1
  <2>2. [g[i - 1] EXCEPT !.rss = 0] = [rss |-> 0, seen |-> g[i - 1].seen]
    BY <1>5 DEF Readouts
  <2>3. CASE log[i].rss[p] = 0
    <3>1. Measured(src, i, p) = {}
      BY <2>3, WhatIsMeasured DEF LogInv
    <3>. QED  BY <2>1, <2>2, <2>3, <3>1 DEF Sampled, TooLate
  <2>4. CASE log[i].rss[p] # 0
    <3>1. Measured(src, i, p) = {InUnits(src, log[i].rss[p])}
      BY <2>4, WhatIsMeasured DEF LogInv
    <3>2. Sampled(src, i, p) /\ Value(src, i, p) = InUnits(src, log[i].rss[p])
      BY <3>1 DEF Sampled, Value
    <3>. QED  BY <2>1, <2>4, <3>2
  <2>. QED  BY <2>3, <2>4
<1>6. f = Body(f)
  <2>1. DOMAIN Body(f) = 0..n /\ Body(f)[0] = NoValue
    BY <1>1
  <2>2. ASSUME NEW i \in 1..n PROVE f[i] = Body(f)[i]
    <3>1. f[i - 1] \in Readouts
      BY <1>1
    <3>2. step[<<i, f[i - 1]>>] = next(i, f[i - 1])
      <4>. HIDE DEF next, Readouts
      <4>. QED  BY <3>1
    <3>. HIDE DEF step, Body, next
    <3>. QED  BY <1>4, <1>5, <3>1, <3>2 DEF Follows
  <2>3. Body(f) = [i \in 0..n |-> Body(f)[i]] /\ f = [i \in 0..n |-> f[i]]
    OBVIOUS
  <2>. HIDE DEF Body, step
  <2>4. \A i \in 0..n : f[i] = Body(f)[i]
    <3>1. \A i \in 0..n : i = 0 \/ i \in 1..n
      BY <1>1
    <3>. HIDE DEF n
    <3>. QED  BY <1>4, <2>1, <2>2, <3>1 DEF Follows
  <2>. QED  BY <2>3, <2>4
<1>7. F = Body(F)
  <2>. HIDE DEF Body
  <2>. QED  BY <1>6
<1>8. F = Line(src, p)
  BY DEF Line, Sampled, Value
<1>9. F[0] = NoValue
  <2>1. Body(F)[0] = NoValue
    BY <1>1
  <2>. HIDE DEF Body, F
  <2>. QED  BY <1>7, <2>1
<1>10. F = [i \in 0..n |-> F[i]]
  <2>1. Body(F) = [i \in 0..n |-> Body(F)[i]]
    OBVIOUS
  <2>. HIDE DEF Body, F
  <2>. QED  BY <1>7, <2>1
<1>. DEFINE B == {i \in 0..n : F[i] \in Readouts}
<1>11. 0..n \subseteq B
  <2>. HIDE DEF F, Body, next, n, Readouts
  <2>1. 0 \in B
    BY <1>1, <1>9
  <2>2. \A i \in 1..n : i - 1 \in B => i \in B
    <3>1. \A i \in 1..n : F[i - 1] \in Readouts => F[i] = next(i, F[i - 1])
      BY <1>5, <1>7
    <3>2. \A i \in 1..n : i \in 0..n
      BY <1>1
    <3>. QED  BY <1>2, <3>1, <3>2
  <2>. HIDE DEF B
  <2>. QED  BY <1>1, <2>1, <2>2, Upwards
<1>12. F \in [0..n -> Readouts]
  <2>. HIDE DEF F, n, Readouts
  <2>. QED  BY <1>10, <1>11
<1>13. \A i \in 1..n : F[i] = next(i, F[i - 1])
  <2>1. \A i \in 1..n : i - 1 \in 0..n
    BY <1>1
  <2>. HIDE DEF F, Body, next, n, Readouts
  <2>. QED  BY <1>5, <1>7, <1>12, <2>1
<1>. QED  BY <1>8, <1>9, <1>12, <1>13

\* What the three series have of process p at iteration i, if k is the last one
\* that sampled it, or 0 if none has.
SeriesAt(src, p, i, k) ==
  /\ k # 0 => log[k].rss[p] # 0
  /\ Cursor(src, p)[i] = IF k = 0 THEN NoValue
                         ELSE [rss |-> InUnits(src, log[k].rss[p]), seen |-> Timestamp(src, k)]
  /\ ForwardFilled(p)[i] = IF k = 0 \/ Times[i] - Times[k] > ChartGap THEN NoValue
                           ELSE [rss |-> log[k].rss[p], seen |-> Times[k]]
  /\ Line(src, p)[i] = IF k = 0 THEN NoValue
                       ELSE [rss |-> IF TooLate(Timestamp(src, k), Timestamp(src, i)) THEN 0
                                     ELSE InUnits(src, log[k].rss[p]),
                             seen |-> Timestamp(src, k)]

LEMMA TimesRise ==
  ASSUME LogInv, NEW i \in 1..Len(log), NEW j \in 1..Len(log), NEW src \in Sources
  PROVE  /\ Times[i] \in Nat /\ Times[j] \in Nat
         /\ i < j => Times[i] < Times[j]
         /\ i <= j => Times[i] <= Times[j]
         /\ Timestamp(src, i) \in Nat /\ Timestamp(src, j) \in Nat
         /\ Timestamp(src, j) - Timestamp(src, i) = Times[j] - Times[i]
         /\ src = "backend" => Timestamp(src, i) > 0
         /\ src = "report" => Timestamp(src, i) = Times[i]
<1>1. Times[i] \in Nat /\ Times[j] \in Nat /\ (i < j => Times[i] < Times[j])
  BY LogEntries DEF LogInv
<1>2. Origin \in Nat \ {0}
  BY ReportsAssumption
<1>3. i = j => Times[i] = Times[j]
  OBVIOUS
<1>4. i \in Int /\ j \in Int
  OBVIOUS
<1>. QED  BY <1>1, <1>2, <1>3, <1>4 DEF Timestamp

LEMMA LastSample ==
  ASSUME LogInv, NEW src \in Sources, NEW p \in Procs
  PROVE  \A i \in 0..Len(log) : \E k \in 0..i : SeriesAt(src, p, i, k)
<1>. DEFINE n == Len(log)
            B == {i \in 0..n : \E k \in 0..i : SeriesAt(src, p, i, k)}
<1>1. n \in Nat
  BY LogEntries DEF LogInv
<1>2. 0 \in B
  <2>1. SeriesAt(src, p, 0, 0)
    BY CursorIs, ForwardFilledIs, LineIs DEF SeriesAt, LogInv
  <2>. QED  BY <1>1, <2>1
<1>3. ASSUME NEW i \in 1..n, i - 1 \in B PROVE i \in B
  <2>1. PICK k \in 0..i - 1 : SeriesAt(src, p, i - 1, k)
    BY <1>3
  <2>2. CASE log[i].rss[p] # 0
    <3>1. Times[i] - Times[i] = 0 /\ ChartGap \in Nat \ {0}
      BY TimesRise, GapsAgree
    <3>2. ~TooLate(Timestamp(src, i), Timestamp(src, i))
      BY TimesRise, GapsAgree DEF TooLate
    <3>3. SeriesAt(src, p, i, i)
      <4>1. Cursor(src, p)[i] = [rss |-> InUnits(src, log[i].rss[p]), seen |-> Timestamp(src, i)]
        BY <2>2, CursorIs DEF LogInv
      <4>2. ForwardFilled(p)[i] = [rss |-> log[i].rss[p], seen |-> Times[i]]
        BY <2>2, ForwardFilledIs
      <4>3. Line(src, p)[i] = [rss |-> InUnits(src, log[i].rss[p]), seen |-> Timestamp(src, i)]
        BY <2>2, LineIs
      <4>4. ~(Times[i] - Times[i] > ChartGap) /\ i # 0
        BY <3>1
      <4>. QED  BY <2>2, <3>2, <4>1, <4>2, <4>3, <4>4 DEF SeriesAt
    <3>. QED  BY <3>3
  <2>3. CASE log[i].rss[p] = 0 /\ k = 0
    <3>1. ~TooLate(NoValue.seen, Timestamp(src, i))
      BY DEF TooLate, NoValue
    <3>2. SeriesAt(src, p, i, 0)
      BY <2>1, <2>3, <3>1, CursorIs, ForwardFilledIs, LineIs DEF SeriesAt, LogInv
    <3>. QED  BY <3>2
  <2>4. CASE log[i].rss[p] = 0 /\ k # 0
    <3>1. k \in 1..n /\ i - 1 \in 1..n /\ i - 1 < i
      BY <1>1, <2>4
    <3>2. Times[i - 1] - Times[k] > ChartGap => Times[i] - Times[k] > ChartGap
      <4>1. Times[k] \in Nat /\ Times[i - 1] \in Nat /\ Times[i] \in Nat /\ Times[i - 1] < Times[i]
        BY <3>1, TimesRise
      <4>2. ChartGap \in Nat
        BY GapsAgree
      <4>. QED  BY <4>1, <4>2
    <3>3. TooLate(Timestamp(src, k), Timestamp(src, i - 1)) => TooLate(Timestamp(src, k), Timestamp(src, i))
      <4>1. /\ Timestamp(src, k) \in Nat /\ Timestamp(src, i - 1) \in Nat /\ Timestamp(src, i) \in Nat
            /\ Timestamp(src, i) - Timestamp(src, i - 1) = Times[i] - Times[i - 1]
            /\ Times[i - 1] \in Nat /\ Times[i] \in Nat /\ Times[i - 1] < Times[i]
        BY <3>1, TimesRise
      <4>2. DashboardGap \in Nat
        BY GapsAgree
      <4>. QED  BY <4>1, <4>2 DEF TooLate
    <3>4. Cursor(src, p)[i] = [rss |-> InUnits(src, log[k].rss[p]), seen |-> Timestamp(src, k)]
      BY <2>1, <2>4, CursorIs DEF SeriesAt, LogInv
    <3>5. ForwardFilled(p)[i] = IF Times[i] - Times[k] > ChartGap THEN NoValue
                                ELSE [rss |-> log[k].rss[p], seen |-> Times[k]]
      <4>1. CASE Times[i - 1] - Times[k] > ChartGap
        <5>1. ForwardFilled(p)[i - 1] = NoValue
          BY <2>1, <4>1 DEF SeriesAt
        <5>. QED  BY <2>4, <3>2, <4>1, <5>1, ForwardFilledIs
      <4>2. CASE ~(Times[i - 1] - Times[k] > ChartGap)
        <5>1. ForwardFilled(p)[i - 1] = [rss |-> log[k].rss[p], seen |-> Times[k]]
          BY <2>1, <2>4, <4>2 DEF SeriesAt
        <5>2. ForwardFilled(p)[i - 1].seen = Times[k]
          BY <5>1
        <5>3. ForwardFilled(p)[i] = IF Times[i] - ForwardFilled(p)[i - 1].seen > ChartGap THEN NoValue
                                    ELSE ForwardFilled(p)[i - 1]
          BY <2>4, ForwardFilledIs
        <5>. QED  BY <5>1, <5>2, <5>3
      <4>. QED  BY <4>1, <4>2
    <3>6. Line(src, p)[i] = [rss |-> IF TooLate(Timestamp(src, k), Timestamp(src, i)) THEN 0
                                     ELSE InUnits(src, log[k].rss[p]),
                             seen |-> Timestamp(src, k)]
      <4>1. Line(src, p)[i - 1] = [rss |-> IF TooLate(Timestamp(src, k), Timestamp(src, i - 1)) THEN 0
                                           ELSE InUnits(src, log[k].rss[p]),
                                   seen |-> Timestamp(src, k)]
        BY <2>1, <2>4 DEF SeriesAt
      <4>2. Line(src, p)[i - 1].seen = Timestamp(src, k)
        BY <4>1
      <4>3. Line(src, p)[i] = IF TooLate(Line(src, p)[i - 1].seen, Timestamp(src, i))
                              THEN [rss |-> 0, seen |-> Line(src, p)[i - 1].seen]
                              ELSE Line(src, p)[i - 1]
        BY <2>4, LineIs
      <4>. QED  BY <3>3, <4>1, <4>2, <4>3
    <3>7. SeriesAt(src, p, i, k)
      BY <2>1, <2>4, <3>4, <3>5, <3>6 DEF SeriesAt
    <3>8. k \in 0..i
      BY <1>1
    <3>. QED  BY <3>7, <3>8
  <2>. QED  BY <2>2, <2>3, <2>4
<1>4. 0..n \subseteq B
  <2>. HIDE DEF B
  <2>. QED  BY <1>1, <1>2, <1>3, Upwards
<1>. QED  BY <1>4

\* The value of a process in the total of the browser.
Counted(src, p, i) ==
  IF RecentlySeen(DashboardGap, Cursor(src, p)[i].seen, Timestamp(src, i))
  THEN Cursor(src, p)[i].rss ELSE 0

\* Browser and cleanup agree on one process, and so do the browser's line and total.
LEMMA SeriesAgree ==
  ASSUME LogInv, NEW src \in Sources, NEW p \in Procs, NEW i \in 1..Len(log)
  PROVE  LET chart == ForwardFilled(p)[i].rss
             line == Line(src, p)[i]
         IN /\ chart \in Nat /\ Counted(src, p, i) \in Nat
            /\ Counted(src, p, i) <= chart
            /\ Timestamp(src, 1) > 0 => chart - Counted(src, p, i) <= 9
            /\ src = "report" => Counted(src, p, i) =
                 IF Times[i] > 0 /\ Cursor(src, p)[i].seen = 0 THEN 0 ELSE chart
            /\ Counted(src, p, i) = IF line.seen > 0 \/ Timestamp(src, i) = 0 THEN line.rss ELSE 0
            /\ Timestamp(src, 1) > 0 /\ Cursor(src, p)[i].seen = 0 => chart = 0
<1>. DEFINE chart == ForwardFilled(p)[i].rss
            line == Line(src, p)[i]
            now == Timestamp(src, i)
            gap == DashboardGap
<1>1. Len(log) \in Nat /\ i \in 0..Len(log) /\ 1 \in 1..Len(log)
  BY LogEntries DEF LogInv
<1>2. PICK k \in 0..i : SeriesAt(src, p, i, k)
  BY <1>1, LastSample
<1>3. CASE k = 0
  <2>1. Cursor(src, p)[i] = NoValue /\ chart = 0 /\ line = NoValue
    BY <1>2, <1>3 DEF SeriesAt, NoValue
  <2>2. Counted(src, p, i) = 0
    BY <2>1 DEF Counted, NoValue
  <2>. HIDE DEF chart, line
  <2>3. line.rss = 0
    BY <2>1 DEF NoValue
  <2>. QED  BY <2>1, <2>2, <2>3 DEF chart, line
<1>4. CASE k # 0
  <2>. DEFINE size == log[k].rss[p]
              value == InUnits(src, size)
              seen == Timestamp(src, k)
  <2>1. k \in 1..Len(log)
    BY <1>1, <1>4
  <2>2. size \in Nat /\ value \in Nat /\ value <= size /\ size - value <= 9
    <3>1. size \in Nat
      BY <2>1, LogEntries DEF LogInv
    <3>. HIDE DEF size
    <3>. QED  BY <3>1, UnitsAreNatural
  <2>3. src = "report" => value = size
    BY DEF InUnits
  <2>4. Cursor(src, p)[i].rss = value /\ Cursor(src, p)[i].seen = seen
    BY <1>2, <1>4 DEF SeriesAt
  <2>5. chart = IF Times[i] - Times[k] > ChartGap THEN 0 ELSE size
    BY <1>2, <1>4 DEF SeriesAt, NoValue
  <2>6. line.seen = seen /\ line.rss = IF TooLate(seen, now) THEN 0 ELSE value
    BY <1>2, <1>4 DEF SeriesAt
  <2>7. /\ seen \in Nat /\ now \in Nat /\ Times[i] \in Nat /\ Times[k] \in Nat
        /\ now - seen = Times[i] - Times[k]
        /\ Timestamp(src, 1) > 0 => seen > 0
        /\ src = "report" => seen = Times[k] /\ now = Times[i]
        /\ Times[k] <= Times[i]
    <3>1. 1 <= k /\ k <= i
      BY <1>4
    <3>2. Timestamp(src, 1) \in Nat /\ Timestamp(src, k) - Timestamp(src, 1) >= 0
      <4>1. /\ Timestamp(src, k) - Timestamp(src, 1) = Times[k] - Times[1]
            /\ Times[1] <= Times[k] /\ Times[1] \in Nat /\ Times[k] \in Nat
            /\ Timestamp(src, 1) \in Nat
        BY <1>1, <2>1, <3>1, TimesRise
      <4>. QED  BY <4>1
    <3>. QED  BY <2>1, <3>1, <3>2, TimesRise
  <2>8. Times[i] # Times[k] => gap \in Nat \ {0} /\ ChartGap = gap
    <3>1. CASE k = i
      BY <3>1
    <3>2. CASE k # i
      <4>1. Len(log) >= 2
        BY <1>1, <1>4, <3>2
      <4>. QED  BY <4>1, GapsAgree
    <3>. QED  BY <3>1, <3>2
  <2>9. gap \in Nat /\ ChartGap \in Nat \ {0}
    BY GapsAgree
  <2>. HIDE DEF size, value, seen, chart, line, now, gap
  <2>10. Counted(src, p, i) = IF seen = now \/ (gap > 0 /\ seen > 0 /\ now - seen <= gap) THEN value ELSE 0
    BY <2>4 DEF Counted, RecentlySeen, now, gap
  <2>11. TooLate(seen, now) <=> gap > 0 /\ seen > 0 /\ now - seen > gap
    BY DEF TooLate, gap
  <2>12. CASE seen = now
    <3>1. chart = size
      BY <2>5, <2>7, <2>9, <2>12
    <3>2. Counted(src, p, i) = value
      BY <2>10, <2>12
    <3>3. ~TooLate(seen, now)
      BY <2>7, <2>9, <2>11, <2>12
    <3>. QED  BY <2>2, <2>3, <2>4, <2>6, <2>7, <2>12, <3>1, <3>2, <3>3 DEF chart, line, now
  <2>13. CASE seen # now /\ seen = 0
    <3>1. Counted(src, p, i) = 0
      BY <2>10, <2>13
    <3>2. chart \in Nat
      BY <2>2, <2>5
    <3>3. src = "report" => Times[i] > 0
      BY <2>7, <2>13
    <3>. QED  BY <2>4, <2>6, <2>7, <2>13, <3>1, <3>2, <3>3 DEF chart, line, now
  <2>14. CASE seen # now /\ seen # 0
    <3>1. gap > 0 /\ ChartGap = gap /\ seen > 0
      BY <2>7, <2>8, <2>9, <2>14
    <3>2. CASE now - seen > gap
      <4>1. chart = 0 /\ Counted(src, p, i) = 0 /\ line.rss = 0
        BY <2>5, <2>6, <2>7, <2>9, <2>10, <2>11, <2>14, <3>1, <3>2
      <4>. QED  BY <2>4, <2>6, <2>7, <2>14, <4>1 DEF chart, line, now
    <3>3. CASE ~(now - seen > gap)
      <4>1. chart = size /\ Counted(src, p, i) = value /\ line.rss = value
        BY <2>5, <2>6, <2>7, <2>9, <2>10, <2>11, <2>14, <3>1, <3>3
      <4>. QED  BY <2>2, <2>3, <2>4, <2>6, <2>7, <2>14, <3>1, <4>1 DEF chart, line, now
    <3>. QED  BY <3>2, <3>3
  <2>. QED  BY <2>12, <2>13, <2>14
<1>. QED  BY <1>3, <1>4

----------------------------------------------------------------------------
(***************************************************************************)
(* The totals                                                              *)
(***************************************************************************)
Filled(i) == [p \in Procs |-> ForwardFilled(p)[i].rss]
Shown(src, i) == [p \in Procs |-> Counted(src, p, i)]

LEMMA TotalsAreSums ==
  ASSUME LogInv, NEW src \in Sources, NEW i \in 1..Len(log)
  PROVE  /\ ChartTotal(i) = Sum(Filled(i)) /\ Filled(i) \in [Procs -> Nat]
         /\ DashboardTotal(src, i) = Sum(Shown(src, i)) /\ Shown(src, i) \in [Procs -> Nat]
         /\ ChartTotal(i) \in Nat /\ DashboardTotal(src, i) \in Nat
         /\ DashboardTotal(src, i) <= ChartTotal(i)
         /\ ChartTotal(i) - DashboardTotal(src, i)
              = Sum([p \in Procs |-> Filled(i)[p] - Shown(src, i)[p]])
<1>1. IsFiniteSet(Procs)
  BY ReportsAssumption
<1>2. \A p \in Procs : /\ ForwardFilled(p)[i].rss \in Nat /\ Counted(src, p, i) \in Nat
                       /\ Counted(src, p, i) <= ForwardFilled(p)[i].rss
  BY SeriesAgree
<1>3. ChartTotal(i) = Sum(Filled(i))
  BY DEF ChartTotal, Filled
<1>4. DashboardTotal(src, i) = Sum(Shown(src, i))
  BY DEF DashboardTotal, Shown, Counted
<1>5. /\ Filled(i) \in [Procs -> Nat] /\ Shown(src, i) \in [Procs -> Nat]
      /\ Filled(i) \in [Procs -> Int] /\ Shown(src, i) \in [Procs -> Int]
      /\ \A p \in Procs : Shown(src, i)[p] <= Filled(i)[p]
  BY <1>2 DEF Filled, Shown
<1>6. Sum(Filled(i)) \in Nat /\ Sum(Shown(src, i)) \in Nat
  BY <1>1, <1>5, SumOfNaturals
<1>7. Sum(Shown(src, i)) <= Sum(Filled(i))
  BY <1>1, <1>5, SumIsMonotonic
<1>8. Sum([p \in Procs |-> Filled(i)[p] - Shown(src, i)[p]]) = Sum(Filled(i)) - Sum(Shown(src, i))
  BY <1>1, <1>5, SumOfDifferences
<1>. QED  BY <1>3, <1>4, <1>5, <1>6, <1>7, <1>8

\* Nine tenths of a MB at most are lost for each process that is shown.
LEMMA LittleIsLost ==
  ASSUME LogInv, NEW src \in Sources, NEW i \in 1..Len(log), Timestamp(src, 1) > 0
  PROVE  /\ ChartTotal(i) - DashboardTotal(src, i) <= 9 * Cardinality(Active(i))
         /\ IsFiniteSet(Active(i)) /\ Cardinality(Active(i)) \in Nat
         /\ Cardinality(Active(i)) <= Cardinality(Procs) /\ Cardinality(Procs) \in Nat
<1>. DEFINE lost == [p \in Procs |-> Filled(i)[p] - Shown(src, i)[p]]
            part == [p \in Active(i) |-> lost[p]]
            nines == [p \in Active(i) |-> 9]
<1>1. IsFiniteSet(Procs) /\ Active(i) \in SUBSET Procs
  BY ReportsAssumption DEF Active
<1>2. /\ IsFiniteSet(Active(i)) /\ Cardinality(Active(i)) \in Nat
      /\ Cardinality(Active(i)) <= Cardinality(Procs) /\ Cardinality(Procs) \in Nat
  BY <1>1, FS_Subset, FS_CardinalityType
<1>3. \A p \in Procs : /\ lost[p] \in 0..9
                       /\ p \notin Active(i) => lost[p] = 0
  <2>1. ASSUME NEW p \in Procs PROVE lost[p] \in 0..9 /\ (p \notin Active(i) => lost[p] = 0)
    <3>1. /\ Filled(i)[p] \in Nat /\ Shown(src, i)[p] \in Nat
          /\ Shown(src, i)[p] <= Filled(i)[p] /\ Filled(i)[p] - Shown(src, i)[p] <= 9
      BY SeriesAgree DEF Filled, Shown
    <3>2. p \notin Active(i) => Filled(i)[p] = 0
      BY DEF Active, Filled
    <3>. QED  BY <3>1, <3>2
  <2>. QED  BY <2>1
<1>4. lost \in [Procs -> Int]
  <2>1. \A p \in Procs : Filled(i)[p] - Shown(src, i)[p] \in Int
    BY <1>3
  <2>. QED  BY <2>1
<1>5. Sum(lost) = Sum(part)
  <2>. HIDE DEF lost
  <2>. QED  BY <1>1, <1>3, <1>4, SumOfPart
<1>6. Sum(part) <= Sum(nines)
  <2>1. part \in [Active(i) -> Int] /\ nines \in [Active(i) -> Int] /\ \A p \in Active(i) : part[p] <= nines[p]
    <3>. HIDE DEF lost
    <3>. QED  BY <1>1, <1>3
  <2>. HIDE DEF part, nines
  <2>. QED  BY <1>2, <2>1, SumIsMonotonic
<1>7. Sum(nines) = 9 * Cardinality(Active(i))
  BY <1>2, SumOfSame
<1>8. ChartTotal(i) - DashboardTotal(src, i) = Sum(lost)
  BY TotalsAreSums
<1>. HIDE DEF lost, part, nines
<1>. QED  BY <1>2, <1>5, <1>6, <1>7, <1>8

LEMMA TotalsDo == LogInv => TotalsAgree
<1>. SUFFICES ASSUME LogInv, NEW i \in 1..Len(log)
              PROVE  LET lost == ChartTotal(i) - DashboardTotal("backend", i)
                     IN /\ 0 <= lost /\ lost <= 9 * Cardinality(Active(i))
                        /\ ChartTotal(i) = DashboardTotal("report", i)
                             + Sum([p \in SeenAtZero(i) |-> ForwardFilled(p)[i].rss])
  BY LogEntries DEF TotalsAgree, LogInv
<1>1. "backend" \in Sources /\ "report" \in Sources /\ 1 \in 1..Len(log)
  BY LogEntries DEF Sources, LogInv
<1>2. Timestamp("backend", 1) > 0
  BY <1>1, TimesRise
<1>3. /\ DashboardTotal("backend", i) \in Nat /\ ChartTotal(i) \in Nat
      /\ DashboardTotal("backend", i) <= ChartTotal(i)
      /\ ChartTotal(i) - DashboardTotal("backend", i) <= 9 * Cardinality(Active(i))
  BY <1>1, <1>2, TotalsAreSums, LittleIsLost
<1>. DEFINE lost == [p \in Procs |-> Filled(i)[p] - Shown("report", i)[p]]
            part == [p \in SeenAtZero(i) |-> lost[p]]
            zero == [p \in SeenAtZero(i) |-> ForwardFilled(p)[i].rss]
<1>4. IsFiniteSet(Procs) /\ SeenAtZero(i) \in SUBSET Procs
  BY ReportsAssumption DEF SeenAtZero
<1>5. \A p \in Procs : lost[p] = IF p \in SeenAtZero(i) THEN ForwardFilled(p)[i].rss ELSE 0
  <2>1. ASSUME NEW p \in Procs
        PROVE  lost[p] = IF p \in SeenAtZero(i) THEN ForwardFilled(p)[i].rss ELSE 0
    <3>1. /\ Filled(i)[p] = ForwardFilled(p)[i].rss /\ ForwardFilled(p)[i].rss \in Nat
          /\ Shown("report", i)[p] = IF p \in SeenAtZero(i) THEN 0 ELSE ForwardFilled(p)[i].rss
      BY <1>1, SeriesAgree DEF Filled, Shown, SeenAtZero
    <3>. QED  BY <3>1
  <2>. QED  BY <2>1
<1>6. lost \in [Procs -> Int]
  <2>1. Filled(i) \in [Procs -> Nat] /\ Shown("report", i) \in [Procs -> Nat]
    BY <1>1, TotalsAreSums
  <2>2. \A p \in Procs : Filled(i)[p] - Shown("report", i)[p] \in Int
    BY <2>1
  <2>. QED  BY <2>2
<1>7. Sum(lost) = Sum(part)
  <2>. HIDE DEF lost
  <2>. QED  BY <1>4, <1>5, <1>6, SumOfPart
<1>8. part = zero
  <2>. HIDE DEF lost
  <2>. QED  BY <1>4, <1>5
<1>9. /\ ChartTotal(i) - DashboardTotal("report", i) = Sum(lost)
      /\ DashboardTotal("report", i) \in Nat
  BY <1>1, TotalsAreSums
<1>10. ChartTotal(i) = DashboardTotal("report", i) + Sum(zero)
  <2>. HIDE DEF lost, part, zero
  <2>. QED  BY <1>3, <1>7, <1>8, <1>9
<1>. QED  BY <1>3, <1>10

LEMMA LinesDo == LogInv => LinesMakeTheTotal
<1>. SUFFICES ASSUME LogInv, NEW src \in Sources, NEW i \in Frames(src)
              PROVE  DashboardTotal(src, i) =
                       Sum([p \in Procs |->
                              LET drawn == Line(src, p)[i]
                              IN IF drawn.seen > 0 \/ Timestamp(src, i) = 0 THEN drawn.rss ELSE 0])
  BY DEF LinesMakeTheTotal
<1>1. i \in 1..Len(log)
  <2>. DEFINE total == [j \in DOMAIN log |-> DashboardTotal(src, j)]
              drops == {j \in DOMAIN log : Drops(total, j)}
  <2>1. DOMAIN log = 1..Len(log) /\ Len(log) \in Nat
    BY LogEntries DEF LogInv
  <2>2. i \in IF drops = {} THEN DOMAIN log ELSE 1..Min(drops) - 1
    BY DEF Frames
  <2>3. drops \in SUBSET Nat /\ drops \subseteq 1..Len(log)
    BY <2>1
  <2>. HIDE DEF drops
  <2>4. drops # {} => Min(drops) \in drops
    BY <2>3, MinOfNaturals
  <2>5. drops # {} => i \in 1..Min(drops) - 1 /\ Min(drops) \in 1..Len(log)
    BY <2>2, <2>3, <2>4
  <2>6. \A m \in 1..Len(log) : i \in 1..m - 1 => i \in 1..Len(log)
    BY <2>1
  <2>. QED  BY <2>1, <2>2, <2>5, <2>6
<1>2. Shown(src, i) = [p \in Procs |->
                         LET drawn == Line(src, p)[i]
                         IN IF drawn.seen > 0 \/ Timestamp(src, i) = 0 THEN drawn.rss ELSE 0]
  BY <1>1, SeriesAgree DEF Shown
<1>. QED  BY <1>1, <1>2, TotalsAreSums

LEMMA PeakOfSeries ==
  ASSUME NEW n \in Nat, NEW f \in [1..n -> Nat]
  PROVE  LET m == Max({0} \cup {f[i] : i \in 1..n})
         IN /\ m \in Nat /\ \A i \in 1..n : f[i] <= m
            /\ m > 0 => \E i \in 1..n : f[i] = m
<1>. DEFINE S == {0} \cup {f[i] : i \in 1..n}
            m == Max(S)
<1>1. S \in SUBSET Int /\ S \in SUBSET Nat /\ S # {}
  OBVIOUS
<1>2. IsFiniteSet(S)
  <2>1. f \in Surjection(1..n, {f[i] : i \in 1..n})
    BY DEF Surjection
  <2>2. IsFiniteSet(1..n)
    BY FS_Interval
  <2>3. IsFiniteSet({0})
    BY FS_Singleton
  <2>. QED  BY <2>1, <2>2, <2>3, FS_Surjection, FS_Union
<1>3. m \in S /\ \A x \in S : x <= m
  <2>. HIDE DEF S
  <2>. QED  BY <1>1, <1>2, MaxIsGreatest
<1>4. \A i \in 1..n : f[i] \in S
  OBVIOUS
<1>5. m \in Nat
  <2>. HIDE DEF S
  <2>. QED  BY <1>1, <1>3
<1>6. \A i \in 1..n : f[i] <= m
  <2>. HIDE DEF m, S
  <2>. QED  BY <1>3, <1>4
<1>7. m > 0 => \E i \in 1..n : f[i] = m
  <2>. HIDE DEF m
  <2>. QED  BY <1>3
<1>. QED  BY <1>5, <1>6, <1>7

LEMMA PeakIs ==
  ASSUME LogInv
  PROVE  /\ Peak \in Nat
         /\ \A i \in 1..Len(log) : ChartTotal(i) <= Peak
         /\ Peak > 0 => \E i \in 1..Len(log) : ChartTotal(i) = Peak
<1>. DEFINE totals == {ChartTotal(i) : i \in DOMAIN log}
<1>1. DOMAIN log = 1..Len(log) /\ Len(log) \in Nat
  BY LogEntries DEF LogInv
<1>2. totals \subseteq Nat
  <2>1. "report" \in Sources
    BY DEF Sources
  <2>. QED  BY <1>1, <2>1, TotalsAreSums
<1>3. IsFiniteSet(totals)
  <2>. DEFINE f == [i \in 1..Len(log) |-> ChartTotal(i)]
  <2>1. f \in Surjection(1..Len(log), totals)
    BY <1>1 DEF Surjection
  <2>2. IsFiniteSet(1..Len(log))
    BY <1>1, FS_Interval
  <2>. HIDE DEF f, totals
  <2>. QED  BY <2>1, <2>2, FS_Surjection
<1>4. IsFiniteSet({0} \cup totals) /\ {0} \cup totals \in SUBSET Int /\ {0} \cup totals # {}
  <2>1. IsFiniteSet({0})
    BY FS_Singleton
  <2>. HIDE DEF totals
  <2>2. IsFiniteSet({0} \cup totals)
    BY <1>3, <2>1, FS_Union
  <2>3. \A x \in {0} \cup totals : x \in Nat
    BY <1>2
  <2>4. {0} \cup totals \in SUBSET Nat /\ {0} \cup totals # {}
    BY <2>3
  <2>5. \A S : S \in SUBSET Nat => S \in SUBSET Int
    OBVIOUS
  <2>. QED  BY <2>2, <2>4, <2>5
<1>5. Peak \in {0} \cup totals /\ \A x \in {0} \cup totals : x <= Peak
  <2>1. Peak = Max({0} \cup totals)
    BY DEF Peak
  <2>. HIDE DEF totals
  <2>. QED  BY <1>4, <2>1, MaxIsGreatest
<1>6. Peak \in Nat
  <2>. HIDE DEF totals
  <2>. QED  BY <1>2, <1>5
<1>7. \A i \in 1..Len(log) : ChartTotal(i) <= Peak
  BY <1>1, <1>5
<1>8. ASSUME Peak > 0 PROVE \E i \in 1..Len(log) : ChartTotal(i) = Peak
  <2>1. Peak \in totals
    <3>. HIDE DEF totals
    <3>. QED  BY <1>5, <1>8
  <2>. QED  BY <1>1, <2>1
<1>. QED  BY <1>6, <1>7, <1>8

\* Two processes that run together have a total.
LEMMA ActiveAddUp ==
  ASSUME LogInv, NEW i \in 1..Len(log), Cardinality(Active(i)) >= 2
  PROVE  ChartTotal(i) > 0
<1>1. Active(i) # {}
  BY FS_EmptySet
<1>2. PICK p \in Procs : ForwardFilled(p)[i].rss # 0
  BY <1>1 DEF Active
<1>3. "report" \in Sources /\ IsFiniteSet(Procs)
  BY ReportsAssumption DEF Sources
<1>4. Filled(i) \in [Procs -> Nat] /\ ChartTotal(i) = Sum(Filled(i))
  BY <1>3, TotalsAreSums
<1>5. Filled(i)[p] \in Nat /\ Filled(i)[p] # 0
  BY <1>2, <1>4 DEF Filled
<1>6. Filled(i)[p] <= Sum(Filled(i)) /\ Sum(Filled(i)) \in Nat
  BY <1>3, <1>4, SumOfNaturals
<1>. QED  BY <1>4, <1>5, <1>6

LEMMA PeakDo == LogInv => PeakIsDrawn
<1>. SUFFICES ASSUME LogInv, NEW i \in 1..Len(log), ChartTotal(i) = Peak \/ Cardinality(Active(i)) >= 2,
                     NEW j \in 1..Len(log), Cardinality(Active(j)) >= 2
              PROVE  ChartTotal(i) # 0 /\ (Cardinality(Active(i)) >= 2 \/ 5 * ChartTotal(i) > Peak)
  <2>1. \A i \in 1..Len(log) : i \in i..Len(log)
    BY LogEntries DEF LogInv
  <2>. QED  BY <2>1, LogEntries DEF PeakIsDrawn, Drawn, LogInv
<1>1. CASE Cardinality(Active(i)) >= 2
  <2>1. ChartTotal(i) > 0
    BY <1>1, ActiveAddUp
  <2>. QED  BY <1>1, <2>1
<1>2. CASE ChartTotal(i) = Peak
  <2>1. ChartTotal(j) > 0 /\ ChartTotal(j) <= Peak /\ Peak \in Nat
    BY ActiveAddUp, PeakIs
  <2>2. "report" \in Sources
    BY DEF Sources
  <2>3. ChartTotal(j) \in Nat
    BY <2>2, TotalsAreSums
  <2>. QED  BY <1>2, <2>1, <2>3
<1>. QED  BY <1>1, <1>2

LEMMA PagePeakIs ==
  ASSUME LogInv, NEW src \in Sources
  PROVE  /\ OverallMaxRss(src) \in Nat
         /\ \A i \in 1..Len(log) : DashboardTotal(src, i) <= OverallMaxRss(src)
<1>. DEFINE n == Len(log)
            total == [i \in 1..n |-> DashboardTotal(src, i)]
<1>1. DOMAIN log = 1..n /\ n \in Nat
  BY LogEntries DEF LogInv
<1>2. total \in [1..n -> Nat]
  BY TotalsAreSums
<1>3. OverallMaxRss(src) = Max({0} \cup {total[i] : i \in 1..n})
  <2>1. {DashboardTotal(src, i) : i \in DOMAIN log} = {total[i] : i \in 1..n}
    BY <1>1
  <2>. QED  BY <2>1 DEF OverallMaxRss
<1>4. \A i \in 1..Len(log) : total[i] = DashboardTotal(src, i)
  OBVIOUS
<1>5. OverallMaxRss(src) \in Nat /\ \A i \in 1..n : total[i] <= OverallMaxRss(src)
  <2>. HIDE DEF total
  <2>. QED  BY <1>1, <1>2, <1>3, PeakOfSeries
<1>. QED  BY <1>4, <1>5

LEMMA PagePeakDo == LogInv => PagePeakIsDrawn
<1>. SUFFICES ASSUME LogInv, NEW src \in Sources, NEW i \in 1..Len(log), Timestamp(src, 1) > 0,
                     OverallMaxRss(src) >= 20 * Cardinality(Procs),
                     DashboardTotal(src, i) = OverallMaxRss(src)
              PROVE  Drawn(i)
  BY LogEntries DEF PagePeakIsDrawn, LogInv
<1>. DEFINE processes == Cardinality(Procs)
<1>1. /\ Peak \in Nat /\ ChartTotal(i) \in Nat /\ OverallMaxRss(src) \in Nat
      /\ OverallMaxRss(src) <= ChartTotal(i) /\ ChartTotal(i) <= Peak
  BY PeakIs, PagePeakIs, TotalsAreSums
<1>2. processes \in Nat /\ Peak - OverallMaxRss(src) <= 9 * processes
  <2>1. CASE Peak = 0
    <3>1. processes \in Nat
      BY ReportsAssumption, FS_CardinalityType
    <3>. QED  BY <1>1, <2>1, <3>1
  <2>2. CASE Peak > 0
    <3>1. PICK m \in 1..Len(log) : ChartTotal(m) = Peak
      BY <2>2, PeakIs
    <3>2. /\ ChartTotal(m) - DashboardTotal(src, m) <= 9 * Cardinality(Active(m))
          /\ Cardinality(Active(m)) \in Nat /\ Cardinality(Active(m)) <= processes /\ processes \in Nat
      BY LittleIsLost
    <3>3. DashboardTotal(src, m) \in Nat /\ DashboardTotal(src, m) <= OverallMaxRss(src)
      BY TotalsAreSums, PagePeakIs
    <3>. QED  BY <1>1, <3>1, <3>2, <3>3
  <2>. QED  BY <1>1, <2>1, <2>2
<1>3. Peak > 0 => 5 * ChartTotal(i) > Peak
  <2>. HIDE DEF processes
  <2>. QED  BY <1>1, <1>2 DEF processes
<1>4. ASSUME NEW j \in 1..Len(log), Cardinality(Active(j)) >= 2
      PROVE  ChartTotal(i) # 0 /\ 5 * ChartTotal(i) > Peak
  <2>1. ChartTotal(j) > 0 /\ ChartTotal(j) <= Peak /\ ChartTotal(j) \in Nat
    BY <1>4, ActiveAddUp, PeakIs, TotalsAreSums
  <2>. QED  BY <1>1, <1>3, <2>1
<1>5. i \in i..Len(log) /\ DOMAIN log = 1..Len(log)
  BY LogEntries DEF LogInv
<1>. QED  BY <1>4, <1>5 DEF Drawn

LEMMA TrimmedDo == LogInv => TrimmedIsCut
<1>. DEFINE slack == 10 * Cardinality(Procs)
<1>. SUFFICES ASSUME LogInv, NEW src \in Sources, NEW i \in 1..Len(log),
                     Timestamp(src, 1) > 0, ~Drawn(i), Peak >= MinPeak + slack,
                     5 * ChartTotal(i) + slack < Peak
              PROVE  i \notin Frames(src)
  BY LogEntries DEF TrimmedIsCut, LogInv
<1>. DEFINE total == [j \in DOMAIN log |-> DashboardTotal(src, j)]
            drops == {j \in DOMAIN log : Drops(total, j)}
            upto == {total[j] : j \in 1..i}
<1>1. /\ DOMAIN log = 1..Len(log) /\ Len(log) \in Nat
      /\ MinPeak \in Nat /\ Cardinality(Procs) \in Nat /\ slack \in Nat
  <2>1. Cardinality(Procs) \in Nat
    BY ReportsAssumption, FS_CardinalityType
  <2>. QED  BY <2>1, LogEntries, ReplayDataAssumption DEF LogInv
<1>2. Peak \in Nat /\ ChartTotal(i) \in Nat /\ DashboardTotal(src, i) \in Nat
      /\ DashboardTotal(src, i) <= ChartTotal(i)
  BY PeakIs, TotalsAreSums
<1>3. PICK m \in 1..Len(log) : ChartTotal(m) = Peak /\ Peak > 0
  <2>1. Peak > 0
    <3>. HIDE DEF slack
    <3>. QED  BY <1>1, <1>2
  <2>. QED  BY <2>1, PeakIs
<1>4. m \in 1..i
  <2>1. ~(m \in i..Len(log))
    BY <1>2, <1>3 DEF Drawn
  <2>. QED  BY <1>1, <2>1
<1>5. DashboardTotal(src, m) >= Peak - slack /\ DashboardTotal(src, m) \in Nat
  <2>1. /\ ChartTotal(m) - DashboardTotal(src, m) <= 9 * Cardinality(Active(m))
        /\ Cardinality(Active(m)) \in Nat /\ Cardinality(Active(m)) <= Cardinality(Procs)
    BY LittleIsLost
  <2>2. DashboardTotal(src, m) \in Nat
    BY TotalsAreSums
  <2>3. 9 * Cardinality(Active(m)) <= slack
    BY <1>1, <2>1
  <2>. HIDE DEF slack
  <2>4. Peak - DashboardTotal(src, m) <= slack
    BY <1>1, <1>2, <1>3, <2>1, <2>2, <2>3
  <2>. QED  BY <1>1, <1>2, <2>2, <2>4
<1>6. \A j \in 1..i : j \in DOMAIN log /\ total[j] = DashboardTotal(src, j) /\ total[j] \in Nat
  <2>1. \A j \in 1..i : j \in 1..Len(log)
    BY <1>1
  <2>. QED  BY <1>1, <2>1, TotalsAreSums
<1>7. upto \in SUBSET Int /\ IsFiniteSet(upto) /\ total[m] \in upto
  <2>. DEFINE f == [j \in 1..i |-> total[j]]
  <2>. HIDE DEF total
  <2>1. f \in Surjection(1..i, upto)
    BY DEF Surjection
  <2>2. IsFiniteSet(1..i)
    BY FS_Interval
  <2>3. upto \in SUBSET Int /\ total[m] \in upto
    BY <1>4, <1>6
  <2>. HIDE DEF f, upto
  <2>. QED  BY <2>1, <2>2, <2>3, FS_Surjection
<1>8. Max(upto) \in Int /\ total[m] <= Max(upto)
  <2>. HIDE DEF upto, total
  <2>. QED  BY <1>7, MaxIsGreatest
<1>9. i \in drops
  <2>1. Max(upto) >= MinPeak /\ 5 * total[i] < Max(upto)
    <3>1. total[m] = DashboardTotal(src, m) /\ total[i] = DashboardTotal(src, i)
      BY <1>4, <1>6
    <3>. HIDE DEF upto, total, slack
    <3>. QED  BY <1>1, <1>2, <1>5, <1>8, <3>1
  <2>2. Drops(total, i)
    <3>. HIDE DEF total
    <3>. QED  BY <2>1 DEF Drops
  <2>. QED  BY <1>1, <2>2
<1>10. Min(drops) \in Nat /\ Min(drops) <= i
  <2>1. drops \in SUBSET Nat
    BY <1>1
  <2>. HIDE DEF drops
  <2>. QED  BY <1>9, <2>1, MinOfNaturals
<1>11. i \notin 1..Min(drops) - 1
  <2>. HIDE DEF drops
  <2>. QED  BY <1>10
<1>12. Frames(src) = IF drops = {} THEN DOMAIN log ELSE 1..Min(drops) - 1
  BY DEF Frames
<1>. HIDE DEF drops
<1>. QED  BY <1>9, <1>11, <1>12

\* The first drop ends what is replayed, and comes after its highest total.
LEMMA FallDo == LogInv => CutIsAFall
<1>. SUFFICES ASSUME LogInv, NEW src \in Sources, NEW i \in 1..Len(log),
                     i \notin Frames(src), Timestamp(src, 1) > 0
              PROVE  \E high \in Frames(src), low \in 1..i :
                       /\ high < low
                       /\ ChartTotal(high) >= MinPeak
                       /\ 5 * ChartTotal(low) < ChartTotal(high) + 5 * (10 * Cardinality(Procs))
  BY LogEntries DEF CutIsAFall, LogInv
<1>. DEFINE total == [j \in DOMAIN log |-> DashboardTotal(src, j)]
            drops == {j \in DOMAIN log : Drops(total, j)}
            low == Min(drops)
            upto == {total[j] : j \in 1..low}
<1>1. /\ DOMAIN log = 1..Len(log) /\ Len(log) \in Nat
      /\ MinPeak \in Nat /\ Cardinality(Procs) \in Nat
  <2>1. Cardinality(Procs) \in Nat
    BY ReportsAssumption, FS_CardinalityType
  <2>. QED  BY <2>1, LogEntries, ReplayDataAssumption DEF LogInv
<1>2. Frames(src) = IF drops = {} THEN DOMAIN log ELSE 1..low - 1
  BY DEF Frames
<1>3. drops # {} /\ drops \in SUBSET Nat /\ drops \subseteq 1..Len(log)
  BY <1>1, <1>2
<1>4. low \in drops /\ low \in 1..Len(log) /\ low <= i
  <2>1. low \in drops
    <3>. HIDE DEF drops
    <3>. QED  BY <1>3, MinOfNaturals
  <2>. HIDE DEF low, drops
  <2>. QED  BY <1>1, <1>2, <1>3, <2>1
<1>5. \A j \in 1..low : j \in DOMAIN log /\ total[j] = DashboardTotal(src, j) /\ total[j] \in Nat
  <2>. HIDE DEF low, drops
  <2>1. \A j \in 1..low : j \in 1..Len(log)
    BY <1>1, <1>4
  <2>. QED  BY <1>1, <2>1, TotalsAreSums
<1>6. Max(upto) >= MinPeak /\ 5 * total[low] < Max(upto)
  <2>1. Drops(total, low)
    <3>. HIDE DEF low, total
    <3>. QED  BY <1>4
  <2>. HIDE DEF low, total
  <2>. QED  BY <2>1 DEF Drops
<1>. HIDE DEF low, drops
<1>7. upto \in SUBSET Int /\ IsFiniteSet(upto) /\ upto # {}
  <2>. DEFINE f == [j \in 1..low |-> total[j]]
  <2>. HIDE DEF total
  <2>1. f \in Surjection(1..low, upto)
    BY DEF Surjection
  <2>2. IsFiniteSet(1..low)
    BY <1>1, <1>4, FS_Interval
  <2>3. upto \in SUBSET Int /\ upto # {}
    BY <1>1, <1>4, <1>5
  <2>. HIDE DEF f, upto
  <2>. QED  BY <2>1, <2>2, <2>3, FS_Surjection
<1>8. PICK high \in 1..low : total[high] = Max(upto)
  <2>1. Max(upto) \in upto
    <3>. HIDE DEF upto, total
    <3>. QED  BY <1>7, MaxIsGreatest
  <2>. HIDE DEF total
  <2>. QED  BY <2>1
<1>. HIDE DEF upto, total
<1>9. high # low
  BY <1>1, <1>4, <1>5, <1>6, <1>8
<1>10. high < low /\ high \in Frames(src) /\ low \in 1..i
  BY <1>1, <1>2, <1>3, <1>4, <1>8, <1>9
<1>11. /\ DashboardTotal(src, high) <= ChartTotal(high)
       /\ ChartTotal(high) \in Nat /\ ChartTotal(low) \in Nat
  BY <1>1, <1>4, <1>5, <1>8, TotalsAreSums
<1>12. ChartTotal(low) - DashboardTotal(src, low) <= 10 * Cardinality(Procs)
  <2>1. /\ ChartTotal(low) - DashboardTotal(src, low) <= 9 * Cardinality(Active(low))
        /\ Cardinality(Active(low)) \in Nat /\ Cardinality(Active(low)) <= Cardinality(Procs)
    BY <1>4, LittleIsLost
  <2>2. DashboardTotal(src, low) \in Nat
    BY <1>4, TotalsAreSums
  <2>. QED  BY <1>1, <1>11, <2>1, <2>2
<1>13. low \in 1..low
  BY <1>4
<1>14. total[high] = DashboardTotal(src, high) /\ total[low] = DashboardTotal(src, low)
       /\ total[high] \in Nat /\ total[low] \in Nat
  BY <1>5, <1>8, <1>13
<1>15. /\ ChartTotal(high) >= MinPeak
       /\ 5 * ChartTotal(low) < ChartTotal(high) + 5 * (10 * Cardinality(Procs))
  BY <1>1, <1>6, <1>8, <1>11, <1>12, <1>14
<1>. QED  BY <1>10, <1>15

\* For any processes, sizes, times and number of iterations, the charts of memory
\* that the cleanup draws from the log and the browser from the backend or from the
\* report agree: their totals (buildForwardFilledSeries and its sums in cleanup.ts,
\* buildTotalRssSeries in compare-shared.js), the lines and the total of each frame
\* of a replay (buildReplayData), and where a large build ends.  What the cleanup
\* trims is never a peak; what a replay cuts may be one, and only after a fall of the
\* total to less than a fifth, which the chart of the cleanup shows as well.
THEOREM TheChartsAgree == ReportsSpec => []ChartsAgree
<1>1. LogInv => ChartsAgree
  BY TotalsDo, LinesDo, PeakDo, PagePeakDo, TrimmedDo, FallDo DEF ChartsAgree
<1>. QED  BY <1>1, LogInvHolds, PTL

----------------------------------------------------------------------------
(***************************************************************************)
(* The peaks                                                               *)
(***************************************************************************)
\* The value of a process at an iteration that samples it, and 0 at the others.
Now(src, p, i) == IF log[i].rss[p] = 0 THEN 0 ELSE InUnits(src, log[i].rss[p])

LEMMA WhatIsNow ==
  ASSUME LogInv, NEW src \in Sources, NEW p \in Procs, NEW i \in 1..Len(log)
  PROVE  /\ Now(src, p, i) \in Nat /\ Counted(src, p, i) \in Nat /\ Cursor(src, p)[i].rss \in Nat
         /\ Now(src, p, i) <= Counted(src, p, i)
         /\ Counted(src, p, i) <= Cursor(src, p)[i].rss
         /\ Sampled(src, i, p) <=> log[i].rss[p] # 0
         /\ Sampled(src, i, p) => /\ Value(src, i, p) = Now(src, p, i)
                                  /\ Counted(src, p, i) = Now(src, p, i)
                                  /\ Cursor(src, p)[i].rss = Now(src, p, i)
         /\ Max({0} \cup Measured(src, i, p)) = Now(src, p, i)
         /\ {0} \cup Measured(src, i, p) = {0, Now(src, p, i)}
<1>. DEFINE size == log[i].rss[p]
<1>1. size \in Nat /\ InUnits(src, size) \in Nat
  BY LogEntries, UnitsAreNatural DEF LogInv
<1>2. Cursor(src, p)[i].rss \in Nat
  BY CursorIs, LogEntries DEF LogInv, Readouts
<1>3. Counted(src, p, i) \in Nat /\ Counted(src, p, i) <= Cursor(src, p)[i].rss
  BY <1>2 DEF Counted
<1>4. CASE size = 0
  <2>1. Measured(src, i, p) = {} /\ Now(src, p, i) = 0
    BY <1>4, WhatIsMeasured DEF LogInv, Now
  <2>2. {0} \cup {} = {0, 0}
    OBVIOUS
  <2>3. Max({0}) = 0
    <3>1. IsFiniteSet({0})
      BY FS_Singleton
    <3>2. Max({0}) \in {0}
      BY <3>1, MaxIsGreatest
    <3>. QED  BY <3>2
  <2>. QED  BY <1>2, <1>3, <1>4, <2>1, <2>2, <2>3 DEF Sampled
<1>5. CASE size # 0
  <2>1. Measured(src, i, p) = {Now(src, p, i)} /\ Now(src, p, i) \in Nat
    BY <1>1, <1>5, WhatIsMeasured DEF LogInv, Now
  <2>2. Cursor(src, p)[i] = [rss |-> Now(src, p, i), seen |-> Timestamp(src, i)]
    BY <1>5, CursorIs DEF LogInv, Now
  <2>3. Cursor(src, p)[i].rss = Now(src, p, i) /\ Counted(src, p, i) = Now(src, p, i)
    BY <2>2 DEF Counted, RecentlySeen
  <2>4. Sampled(src, i, p) /\ Value(src, i, p) = Now(src, p, i)
    BY <2>1 DEF Sampled, Value
  <2>5. \A v \in Nat : Max({0, v}) = v
    <3>1. ASSUME NEW v \in Nat PROVE Max({0, v}) = v
      <4>1. IsFiniteSet({0, v})
        <5>1. IsFiniteSet({0}) /\ IsFiniteSet({v})
          BY FS_Singleton
        <5>2. IsFiniteSet({0} \cup {v})
          BY <5>1, FS_Union
        <5>3. {0, v} = {0} \cup {v}
          OBVIOUS
        <5>. QED  BY <5>2, <5>3
      <4>2. Max({0, v}) \in {0, v} /\ v <= Max({0, v}) /\ 0 <= Max({0, v})
        BY <4>1, MaxIsGreatest
      <4>. QED  BY <4>2
    <3>. QED  BY <3>1
  <2>6. {0} \cup {Now(src, p, i)} = {0, Now(src, p, i)}
    OBVIOUS
  <2>. QED  BY <1>2, <1>3, <1>5, <2>1, <2>3, <2>4, <2>5, <2>6
<1>. QED  BY <1>4, <1>5

Latest(src, i) == [p \in Procs |-> Cursor(src, p)[i].rss]

LEMMA PeaksDo == LogInv => PeaksAreOrdered
<1>. SUFFICES ASSUME LogInv, NEW src \in Sources
     PROVE  /\ \A p \in Procs : MaxRss(src, p) <= OverallMaxRss(src)
            /\ OverallMaxRss(src) <= PeakAggregateRss(src)
            /\ (\A i \in DOMAIN log, p \in Procs : SeenBefore(src, i, p) # {} => Sampled(src, i, p))
                 => OverallMaxRss(src) = PeakAggregateRss(src)
  BY DEF PeaksAreOrdered
<1>. DEFINE n == Len(log)
            total == [i \in 1..n |-> DashboardTotal(src, i)]
            latest == [i \in 1..n |-> AggregateRss(src, i)]
<1>1. n \in Nat /\ DOMAIN log = 1..n /\ IsFiniteSet(Procs)
  BY LogEntries, ReportsAssumption DEF LogInv
<1>2. \A i \in 1..n : /\ total[i] = Sum(Shown(src, i)) /\ total[i] \in Nat
                      /\ Shown(src, i) \in [Procs -> Nat]
  BY TotalsAreSums
<1>3. \A i \in 1..n : /\ latest[i] = Sum(Latest(src, i)) /\ latest[i] \in Nat
                      /\ Latest(src, i) \in [Procs -> Nat]
  <2>1. ASSUME NEW i \in 1..n
        PROVE  /\ AggregateRss(src, i) = Sum(Latest(src, i)) /\ Sum(Latest(src, i)) \in Nat
               /\ Latest(src, i) \in [Procs -> Nat]
    <3>1. Latest(src, i) \in [Procs -> Nat]
      BY WhatIsNow DEF Latest
    <3>2. AggregateRss(src, i) = Sum(Latest(src, i))
      BY DEF AggregateRss, Latest
    <3>. QED  BY <1>1, <3>1, <3>2, SumOfNaturals
  <2>. QED  BY <2>1
<1>4. ASSUME NEW i \in 1..n PROVE total[i] <= latest[i]
  <2>1. \A p \in Procs : Shown(src, i)[p] <= Latest(src, i)[p]
    BY WhatIsNow DEF Shown, Latest
  <2>2. Shown(src, i) \in [Procs -> Int] /\ Latest(src, i) \in [Procs -> Int]
    BY <1>2, <1>3
  <2>3. Sum(Shown(src, i)) <= Sum(Latest(src, i))
    BY <1>1, <2>1, <2>2, SumIsMonotonic
  <2>. QED  BY <1>2, <1>3, <2>3
<1>5. /\ OverallMaxRss(src) = Max({0} \cup {total[i] : i \in 1..n})
      /\ PeakAggregateRss(src) = Max({0} \cup {latest[i] : i \in 1..n})
  <2>1. /\ {DashboardTotal(src, i) : i \in DOMAIN log} = {total[i] : i \in 1..n}
        /\ {AggregateRss(src, i) : i \in DOMAIN log} = {latest[i] : i \in 1..n}
    BY <1>1
  <2>. QED  BY <2>1 DEF OverallMaxRss, PeakAggregateRss
<1>6. total \in [1..n -> Nat] /\ latest \in [1..n -> Nat]
  <2>1. /\ \A i \in 1..n : DashboardTotal(src, i) \in Nat
        /\ \A i \in 1..n : AggregateRss(src, i) \in Nat
    BY <1>2, <1>3
  <2>. QED  BY <2>1
<1>. HIDE DEF n, total, latest
<1>7. /\ OverallMaxRss(src) \in Nat /\ \A i \in 1..n : total[i] <= OverallMaxRss(src)
      /\ OverallMaxRss(src) > 0 => \E i \in 1..n : total[i] = OverallMaxRss(src)
  BY <1>1, <1>5, <1>6, PeakOfSeries
<1>8. PeakAggregateRss(src) \in Nat /\ \A i \in 1..n : latest[i] <= PeakAggregateRss(src)
  BY <1>1, <1>5, <1>6, PeakOfSeries
<1>9. ASSUME NEW p \in Procs PROVE MaxRss(src, p) <= OverallMaxRss(src)
  <2>. DEFINE now == [i \in 1..n |-> Now(src, p, i)]
  <2>1. {0} \cup UNION {Measured(src, i, p) : i \in DOMAIN log} = {0} \cup {now[i] : i \in 1..n}
    <3>1. \A i \in 1..n : {0} \cup Measured(src, i, p) = {0, now[i]}
      BY WhatIsNow DEF n
    <3>. HIDE DEF now
    <3>. QED  BY <1>1, <3>1
  <2>2. now \in [1..n -> Nat]
    BY WhatIsNow DEF n
  <2>3. MaxRss(src, p) = Max({0} \cup {now[i] : i \in 1..n})
    BY <2>1 DEF MaxRss
  <2>4. ASSUME NEW i \in 1..n PROVE now[i] <= total[i]
    <3>1. Shown(src, i)[p] <= total[i]
      BY <1>1, <1>2, SumOfNaturals
    <3>2. now[i] <= Shown(src, i)[p] /\ now[i] \in Nat /\ Shown(src, i)[p] \in Nat
      BY WhatIsNow DEF Shown, n
    <3>. HIDE DEF now
    <3>. QED  BY <1>2, <3>1, <3>2
  <2>. HIDE DEF now
  <2>5. MaxRss(src, p) \in Nat /\ (MaxRss(src, p) > 0 => \E i \in 1..n : now[i] = MaxRss(src, p))
    BY <1>1, <2>2, <2>3, PeakOfSeries
  <2>6. CASE MaxRss(src, p) > 0
    <3>1. PICK i \in 1..n : now[i] = MaxRss(src, p)
      BY <2>5, <2>6
    <3>2. now[i] <= total[i] /\ total[i] <= OverallMaxRss(src) /\ total[i] \in Nat
      BY <1>2, <1>7, <2>4
    <3>. QED  BY <1>7, <2>5, <3>1, <3>2
  <2>. QED  BY <1>7, <2>5, <2>6
<1>10. OverallMaxRss(src) <= PeakAggregateRss(src)
  <2>1. CASE OverallMaxRss(src) > 0
    <3>1. PICK i \in 1..n : total[i] = OverallMaxRss(src)
      BY <1>7, <2>1
    <3>2. total[i] <= latest[i] /\ latest[i] <= PeakAggregateRss(src) /\ latest[i] \in Nat /\ total[i] \in Nat
      BY <1>2, <1>3, <1>4, <1>8
    <3>. QED  BY <1>8, <3>1, <3>2
  <2>. QED  BY <1>7, <1>8, <2>1
<1>11. ASSUME \A i \in DOMAIN log, p \in Procs : SeenBefore(src, i, p) # {} => Sampled(src, i, p)
       PROVE  OverallMaxRss(src) = PeakAggregateRss(src)
  <2>1. ASSUME NEW i \in 1..n, NEW p \in Procs
        PROVE  Counted(src, p, i) = Cursor(src, p)[i].rss
    <3>1. CASE Sampled(src, i, p)
      BY <3>1, WhatIsNow DEF n
    <3>2. CASE ~Sampled(src, i, p)
      <4>1. PICK k \in 0..i : SeriesAt(src, p, i, k)
        BY <1>1, LastSample DEF n
      <4>2. k = 0
        <5>1. SUFFICES ASSUME k # 0 PROVE FALSE
          OBVIOUS
        <5>2. k \in 1..n /\ log[k].rss[p] # 0
          BY <1>1, <4>1, <5>1 DEF SeriesAt
        <5>3. Sampled(src, k, p) /\ k # i
          BY <3>2, <5>2, WhatIsNow DEF n
        <5>4. k \in SeenBefore(src, i, p)
          BY <5>1, <5>3 DEF SeenBefore
        <5>. QED  BY <1>1, <1>11, <3>2, <5>4
      <4>3. Cursor(src, p)[i].rss = 0
        BY <4>1, <4>2 DEF SeriesAt, NoValue
      <4>. QED  BY <4>3 DEF Counted
    <3>. QED  BY <3>1, <3>2
  <2>2. \A i \in 1..n : Shown(src, i) = Latest(src, i)
    BY <2>1 DEF Shown, Latest
  <2>3. \A i \in 1..n : total[i] = latest[i]
    BY <1>2, <1>3, <2>2
  <2>4. {total[i] : i \in 1..n} = {latest[i] : i \in 1..n}
    BY <2>3
  <2>. QED  BY <1>5, <2>4
<1>. QED  BY <1>9, <1>10, <1>11

----------------------------------------------------------------------------
(***************************************************************************)
(* The rates                                                               *)
(***************************************************************************)
LEMMA SumOfOneMore ==
  ASSUME NEW S, IsFiniteSet(S), NEW x, x \notin S, NEW f \in [S \cup {x} -> Int]
  PROVE  Sum(f) = f[x] + Sum([y \in S |-> f[y]]) /\ Sum([y \in S |-> f[y]]) \in Int
<1>. DEFINE g == [y \in S |-> f[y]]
            T == S \cup {x}
<1>1. IsFiniteSet(T)
  BY FS_AddElement
<1>2. PICK F \in [SUBSET T -> Int] : InAnyOrder(F, f, T) /\ Sum(f) = F[T]
  <2>1. f \in [T -> Int]
    OBVIOUS
  <2>. HIDE DEF T
  <2>. QED  BY <1>1, <2>1, OrderIsFree
<1>3. InAnyOrder(F, g, S)
  <2>1. F[{}] = 0
    BY <1>2 DEF InAnyOrder
  <2>2. ASSUME NEW U \in SUBSET S, NEW y \in U PROVE F[U] = g[y] + F[U \ {y}]
    <3>1. U \in SUBSET T
      OBVIOUS
    <3>2. F[U] = f[y] + F[U \ {y}]
      BY <1>2, <3>1 DEF InAnyOrder
    <3>. QED  BY <3>2
  <2>. HIDE DEF g
  <2>. QED  BY <2>1, <2>2 DEF InAnyOrder
<1>4. g \in [S -> Int]
  OBVIOUS
<1>5. Sum(g) = F[S]
  <2>. HIDE DEF g
  <2>. QED  BY <1>3, <1>4, SumIs
<1>6. F[T] = f[x] + F[S]
  <2>1. T \ {x} = S /\ x \in T
    OBVIOUS
  <2>2. F[T] = f[x] + F[T \ {x}]
    BY <1>2, <2>1 DEF InAnyOrder
  <2>. QED  BY <2>1, <2>2
<1>7. F[S] \in Int
  OBVIOUS
<1>. QED  BY <1>2, <1>5, <1>6, <1>7

SampledUntil(src, p, i) == {j \in 1..i : Sampled(src, j, p)}
Fresh(src, p, i) == {j \in SampledUntil(src, p, i) : j > Min(SampledUntil(src, p, i))}
Grown(src, p, j) == Value(src, j, p) - Value(src, Max(SeenBefore(src, j, p)), p)

LEMMA SampledIs ==
  ASSUME NEW src, NEW p, NEW i \in Nat, SampledUntil(src, p, i) # {}
  PROVE  LET seen == SampledUntil(src, p, i)
         IN /\ IsFiniteSet(seen)
            /\ Min(seen) \in seen /\ \A j \in seen : Min(seen) <= j
            /\ Max(seen) \in seen /\ \A j \in seen : j <= Max(seen)
<1>. DEFINE seen == SampledUntil(src, p, i)
<1>1. seen \subseteq 1..i
  BY DEF SampledUntil
<1>2. IsFiniteSet(1..i)
  BY FS_Interval
<1>3. IsFiniteSet(seen)
  <2>. HIDE DEF seen
  <2>. QED  BY <1>1, <1>2, FS_Subset
<1>4. seen \in SUBSET Int
  <2>. HIDE DEF seen
  <2>. QED  BY <1>1
<1>. HIDE DEF seen
<1>5. Min(seen) \in seen /\ \A j \in seen : Min(seen) <= j
  BY <1>3, <1>4, MinIsLeast DEF seen
<1>6. Max(seen) \in seen /\ \A j \in seen : j <= Max(seen)
  BY <1>3, <1>4, MaxIsGreatest DEF seen
<1>. QED  BY <1>3, <1>5, <1>6 DEF seen

LEMMA SampledValue ==
  ASSUME LogInv, NEW src \in Sources, NEW p \in Procs, NEW i \in 1..Len(log), Sampled(src, i, p)
  PROVE  /\ Value(src, i, p) \in Nat /\ log[i].rss[p] # 0
         /\ Cursor(src, p)[i].rss = Value(src, i, p)
<1>1. Now(src, p, i) \in Nat
  BY WhatIsNow
<1>2. Value(src, i, p) = Now(src, p, i) /\ Cursor(src, p)[i].rss = Now(src, p, i)
  BY WhatIsNow
<1>3. log[i].rss[p] # 0
  BY WhatIsNow
<1>. QED  BY <1>1, <1>2, <1>3

\* What one sample more adds.
LEMMA OneMoreSample ==
  ASSUME NEW src, NEW p, NEW i \in Nat \ {0}, Sampled(src, i, p), SampledUntil(src, p, i - 1) # {}
  PROVE  /\ Max(SampledUntil(src, p, i)) = i
         /\ Min(SampledUntil(src, p, i)) = Min(SampledUntil(src, p, i - 1))
         /\ Fresh(src, p, i) = Fresh(src, p, i - 1) \cup {i}
         /\ i \notin Fresh(src, p, i - 1)
<1>. DEFINE old == SampledUntil(src, p, i - 1)
            new == SampledUntil(src, p, i)
<1>1. new = old \cup {i} /\ i \notin old /\ old \subseteq 1..i - 1 /\ i - 1 \in Nat
  <2>1. 1..i = (1..i - 1) \cup {i} /\ i \notin 1..i - 1 /\ i - 1 \in Nat
    OBVIOUS
  <2>. QED  BY <2>1 DEF SampledUntil
<1>2. Min(old) \in old /\ \A j \in old : Min(old) <= j
  BY <1>1, SampledIs
<1>3. /\ Min(new) \in new /\ \A j \in new : Min(new) <= j
      /\ Max(new) \in new /\ \A j \in new : j <= Max(new)
  BY <1>1, SampledIs
<1>4. \A j \in old : j \in Int /\ j < i
  BY <1>1
<1>. HIDE DEF old, new
<1>5. ASSUME NEW m \in new, \A j \in new : j <= m PROVE m = i
  BY <1>1, <1>4, <1>5
<1>6. ASSUME NEW m \in new, \A j \in new : m <= j,
             NEW l \in old, \A j \in old : l <= j
      PROVE  m = l
  <2>1. m \in Int /\ l \in Int /\ l \in new /\ l < i
    BY <1>1, <1>4
  <2>2. m <= l /\ m # i
    BY <1>6, <2>1
  <2>3. m \in old
    BY <1>1, <2>2
  <2>4. l <= m
    BY <1>6, <2>3
  <2>. QED  BY <2>1, <2>2, <2>4
<1>7. Max(new) = i /\ Min(new) = Min(old)
  BY <1>2, <1>3, <1>5, <1>6
<1>8. i > Min(old)
  <2>1. \A l \in old : i > l
    BY <1>4
  <2>. QED  BY <1>2, <2>1
<1>. QED  BY <1>1, <1>7, <1>8 DEF Fresh, old, new

\* What has been counted since the first sample is what was between the samples,
\* added up.
LEMMA CountedInSteps ==
  ASSUME LogInv, NEW src \in Sources, NEW p \in Procs, NEW i \in 1..Len(log),
         SampledUntil(src, p, i) # {}
  PROVE  Sum([j \in Fresh(src, p, i) |-> Grown(src, p, j)])
           = Cumulative(src, i, p) - Value(src, Min(SampledUntil(src, p, i)), p)
<1>. DEFINE n == Len(log)
            steps(j) == [k \in Fresh(src, p, j) |-> Grown(src, p, k)]
            first(j) == Value(src, Min(SampledUntil(src, p, j)), p)
            B == {j \in 0..n : SampledUntil(src, p, j) # {} =>
                    /\ steps(j) \in [Fresh(src, p, j) -> Int]
                    /\ Cursor(src, p)[j].rss = Value(src, Max(SampledUntil(src, p, j)), p)
                    /\ Sum(steps(j)) = Cursor(src, p)[j].rss - first(j)}
<1>1. n \in Nat
  BY LogEntries DEF LogInv
<1>2. 0 \in B
  BY <1>1 DEF SampledUntil
<1>3. ASSUME NEW j \in 1..n, j - 1 \in B PROVE j \in B
  <2>1. j \in Nat \ {0} /\ j - 1 \in Nat /\ j \in 0..n /\ j - 1 \in 0..n
    BY <1>1
  <2>2. CASE ~Sampled(src, j, p)
    <3>1. 1..j = (1..j - 1) \cup {j}
      BY <2>1
    <3>2. SampledUntil(src, p, j) = SampledUntil(src, p, j - 1)
      BY <2>2, <3>1 DEF SampledUntil
    <3>3. Fresh(src, p, j) = Fresh(src, p, j - 1)
      BY <3>2 DEF Fresh
    <3>4. Cursor(src, p)[j] = Cursor(src, p)[j - 1]
      BY <2>2, CursorIs, WhatIsNow DEF LogInv
    <3>. QED  BY <1>3, <2>1, <3>2, <3>3, <3>4
  <2>3. CASE Sampled(src, j, p) /\ SampledUntil(src, p, j - 1) = {}
    <3>1. 1..j = (1..j - 1) \cup {j}
      BY <2>1
    <3>2. SampledUntil(src, p, j) = {j}
      BY <2>3, <3>1 DEF SampledUntil
    <3>3. Min({j}) = j /\ Max({j}) = j
      <4>1. Min({j}) \in {j} /\ Max({j}) \in {j}
        BY <2>1, <3>2, SampledIs
      <4>. QED  BY <4>1
    <3>4. Fresh(src, p, j) = {}
      BY <2>1, <3>2, <3>3 DEF Fresh
    <3>5. steps(j) = [x \in {} |-> 0]
      BY <3>4
    <3>6. Cursor(src, p)[j].rss = Value(src, j, p) /\ Cursor(src, p)[j].rss \in Nat
      BY <2>3, SampledValue
    <3>7. Sum(steps(j)) = 0
      <4>. HIDE DEF steps
      <4>. QED  BY <3>5, SumOfNothing
    <3>8. [x \in {} |-> 0] \in [{} -> Int]
      OBVIOUS
    <3>9. first(j) = Value(src, j, p)
      BY <3>2, <3>3
    <3>10. steps(j) \in [Fresh(src, p, j) -> Int]
      <4>. HIDE DEF steps
      <4>. QED  BY <3>4, <3>5, <3>8
    <3>11. Cursor(src, p)[j].rss = Value(src, Max(SampledUntil(src, p, j)), p)
      BY <3>2, <3>3, <3>6
    <3>12. Sum(steps(j)) = Cursor(src, p)[j].rss - first(j)
      <4>. HIDE DEF steps, first
      <4>. QED  BY <3>6, <3>7, <3>9
    <3>. HIDE DEF steps, first
    <3>. QED  BY <2>1, <3>10, <3>11, <3>12
  <2>4. CASE Sampled(src, j, p) /\ SampledUntil(src, p, j - 1) # {}
    <3>1. /\ Max(SampledUntil(src, p, j)) = j
          /\ Min(SampledUntil(src, p, j)) = Min(SampledUntil(src, p, j - 1))
          /\ Fresh(src, p, j) = Fresh(src, p, j - 1) \cup {j}
          /\ j \notin Fresh(src, p, j - 1)
      BY <2>1, <2>4, OneMoreSample
    <3>2. /\ steps(j - 1) \in [Fresh(src, p, j - 1) -> Int]
          /\ Cursor(src, p)[j - 1].rss = Value(src, Max(SampledUntil(src, p, j - 1)), p)
          /\ Sum(steps(j - 1)) = Cursor(src, p)[j - 1].rss - first(j - 1)
      BY <1>3, <2>4
    <3>3. Cursor(src, p)[j].rss = Value(src, j, p) /\ Value(src, j, p) \in Nat
      BY <2>4, SampledValue
    <3>4. SeenBefore(src, j, p) = SampledUntil(src, p, j - 1)
      BY DEF SeenBefore, SampledUntil
    <3>5. Grown(src, p, j) = Cursor(src, p)[j].rss - Cursor(src, p)[j - 1].rss
      BY <3>2, <3>3, <3>4 DEF Grown
    <3>6. Cursor(src, p)[j - 1].rss \in Nat
      BY <2>1, CursorIs DEF LogInv, Readouts
    <3>7. first(j - 1) \in Nat
      <4>. DEFINE m == Min(SampledUntil(src, p, j - 1))
      <4>1. m \in SampledUntil(src, p, j - 1)
        BY <2>1, <2>4, SampledIs
      <4>. HIDE DEF m
      <4>2. m \in 1..n /\ Sampled(src, m, p)
        BY <1>1, <4>1 DEF SampledUntil
      <4>3. Value(src, m, p) \in Nat
        BY <4>2, SampledValue
      <4>. QED  BY <4>3 DEF m
    <3>8. first(j) = first(j - 1)
      BY <3>1
    <3>9. steps(j) \in [Fresh(src, p, j - 1) \cup {j} -> Int]
      <4>1. \A k \in Fresh(src, p, j - 1) : Grown(src, p, k) \in Int
        BY <3>2
      <4>2. Grown(src, p, j) \in Int
        BY <3>3, <3>5, <3>6
      <4>. QED  BY <3>1, <4>1, <4>2
    <3>10. IsFiniteSet(Fresh(src, p, j - 1))
      <4>1. IsFiniteSet(SampledUntil(src, p, j - 1))
        BY <2>1, <2>4, SampledIs
      <4>2. Fresh(src, p, j - 1) \subseteq SampledUntil(src, p, j - 1)
        BY DEF Fresh
      <4>. QED  BY <4>1, <4>2, FS_Subset
    <3>11. [k \in Fresh(src, p, j - 1) |-> steps(j)[k]] = steps(j - 1) /\ steps(j)[j] = Grown(src, p, j)
      BY <3>1
    <3>12. Sum(steps(j)) = steps(j)[j] + Sum(steps(j - 1)) /\ Sum(steps(j - 1)) \in Int
      <4>1. Sum(steps(j)) = steps(j)[j] + Sum([k \in Fresh(src, p, j - 1) |-> steps(j)[k]])
        <5>. HIDE DEF steps
        <5>. QED  BY <3>1, <3>9, <3>10, SumOfOneMore
      <4>. HIDE DEF steps, first
      <4>. QED  BY <3>2, <3>6, <3>7, <3>11, <4>1
    <3>13. Sum(steps(j)) = Cursor(src, p)[j].rss - first(j)
      <4>. HIDE DEF steps, first
      <4>. QED  BY <3>2, <3>3, <3>5, <3>6, <3>7, <3>8, <3>11, <3>12
    <3>. HIDE DEF steps, first
    <3>. QED  BY <2>1, <3>1, <3>3, <3>9, <3>13
  <2>. QED  BY <2>2, <2>3, <2>4
<1>4. i \in B
  <2>1. i \in 0..n
    BY <1>1
  <2>. HIDE DEF B, n
  <2>. QED  BY <1>1, <1>2, <1>3, <2>1, Upwards
<1>5. Cumulative(src, i, p) = Cursor(src, p)[i].rss
  BY DEF Cumulative
<1>. QED  BY <1>4, <1>5

LEMMA RatesDo == LogInv => RatesAddUp
<1>. SUFFICES ASSUME LogInv, NEW src \in Sources, NEW p \in Procs, NEW i \in 1..Len(log),
                     SampledUntil(src, p, i) # {},
                     \A j \in Fresh(src, p, i) :
                       Value(src, j, p) >= Value(src, Max(SeenBefore(src, j, p)), p)
     PROVE  LET since(j) == Times[j] - Times[Max(SeenBefore(src, j, p))]
            IN /\ \A j \in Fresh(src, p, i) : Rate(src, j, p) # NoRate
               /\ Sum([j \in Fresh(src, p, i) |-> (Rate(src, j, p)[1] * since(j)) \div Rate(src, j, p)[2]])
                    = Cumulative(src, i, p) - Value(src, Min(SampledUntil(src, p, i)), p)
  BY LogEntries DEF RatesAddUp, LogInv, SampledUntil, Fresh
<1>. DEFINE since(j) == Times[j] - Times[Max(SeenBefore(src, j, p))]
<1>0. Len(log) \in Nat
  BY LogEntries DEF LogInv
<1>1. ASSUME NEW j \in Fresh(src, p, i)
      PROVE  /\ Rate(src, j, p) = <<Grown(src, p, j), since(j)>>
             /\ Grown(src, p, j) \in Nat /\ since(j) \in Nat \ {0}
  <2>. DEFINE first == Min(SampledUntil(src, p, i))
              before == SeenBefore(src, j, p)
              last == Max(before)
  <2>1. first \in SampledUntil(src, p, i)
    BY <1>0, SampledIs
  <2>2. j \in 1..i /\ Sampled(src, j, p) /\ j > first
    BY DEF Fresh, SampledUntil
  <2>. HIDE DEF first
  <2>3. first \in before
    BY <2>1, <2>2 DEF SampledUntil, SeenBefore
  <2>4. before = SampledUntil(src, p, j - 1) /\ j - 1 \in Nat
    BY <2>2 DEF SeenBefore, SampledUntil
  <2>5. last \in before
    BY <2>3, <2>4, SampledIs
  <2>6. last \in 1..Len(log) /\ j \in 1..Len(log) /\ last < j /\ Sampled(src, last, p)
    <3>. HIDE DEF last
    <3>. QED  BY <1>0, <2>2, <2>5 DEF SeenBefore
  <2>7. Grown(src, p, j) \in Nat
    <3>1. Value(src, j, p) \in Nat /\ Value(src, last, p) \in Nat
      <4>. HIDE DEF last
      <4>. QED  BY <2>2, <2>6, SampledValue
    <3>2. Value(src, j, p) >= Value(src, last, p)
      OBVIOUS
    <3>3. Grown(src, p, j) = Value(src, j, p) - Value(src, last, p)
      BY DEF Grown
    <3>. HIDE DEF last
    <3>. QED  BY <3>1, <3>2, <3>3
  <2>8. since(j) \in Nat \ {0}
    <3>1. Times[last] \in Nat /\ Times[j] \in Nat /\ Times[last] < Times[j]
      BY <2>6, TimesRise
    <3>2. since(j) = Times[j] - Times[last]
      OBVIOUS
    <3>. HIDE DEF last, since
    <3>. QED  BY <3>1, <3>2
  <2>9. NewRate(src, j, p) = <<Grown(src, p, j), since(j)>>
    <3>1. Grown(src, p, j) >= 0
      BY <2>7
    <3>. QED  BY <3>1 DEF NewRate, Grown
  <2>10. HasNewRate(src, j, p)
    <3>1. <<Grown(src, p, j), since(j)>> # <<>>
      OBVIOUS
    <3>. QED  BY <2>2, <2>3, <2>9, <3>1 DEF HasNewRate, NoRate
  <2>11. Max(RatedUntil(src, j, p)) = j /\ RatedUntil(src, j, p) # {}
    <3>. DEFINE rated == RatedUntil(src, j, p)
    <3>1. rated \subseteq 1..j /\ j \in rated
      BY <2>2, <2>10 DEF RatedUntil
    <3>2. IsFiniteSet(1..j)
      BY FS_Interval, <2>2
    <3>. HIDE DEF rated
    <3>3. IsFiniteSet(rated)
      BY <3>1, <3>2, FS_Subset
    <3>4. rated \in SUBSET Int
      BY <3>1
    <3>5. Max(rated) \in 1..j /\ j <= Max(rated)
      BY <3>1, <3>3, <3>4, MaxIsGreatest
    <3>6. Max(rated) = j
      BY <2>2, <3>5
    <3>. QED  BY <3>1, <3>6 DEF rated
  <2>12. Rate(src, j, p) = NewRate(src, j, p)
    BY <2>11 DEF Rate, RecentlySeen
  <2>. QED  BY <2>7, <2>8, <2>9, <2>12
<1>2. \A j \in Fresh(src, p, i) : Rate(src, j, p) # NoRate
  BY <1>1 DEF NoRate
<1>3. ASSUME NEW j \in Fresh(src, p, i)
      PROVE  (Rate(src, j, p)[1] * since(j)) \div Rate(src, j, p)[2] = Grown(src, p, j)
  <2>1. /\ Rate(src, j, p)[1] = Grown(src, p, j) /\ Rate(src, j, p)[2] = since(j)
        /\ Grown(src, p, j) \in Nat /\ since(j) \in Nat \ {0}
    BY <1>1
  <2>2. \A a \in Nat, d \in Nat \ {0} : (a * d) \div d = a
    OBVIOUS
  <2>. HIDE DEF since
  <2>. QED  BY <2>1, <2>2
<1>4. [j \in Fresh(src, p, i) |-> (Rate(src, j, p)[1] * since(j)) \div Rate(src, j, p)[2]]
        = [j \in Fresh(src, p, i) |-> Grown(src, p, j)]
  <2>. HIDE DEF since
  <2>. QED  BY <1>3
<1>5. Sum([j \in Fresh(src, p, i) |-> Grown(src, p, j)])
        = Cumulative(src, i, p) - Value(src, Min(SampledUntil(src, p, i)), p)
  BY CountedInSteps
<1>. QED  BY <1>2, <1>4, <1>5

----------------------------------------------------------------------------
(***************************************************************************)
(* The checkpoints                                                         *)
(***************************************************************************)
\* The numbers 0..h spread over 0..e, rounded.
Spaced(k, h, e) == (2 * k * e + h) \div (2 * h)

LEMMA SpreadEvenly ==
  ASSUME NEW h \in Nat \ {0}, NEW e \in Nat, h < e
  PROVE  /\ Spaced(0, h, e) = 0 /\ Spaced(h, h, e) = e
         /\ \A k \in 1..h : Spaced(k - 1, h, e) < Spaced(k, h, e)
         /\ \A k \in 0..h : Spaced(k, h, e) \in 0..e
<1>. DEFINE d == 2 * h
            x(k) == 2 * k * e + h
<1>1. d \in Nat \ {0} /\ h \in 0..d - 1
  OBVIOUS
<1>2. x(0) \div d = 0
  <2>1. x(0) = d * 0 + h
    OBVIOUS
  <2>. HIDE DEF d, x
  <2>. QED  BY <1>1, <2>1, QuotientIs
<1>3. x(h) \div d = e
  <2>1. x(h) = d * e + h
    OBVIOUS
  <2>. HIDE DEF d, x
  <2>. QED  BY <1>1, <2>1, QuotientIs
<1>4. ASSUME NEW k \in 1..h PROVE x(k - 1) \div d < x(k) \div d
  <2>1. x(k) \in Int /\ x(k - 1) \in Int
    OBVIOUS
  <2>2. x(k) = x(k - 1) + 2 * e
    <3>1. 2 * k * e = 2 * (k - 1) * e + 2 * e
      OBVIOUS
    <3>. QED  BY <3>1
  <2>3. x(k - 1) + d <= x(k)
    <3>1. d <= 2 * e
      OBVIOUS
    <3>. HIDE DEF d, x
    <3>. QED  BY <1>1, <2>1, <2>2, <3>1
  <2>. HIDE DEF d, x
  <2>. QED  BY <1>1, <2>1, <2>3, QuotientGrows
<1>5. ASSUME NEW k \in 0..h PROVE x(k) \div d \in 0..e
  <2>. DEFINE below == d * (-1) + h
              above == d * (e + 1) + h
  <2>1. below \div d = -1 /\ above \div d = e + 1
    <3>1. -1 \in Int /\ e + 1 \in Int
      OBVIOUS
    <3>. HIDE DEF d
    <3>. QED  BY <1>1, <3>1, QuotientIs
  <2>2. x(k) \in Int /\ below \in Int /\ above \in Int
    OBVIOUS
  <2>3. k * e \in Nat /\ k * e <= h * e
    <3>1. (h - k) \in Nat /\ (h - k) * e \in Nat /\ (h - k) * e = h * e - k * e
      OBVIOUS
    <3>. QED  BY <3>1
  <2>4. below + d <= x(k) /\ x(k) + d <= above
    <3>1. below + d = h /\ x(k) = 2 * (k * e) + h /\ above = 2 * (h * e) + d + h
      OBVIOUS
    <3>2. h * e \in Nat
      OBVIOUS
    <3>. HIDE DEF d, x, below, above
    <3>. QED  BY <1>1, <2>3, <3>1, <3>2
  <2>. HIDE DEF d, x, below, above
  <2>5. -1 < x(k) \div d /\ x(k) \div d < e + 1
    BY <1>1, <2>1, <2>2, <2>4, QuotientGrows
  <2>6. x(k) \div d \in Int
    BY <1>1, <2>2, QuotientBounds
  <2>. QED  BY <2>5, <2>6
<1>. QED  BY <1>2, <1>3, <1>4, <1>5 DEF Spaced

LEMMA CheckpointsRise ==
  ASSUME LogInv, log # <<>>
  PROVE  /\ Checkpoint(1) = 1 /\ Checkpoint(Max(Checkpoints)) = Len(log)
         /\ \A n \in Checkpoints \ {1} : Checkpoint(n - 1) < Checkpoint(n)
         /\ \A n \in Checkpoints : Checkpoint(n) \in 1..Len(log)
<1>1. Len(log) \in Nat \ {0} /\ MaxCheckpoints \in Nat \ {0, 1}
  BY ReplayDataAssumption DEF LogInv, ReportsTypeOK
<1>2. \A n \in Nat \ {0} : Max(1..n) = n
  <2>1. ASSUME NEW n \in Nat \ {0} PROVE Max(1..n) = n
    <3>1. IsFiniteSet(1..n)
      BY FS_Interval
    <3>2. Max(1..n) \in 1..n /\ n <= Max(1..n)
      BY <3>1, MaxIsGreatest
    <3>. QED  BY <3>2
  <2>. QED  BY <2>1
<1>3. CASE Len(log) <= MaxCheckpoints
  <2>1. Checkpoints = 1..Len(log) /\ \A n : Checkpoint(n) = n
    BY <1>3 DEF Checkpoints, Checkpoint
  <2>2. Max(1..Len(log)) = Len(log)
    BY <1>1, <1>2
  <2>. QED  BY <1>1, <2>1, <2>2
<1>4. CASE ~(Len(log) <= MaxCheckpoints)
  <2>. DEFINE h == MaxCheckpoints - 1
              e == Len(log) - 1
  <2>1. /\ Checkpoints = 1..MaxCheckpoints /\ Max(Checkpoints) = MaxCheckpoints
    BY <1>1, <1>2, <1>4 DEF Checkpoints
  <2>2. h \in Nat \ {0} /\ e \in Nat /\ h < e
    BY <1>1, <1>4
  <2>3. ASSUME NEW n \in Int PROVE Checkpoint(n) = 1 + Spaced(n - 1, h, e)
    <3>1. Checkpoint(n) = 1 + (2 * (n - 1) * e + MaxCheckpoints - 1) \div (2 * h)
      BY <1>4 DEF Checkpoint
    <3>2. 2 * (n - 1) * e + MaxCheckpoints - 1 = 2 * (n - 1) * e + h
      <4>1. 2 * (n - 1) * e \in Int
        BY <2>2
      <4>2. \A u \in Int : u + MaxCheckpoints - 1 = u + (MaxCheckpoints - 1)
        BY <1>1
      <4>. HIDE DEF e
      <4>. QED  BY <4>1, <4>2
    <3>. QED  BY <3>1, <3>2 DEF Spaced
  <2>4. /\ Spaced(0, h, e) = 0 /\ Spaced(h, h, e) = e
        /\ \A k \in 1..h : Spaced(k - 1, h, e) < Spaced(k, h, e)
        /\ \A k \in 0..h : Spaced(k, h, e) \in 0..e
    <3>. HIDE DEF h, e
    <3>. QED  BY <2>2, SpreadEvenly
  <2>5. Checkpoint(1) = 1 /\ Checkpoint(MaxCheckpoints) = Len(log)
    <3>1. Checkpoint(1) = 1 + Spaced(0, h, e)
      BY <2>3
    <3>2. Checkpoint(MaxCheckpoints) = 1 + Spaced(h, h, e)
      BY <1>1, <2>3
    <3>3. 1 + e = Len(log)
      BY <1>1
    <3>. HIDE DEF h, e
    <3>. QED  BY <2>4, <3>1, <3>2, <3>3
  <2>6. ASSUME NEW n \in 1..MaxCheckpoints PROVE Checkpoint(n) \in 1..Len(log)
    <3>1. n - 1 \in 0..h /\ n \in Int /\ Len(log) = e + 1 /\ e \in Nat
      BY <1>1
    <3>. HIDE DEF h, e
    <3>2. Spaced(n - 1, h, e) \in 0..e /\ Checkpoint(n) = 1 + Spaced(n - 1, h, e)
      BY <2>3, <2>4, <3>1
    <3>. QED  BY <3>1, <3>2
  <2>7. ASSUME NEW n \in 1..MaxCheckpoints, n # 1 PROVE Checkpoint(n - 1) < Checkpoint(n)
    <3>1. n - 1 \in 1..h /\ n - 1 \in 0..h /\ n - 1 - 1 \in 0..h /\ n \in Int /\ n - 1 \in Int
      BY <1>1, <2>7
    <3>. HIDE DEF h, e
    <3>2. /\ Checkpoint(n) = 1 + Spaced(n - 1, h, e)
          /\ Checkpoint(n - 1) = 1 + Spaced(n - 1 - 1, h, e)
          /\ Spaced(n - 1 - 1, h, e) < Spaced(n - 1, h, e)
          /\ Spaced(n - 1 - 1, h, e) \in Int /\ Spaced(n - 1, h, e) \in Int
      BY <2>2, <2>3, <2>4, <3>1
    <3>. QED  BY <3>2
  <2>. QED  BY <2>1, <2>5, <2>6, <2>7
<1>. QED  BY <1>3, <1>4

LEMMA CheckpointsDo == LogInv => CheckpointsAgree
<1>1. SUFFICES ASSUME LogInv, log # <<>>, NEW n \in Checkpoints
      PROVE  LET i == Checkpoint(n)
                 carried == {p \in Active(i) : log[i].rss[p] = 0}
             IN ChartTotal(i) = Aggregated(i) + Sum([p \in carried |-> ForwardFilled(p)[i].rss])
  BY CheckpointsRise DEF CheckpointsAgree
<1>. DEFINE i == Checkpoint(n)
            carried == {p \in Active(i) : log[i].rss[p] = 0}
            now == [p \in Procs |-> Max({0} \cup Measured("report", i, p))]
            more == [p \in Procs |-> Filled(i)[p] - now[p]]
            part == [p \in carried |-> more[p]]
            rest == [p \in carried |-> ForwardFilled(p)[i].rss]
<1>2. i \in 1..Len(log) /\ "report" \in Sources
  <2>1. i \in 1..Len(log)
    BY <1>1, CheckpointsRise
  <2>. HIDE DEF i
  <2>. QED  BY <2>1 DEF Sources
<1>. HIDE DEF i
<1>3. IsFiniteSet(Procs) /\ carried \in SUBSET Procs
  BY ReportsAssumption DEF Active
<1>4. ASSUME NEW p \in Procs
      PROVE  /\ now[p] \in Nat /\ Filled(i)[p] \in Nat /\ ForwardFilled(p)[i].rss \in Nat
             /\ more[p] = IF p \in carried THEN ForwardFilled(p)[i].rss ELSE 0
  <2>. DEFINE size == log[i].rss[p]
              chart == ForwardFilled(p)[i].rss
  <2>1. size \in Nat /\ chart \in Nat /\ Filled(i)[p] = chart /\ more[p] = chart - now[p]
    <3>1. size \in Nat
      BY <1>1, <1>2, LogEntries DEF LogInv
    <3>2. chart \in Nat
      BY <1>1, <1>2, SeriesAgree
    <3>. QED  BY <3>1, <3>2 DEF Filled
  <2>2. now[p] = Now("report", p, i)
    BY <1>1, <1>2, WhatIsNow
  <2>3. now[p] = size
    BY <2>2 DEF Now, InUnits
  <2>4. p \in carried <=> chart # 0 /\ size = 0
    BY DEF Active
  <2>5. ASSUME size # 0 PROVE chart = size
    <3>1. ForwardFilled(p)[i] = [rss |-> size, seen |-> Times[i]]
      <4>1. LogInv /\ p \in Procs /\ i \in 1..Len(log)
        BY <1>1, <1>2, <1>4
      <4>. HIDE DEF LogInv
      <4>. QED  BY <2>5, <4>1, ForwardFilledIs
    <3>. QED  BY <3>1
  <2>. HIDE DEF size, chart, now, more, carried
  <2>6. more[p] = IF p \in carried THEN chart ELSE 0
    BY <2>1, <2>3, <2>4, <2>5
  <2>. QED  BY <2>1, <2>3, <2>6 DEF chart
<1>5. more \in [Procs -> Int] /\ now \in [Procs -> Int] /\ Filled(i) \in [Procs -> Int]
  <2>1. /\ \A p \in Procs : more[p] \in Int
        /\ \A p \in Procs : now[p] \in Int
        /\ \A p \in Procs : Filled(i)[p] \in Int
    <3>. HIDE DEF more, now, carried
    <3>. QED  BY <1>4
  <2>2. /\ more = [p \in Procs |-> more[p]] /\ now = [p \in Procs |-> now[p]]
        /\ Filled(i) = [p \in Procs |-> Filled(i)[p]]
    BY DEF Filled
  <2>. HIDE DEF more, now
  <2>. QED  BY <2>1, <2>2
<1>6. Sum(more) = Sum(part)
  <2>1. \A p \in Procs \ carried : more[p] = 0
    <3>. HIDE DEF more, carried
    <3>. QED  BY <1>4
  <2>. HIDE DEF more, carried
  <2>. QED  BY <1>3, <1>5, <2>1, SumOfPart
<1>7. part = rest
  <2>1. \A p \in carried : more[p] = ForwardFilled(p)[i].rss
    <3>. HIDE DEF more, carried
    <3>. QED  BY <1>3, <1>4
  <2>. HIDE DEF more, carried
  <2>. QED  BY <2>1
<1>8. Sum(more) = Sum(Filled(i)) - Sum(now) /\ Sum(now) \in Int /\ Sum(Filled(i)) \in Int
  <2>. HIDE DEF now
  <2>. QED  BY <1>3, <1>5, SumOfDifferences
<1>9. ChartTotal(i) = Sum(Filled(i)) /\ Aggregated(i) = Sum(now)
  BY DEF ChartTotal, Filled, Aggregated
<1>10. ChartTotal(i) = Aggregated(i) + Sum(rest)
  <2>. HIDE DEF more, now, part, rest
  <2>. QED  BY <1>6, <1>7, <1>8, <1>9
<1>. QED  BY <1>10 DEF i

\* For any processes, sizes, times and number of iterations: the peak of a process
\* (buildProcessSummary), of the run and of the prediction view (peakAggregateRss)
\* are in order; as long as a counter does not fall its rates add up to what was
\* counted (buildCounterSeries); and the checkpoints of the Mermaid chart rise from
\* the first timestamp to the last, with the totals of the other chart less what
\* was not sampled just then (selectRepresentativeTimestamps).
THEOREM TheSeriesAddUp == ReportsSpec => []SeriesAddUp
<1>1. LogInv => SeriesAddUp
  BY PeaksDo, RatesDo, CheckpointsDo DEF SeriesAddUp
<1>. QED  BY <1>1, LogInvHolds, PTL

----------------------------------------------------------------------------
(***************************************************************************)
(* The story                                                               *)
(***************************************************************************)
StoryInv == frames \in Seq(Readings) /\ Length <= MaxFrames

LEMMA StoryInvHolds == StorySpec => []StoryInv
<1>1. StoryInit => StoryInv
  BY StoryAssumption DEF StoryInit, StoryInv, Length
<1>2. StoryInv /\ [StoryNext]_frames => StoryInv'
  <2>. SUFFICES ASSUME StoryInv, [StoryNext]_frames PROVE StoryInv'
    OBVIOUS
  <2>1. ASSUME NEW r \in Readings, Render(r) PROVE StoryInv'
    BY <2>1, StoryAssumption DEF StoryInv, Render, Length
  <2>2. CASE UNCHANGED frames
    BY <2>2 DEF StoryInv, Length
  <2>. QED  BY <2>1, <2>2 DEF StoryNext
<1>. QED  BY <1>1, <1>2, PTL DEF StorySpec

Cells == Nat \cup {Absent}

LEMMA SeriesAreTyped ==
  ASSUME StoryInv
  PROVE  /\ Length \in Nat /\ Rows \in Nat
         /\ Total \in [1..Length -> Cells]
         /\ \A metric \in Metrics, row \in 1..Rows : Series(metric, row) \in [1..Length -> Cells]
<1>1. Length \in Nat /\ Rows \in Nat
  BY StoryAssumption DEF StoryInv, Length
<1>2. \A i \in 1..Length : frames[i] \in Readings
  BY DEF StoryInv, Length
<1>3. \A r \in Readings : r.total \in Cells
  BY StoryAssumption DEF Cells
<1>4. \A metric \in Metrics, row \in 1..Rows : \A r \in Readings : r[metric][row] \in Cells
  BY StoryAssumption DEF Cells
<1>5. Total \in [1..Length -> Cells]
  BY <1>2, <1>3 DEF Total
<1>6. ASSUME NEW metric \in Metrics, NEW row \in 1..Rows
      PROVE  Series(metric, row) \in [1..Length -> Cells]
  BY <1>2, <1>4 DEF Series
<1>. QED  BY <1>1, <1>5, <1>6

\* The frame and the process of a place.
LEMMA PlacesAre ==
  ASSUME StoryInv
  PROVE  /\ Rows * Length \in Nat
         /\ \A place \in Places : FrameOf(place) \in 1..Length /\ RowOf(place) \in 1..Rows
         /\ \A i \in 1..Length, row \in 1..Rows :
              \E place \in Places : FrameOf(place) = i /\ RowOf(place) = row
         /\ \A i \in 1..Length : FrameOf(i) = i
<1>. DEFINE n == Length
<1>1. n \in Nat /\ Rows \in Nat /\ Rows * n \in Nat
  BY SeriesAreTyped
<1>. HIDE DEF n
<1>2. ASSUME NEW place \in 1..Rows * n
      PROVE  1 + ((place - 1) % n) \in 1..n /\ 1 + ((place - 1) \div n) \in 1..Rows
  <2>1. n # 0
    <3>1. Rows * 0 = 0
      BY <1>1
    <3>. QED  BY <1>1, <3>1
  <2>. DEFINE q == (place - 1) \div n
              r == (place - 1) % n
  <2>2. place - 1 \in Nat /\ place - 1 < Rows * n /\ n \in Nat \ {0}
    BY <1>1, <2>1
  <2>3. place - 1 = n * q + r /\ r \in 0..n - 1 /\ q \in Nat
    BY <2>2, RemainderBounds
  <2>. HIDE DEF q, r
  <2>4. q < Rows
    <3>1. SUFFICES ASSUME Rows <= q PROVE FALSE
      BY <1>1, <2>3
    <3>2. q - Rows \in Nat /\ n * (q - Rows) \in Nat /\ n * (q - Rows) = n * q - Rows * n
      BY <1>1, <2>3, <3>1
    <3>3. n * q \in Nat
      BY <1>1, <2>3
    <3>. QED  BY <1>1, <2>2, <2>3, <3>2, <3>3
  <2>5. 1 + r \in 1..n /\ 1 + q \in 1..Rows
    BY <1>1, <2>3, <2>4
  <2>. QED  BY <2>5 DEF q, r
<1>3. ASSUME NEW i \in 1..n, NEW row \in 1..Rows
      PROVE  \E place \in 1..Rows * n : 1 + ((place - 1) % n) = i /\ 1 + ((place - 1) \div n) = row
  <2>. DEFINE place == n * (row - 1) + i
  <2>1. n \in Nat \ {0} /\ row - 1 \in Nat /\ i - 1 \in 0..n - 1
    BY <1>1
  <2>2. n * (row - 1) \in Nat /\ n * (row - 1) + n <= Rows * n
    <3>1. Rows - row \in Nat /\ n * (Rows - row) \in Nat
      BY <1>1
    <3>2. n * (Rows - row) = Rows * n - (n * (row - 1) + n)
      BY <1>1
    <3>3. n * (row - 1) \in Nat
      BY <2>1
    <3>. QED  BY <1>1, <3>1, <3>2, <3>3
  <2>3. place \in 1..Rows * n /\ place - 1 = n * (row - 1) + (i - 1)
    BY <1>1, <2>2
  <2>4. (n * (row - 1) + (i - 1)) % n = i - 1 /\ (n * (row - 1) + (i - 1)) \div n = row - 1
    <3>1. (n * (row - 1) + (i - 1)) % n = i - 1
      BY <2>1, RemainderIs
    <3>2. (n * (row - 1) + (i - 1)) \div n = row - 1
      BY <2>1, QuotientIs
    <3>. QED  BY <3>1, <3>2
  <2>5. 1 + (i - 1) = i /\ 1 + (row - 1) = row
    OBVIOUS
  <2>. HIDE DEF place
  <2>. QED  BY <2>3, <2>4, <2>5
<1>4. ASSUME NEW i \in 1..n PROVE 1 + ((i - 1) % n) = i
  <2>1. n \in Nat \ {0} /\ i - 1 \in 0..n - 1 /\ n * 0 + (i - 1) = i - 1
    BY <1>1
  <2>2. (i - 1) % n = i - 1
    <3>1. (n * 0 + (i - 1)) % n = i - 1
      BY <2>1, RemainderIs
    <3>. QED  BY <2>1, <3>1
  <2>. QED  BY <2>2
<1>. QED  BY <1>1, <1>2, <1>3, <1>4 DEF Places, FrameOf, RowOf, n

LEMMA ValuesAreTyped ==
  ASSUME StoryInv, NEW metric \in Metrics
  PROVE  /\ Values(metric) \in [1..Rows * Length -> Cells]
         /\ \A place \in Places : Values(metric)[place] = frames[FrameOf(place)][metric][RowOf(place)]
<1>1. \A place \in Places : /\ Series(metric, RowOf(place))[FrameOf(place)] \in Cells
                            /\ Series(metric, RowOf(place))[FrameOf(place)]
                                 = frames[FrameOf(place)][metric][RowOf(place)]
  BY PlacesAre, SeriesAreTyped DEF Series
<1>. QED  BY <1>1 DEF Values, Places

LEMMA HighestIs ==
  ASSUME NEW n \in Nat, NEW s \in [1..n -> Int]
  PROVE  /\ Highest(s) \in Int /\ Absent <= Highest(s) /\ \A k \in 1..n : s[k] <= Highest(s)
         /\ Highest(s) # Absent =>
              /\ PlaceOfHighest(s) \in 1..n /\ s[PlaceOfHighest(s)] = Highest(s)
              /\ \A k \in 1..n : s[k] = Highest(s) => PlaceOfHighest(s) <= k
<1>. DEFINE places == {place \in DOMAIN s : s[place] = Highest(s)}
<1>1. /\ Highest(s) \in Int /\ Absent <= Highest(s) /\ \A k \in 1..n : s[k] <= Highest(s)
      /\ Highest(s) # Absent => \E k \in 1..n : s[k] = Highest(s)
  <2>1. Absent \in Int
    BY DEF Absent
  <2>. QED  BY <2>1, MaxOfSeries DEF Highest
<1>2. places \in SUBSET Nat
  OBVIOUS
<1>3. ASSUME Highest(s) # Absent
      PROVE  Min(places) \in places /\ \A k \in places : Min(places) <= k
  <2>1. places # {}
    BY <1>1, <1>3
  <2>. HIDE DEF places
  <2>. QED  BY <1>2, <2>1, MinOfNaturals
<1>. QED  BY <1>1, <1>3 DEF PlaceOfHighest

LEMMA RadiusIs ==
  ASSUME StoryInv, Length >= 4
  PROVE  /\ Length \in Nat /\ Radius \in Nat /\ 2 <= Radius
         /\ Spread \in Nat /\ 1 <= Spread
         /\ EarlyEnd \in 2..Length
<1>1. Length \in Nat
  BY SeriesAreTyped
<1>3. Radius \in Nat /\ 2 <= Radius
  <2>. DEFINE a == (7 * Length + 50) \div 100
  <2>1. a \in Int
    BY <1>1
  <2>. HIDE DEF a
  <2>2. Max({2, a}) \in {2, a} /\ 2 <= Max({2, a})
    BY <2>1, OfTwo
  <2>3. Max({2, a}) \in Nat
    BY <2>1, <2>2
  <2>. QED  BY <2>2, <2>3 DEF Radius, a
<1>4. EarlyEnd \in 2..Length
  <2>. DEFINE a == (16 * Length + 50) \div 100
  <2>1. a \in Int /\ a <= Length - 1
    BY <1>1
  <2>. HIDE DEF a
  <2>2. Max({1, a}) \in {1, a} /\ 1 <= Max({1, a})
    <3>1. a \in Int
      BY <2>1
    <3>. QED  BY <3>1, OfTwo
  <2>3. 1 + Max({1, a}) \in 2..Length
    BY <1>1, <2>1, <2>2
  <2>. QED  BY <2>3 DEF EarlyEnd, a
<1>5. Spread \in Nat /\ 1 <= Spread
  <2>. DEFINE lowest == Min({Highest(Total)} \cup {v \in Range(Total) : IsPresent(v)})
              some == {Highest(Total)} \cup {v \in Range(Total) : IsPresent(v)}
  <2>1. Total \in [1..Length -> Int] /\ Range(Total) \in SUBSET Int
    BY SeriesAreTyped DEF Cells, Absent, Range
  <2>2. Highest(Total) \in Int
    BY <1>1, <2>1, HighestIs
  <2>3. IsFiniteSet(some)
    <3>1. Total \in Surjection(1..Length, Range(Total))
      BY <2>1 DEF Surjection, Range
    <3>2. IsFiniteSet(1..Length)
      BY <1>1, FS_Interval
    <3>3. IsFiniteSet(Range(Total))
      BY <3>1, <3>2, FS_Surjection
    <3>4. IsFiniteSet({v \in Range(Total) : IsPresent(v)})
      BY <3>3, FS_Subset
    <3>5. IsFiniteSet({Highest(Total)})
      BY FS_Singleton
    <3>. QED  BY <3>4, <3>5, FS_Union
  <2>4. some \in SUBSET Int /\ some # {}
    BY <2>1, <2>2
  <2>5. lowest \in Int
    <3>. HIDE DEF some
    <3>1. Min(some) \in some
      BY <2>3, <2>4, MinIsLeast
    <3>. QED  BY <2>4, <3>1 DEF some
  <2>. DEFINE a == Highest(Total) - lowest
  <2>6. a \in Int
    <3>. HIDE DEF lowest
    <3>. QED  BY <2>2, <2>5
  <2>. HIDE DEF a, lowest, some
  <2>7. Max({1, a}) \in {1, a} /\ 1 <= Max({1, a})
    BY <2>6, OfTwo
  <2>8. Max({1, a}) \in Nat
    BY <2>6, <2>7
  <2>. QED  BY <2>7, <2>8 DEF Spread, a, lowest
<1>. QED  BY <1>1, <1>3, <1>4, <1>5

\* A window around a frame is one of the run, and has the frame before in it too.
LEMMA AroundIs ==
  ASSUME StoryInv, Length >= 4, NEW i \in 1..Length, NEW label
  PROVE  /\ Around(label, i).label = label
         /\ Around(label, i).start \in 1..i /\ Around(label, i).end \in i..Length
         /\ Around(label, i).start < Around(label, i).end
         /\ i > 1 => Around(label, i).start < i
<1>. DEFINE a == i - Radius
            b == i + Radius
<1>1. Length \in Nat /\ Radius \in Nat /\ 2 <= Radius
  BY RadiusIs
<1>2. a \in Int /\ b \in Int /\ a < i - 1 /\ i < b
  BY <1>1
<1>. HIDE DEF a, b
<1>3. /\ Around(label, i).label = label
      /\ Around(label, i).start = Max({1, a}) /\ Around(label, i).end = Min({Length, b})
  BY DEF Around, Phase, a, b
<1>4. Max({1, a}) \in {1, a} /\ 1 <= Max({1, a})
  BY <1>2, OfTwo
<1>5. Min({Length, b}) \in {Length, b} /\ Min({Length, b}) <= Length
  <2>1. b \in Int /\ Length \in Int
    BY <1>1, <1>2
  <2>. QED  BY <2>1, OfTwo
<1>6. Max({1, a}) \in 1..i /\ (i > 1 => Max({1, a}) < i)
  BY <1>2, <1>4
<1>7. Min({Length, b}) \in i..Length /\ (i < Length => i < Min({Length, b}))
  BY <1>1, <1>2, <1>5
<1>8. i > 1 \/ i < Length
  BY <1>1
<1>9. Max({1, a}) < Min({Length, b})
  BY <1>1, <1>6, <1>7, <1>8
<1>. QED  BY <1>3, <1>6, <1>7, <1>9

LEMMA RiseIs ==
  ASSUME StoryInv, NEW s \in [1..Length -> Cells], NEW i \in 1..Length, NEW j \in i..Length
  PROVE  Rise(s, i, j) \in Int
<1>1. Length \in Nat
  BY SeriesAreTyped
<1>2. ASSUME NEW k \in 1..Length, Until(s, k) # {}
      PROVE  s[Max(Until(s, k))] \in Nat
  <2>1. Until(s, k) \subseteq 1..k /\ IsFiniteSet(1..k)
    BY FS_Interval DEF Until
  <2>2. IsFiniteSet(Until(s, k)) /\ Until(s, k) \in SUBSET Int
    <3>1. IsFiniteSet(Until(s, k))
      BY <2>1, FS_Subset
    <3>. QED  BY <2>1, <3>1
  <2>3. Max(Until(s, k)) \in Until(s, k)
    BY <1>2, <2>2, MaxIsGreatest
  <2>4. \A m \in Until(s, k) : s[m] \in Nat
    BY <1>1 DEF Until, IsPresent, Cells
  <2>. QED  BY <2>3, <2>4
<1>3. CASE Until(s, i) = {}
  BY <1>3 DEF Rise
<1>4. CASE Until(s, i) # {}
  <2>1. Until(s, j) # {} /\ j \in 1..Length
    BY <1>1, <1>4 DEF Until
  <2>2. s[Max(Until(s, i))] \in Nat /\ s[Max(Until(s, j))] \in Nat
    BY <1>2, <1>4, <2>1
  <2>. QED  BY <1>4, <2>2 DEF Rise
<1>. QED  BY <1>3, <1>4

LEMMA RisesAre ==
  ASSUME StoryInv, Length >= 4, NEW s \in [1..Length -> Cells]
  PROVE  /\ Rises(s) \in [1..Length -> Int]
         /\ \A i \in 1..Length :
              IF i + Radius <= Length THEN Rises(s)[i] = Rise(s, i, i + Radius) ELSE Rises(s)[i] = 0
<1>1. Length \in Nat /\ Radius \in Nat
  BY RadiusIs
<1>2. ASSUME NEW i \in 1..Length
      PROVE  /\ Rises(s)[i] \in Int
             /\ IF i + Radius <= Length THEN Rises(s)[i] = Rise(s, i, i + Radius) ELSE Rises(s)[i] = 0
  <2>1. CASE i + Radius <= Length
    <3>1. i + Radius \in i..Length /\ ~(i + Radius > Length)
      BY <1>1, <2>1
    <3>2. Rise(s, i, i + Radius) \in Int
      BY <3>1, RiseIs
    <3>. QED  BY <2>1, <3>1, <3>2 DEF Rises
  <2>2. CASE ~(i + Radius <= Length)
    <3>1. i + Radius > Length
      BY <1>1, <2>2
    <3>. QED  BY <2>2, <3>1 DEF Rises
  <2>. QED  BY <2>1, <2>2
<1>3. Rises(s) = [i \in 1..Length |-> Rises(s)[i]]
  BY DEF Rises
<1>. QED  BY <1>2, <1>3

\* The percentile is one of the values.
LEMMA PercentileIs ==
  ASSUME NEW n \in Nat, NEW s \in [1..n -> Cells], Highest(s) # Absent
  PROVE  Percentile(s) \in Nat /\ \E k \in 1..n : s[k] = Percentile(s)
<1>. DEFINE present == {k \in DOMAIN s : IsPresent(s[k])}
            m == Cardinality(present)
            rank == 1 + (85 * (m - 1)) \div 100
            upto(v) == {k \in present : s[k] <= v}
            enough == {v \in Range(s) : IsPresent(v) /\ Cardinality(upto(v)) >= rank}
            top == Highest(s)
<1>1. s \in [1..n -> Int] /\ \A k \in 1..n : IsPresent(s[k]) => s[k] \in Nat
  BY DEF Cells, Absent, IsPresent
<1>2. PICK k \in 1..n : s[k] = top
  BY <1>1, HighestIs
<1>3. top \in Nat /\ top \in Range(s) /\ IsPresent(top) /\ k \in present
  BY <1>1, <1>2 DEF IsPresent, Range
<1>4. upto(top) = present
  <2>1. \A j \in 1..n : s[j] <= top
    BY <1>1, HighestIs
  <2>. QED  BY <2>1
<1>5. m \in Nat \ {0}
  <2>1. IsFiniteSet(1..n)
    BY FS_Interval
  <2>2. IsFiniteSet(present)
    <3>1. present \subseteq 1..n
      OBVIOUS
    <3>. HIDE DEF present
    <3>. QED  BY <2>1, <3>1, FS_Subset
  <2>. HIDE DEF present
  <2>3. m \in Nat /\ (m = 0 <=> present = {})
    BY <2>2, FS_CardinalityType, FS_EmptySet
  <2>. QED  BY <1>3, <2>3
<1>6. m >= rank
  <2>. HIDE DEF m
  <2>. QED  BY <1>5
<1>7. top \in enough
  <2>1. Cardinality(upto(top)) >= rank
    <3>. HIDE DEF upto, present, top, rank
    <3>. QED  BY <1>4, <1>6
  <2>. HIDE DEF upto, present, top, rank, m
  <2>. QED  BY <1>3, <2>1
<1>8. enough \in SUBSET Nat /\ enough \subseteq Range(s)
  <2>1. \A v \in Range(s) : IsPresent(v) => v \in Nat
    BY <1>1 DEF Range
  <2>. HIDE DEF upto, rank
  <2>. QED  BY <2>1
<1>9. Min(enough) \in enough
  <2>. HIDE DEF enough
  <2>. QED  BY <1>7, <1>8, MinOfNaturals
<1>10. Percentile(s) = Min(enough)
  BY DEF Percentile
<1>11. Percentile(s) \in Nat /\ Percentile(s) \in Range(s)
  <2>. HIDE DEF enough
  <2>. QED  BY <1>8, <1>9, <1>10
<1>. QED  BY <1>11 DEF Range

\* At most one window of the run, of that name.
OneWindow(S, label) ==
  /\ \A x \in S : /\ x.label = label /\ x.start \in 1..Length /\ x.end \in 1..Length
                  /\ x.start < x.end
  /\ \A x, y \in S : x = y

LEMMA AroundIsWindow ==
  ASSUME StoryInv, Length >= 4, NEW i \in 1..Length, NEW label, NEW S, S \in {{}, {Around(label, i)}}
  PROVE  OneWindow(S, label)
<1>. DEFINE w == Around(label, i)
<1>1. /\ w.label = label /\ w.start \in 1..i /\ w.end \in i..Length /\ w.start < w.end
  BY AroundIs
<1>. HIDE DEF w
<1>2. Length \in Nat
  BY RadiusIs
<1>3. w.start \in 1..Length /\ w.end \in 1..Length
  BY <1>1, <1>2
<1>4. S \in {{}, {w}}
  BY DEF w
<1>. QED  BY <1>1, <1>3, <1>4 DEF OneWindow

LEMMA WarmupIs == ASSUME StoryInv, Length >= 4 PROVE OneWindow(Warmup, "warmup")
<1>1. EarlyEnd \in 2..Length /\ Length \in Nat
  BY RadiusIs
<1>2. Warmup \in {{}, {Phase("warmup", 1, EarlyEnd)}}
  BY DEF Warmup
<1>. QED  BY <1>1, <1>2 DEF OneWindow, Phase

LEMMA PressureIs ==
  ASSUME StoryInv, Length >= 4
  PROVE  /\ OneWindow(Pressure, "peak")
         /\ Highest(Total) # Absent =>
              /\ PlaceOfHighest(Total) \in 1..Length
              /\ Around("peak", PlaceOfHighest(Total)) \in Pressure
<1>1. Length \in Nat /\ Total \in [1..Length -> Int]
  BY SeriesAreTyped DEF Cells, Absent
<1>2. CASE Highest(Total) = Absent
  BY <1>2 DEF Pressure, OneWindow
<1>3. CASE Highest(Total) # Absent
  <2>1. PlaceOfHighest(Total) \in 1..Length
    BY <1>1, <1>3, HighestIs
  <2>2. Pressure = {Around("peak", PlaceOfHighest(Total))}
    BY <1>3 DEF Pressure
  <2>. QED  BY <2>1, <2>2, AroundIsWindow
<1>. QED  BY <1>2, <1>3

LEMMA ClimbIs ==
  ASSUME StoryInv, Length >= 4, NEW label, NEW n \in Nat, NEW rises \in [1..n -> Int],
         NEW least \in Nat \ {0},
         \A k \in 1..n : FrameOf(k) \in 1..Length,
         \A k \in 1..n : rises[k] > 0 => FrameOf(k) + Radius <= Length
  PROVE  LET first == FrameOf(PlaceOfHighest(rises))
         IN /\ OneWindow(Climb(label, rises, least), label)
            /\ Highest(rises) >= least =>
                 /\ PlaceOfHighest(rises) \in 1..n
                 /\ first \in 1..Length /\ first + Radius <= Length
                 /\ Phase(label, first, first + Radius) \in Climb(label, rises, least)
<1>. DEFINE place == PlaceOfHighest(rises)
            first == FrameOf(place)
<1>1. Highest(rises) \in Int
  BY HighestIs
<1>2. CASE Highest(rises) < least
  <2>1. Climb(label, rises, least) = {} /\ ~(Highest(rises) >= least)
    BY <1>1, <1>2 DEF Climb
  <2>. QED  BY <2>1 DEF OneWindow
<1>3. CASE ~(Highest(rises) < least)
  <2>1. Highest(rises) # Absent /\ Highest(rises) > 0
    BY <1>1, <1>3 DEF Absent
  <2>2. place \in 1..n /\ rises[place] = Highest(rises)
    BY <2>1, HighestIs
  <2>3. first \in 1..Length /\ first + Radius <= Length
    <3>. HIDE DEF place
    <3>. QED  BY <2>1, <2>2
  <2>4. Climb(label, rises, least) = {Phase(label, first, first + Radius)}
    BY <1>3 DEF Climb
  <2>5. Radius \in Nat /\ 2 <= Radius /\ Length \in Nat
    BY RadiusIs
  <2>6. OneWindow(Climb(label, rises, least), label)
    <3>1. first + Radius \in 1..Length /\ first < first + Radius
      <4>. HIDE DEF first
      <4>. QED  BY <2>3, <2>5
    <3>. HIDE DEF first
    <3>. QED  BY <2>3, <2>4, <3>1 DEF OneWindow, Phase
  <2>. QED  BY <2>2, <2>3, <2>4, <2>6
<1>. QED  BY <1>2, <1>3

LEMMA GrowthIs ==
  ASSUME StoryInv, Length >= 4
  PROVE  LET first == PlaceOfHighest(Rises(Total))
         IN /\ OneWindow(Growth, "growth")
            /\ Highest(Rises(Total)) >= (18 * Spread + 99) \div 100 =>
                 /\ first \in 1..Length /\ first + Radius <= Length
                 /\ Phase("growth", first, first + Radius) \in Growth
<1>. DEFINE least == (18 * Spread + 99) \div 100
            rises == Rises(Total)
<1>1. least \in Nat \ {0}
  BY RadiusIs
<1>2. Total \in [1..Length -> Cells] /\ Length \in Nat
  BY SeriesAreTyped
<1>3. /\ rises \in [1..Length -> Int]
      /\ \A i \in 1..Length :
           IF i + Radius <= Length THEN rises[i] = Rise(Total, i, i + Radius) ELSE rises[i] = 0
  BY <1>2, RisesAre
<1>4. \A k \in 1..Length : FrameOf(k) = k
  BY PlacesAre
<1>5. Growth = Climb("growth", rises, least)
  BY DEF Growth
<1>. HIDE DEF least, rises
<1>6. \A k \in 1..Length : rises[k] > 0 => FrameOf(k) + Radius <= Length
  BY <1>3, <1>4
<1>7. \A k \in 1..Length : FrameOf(k) \in 1..Length
  BY <1>4
<1>. DEFINE place == PlaceOfHighest(rises)
            first == FrameOf(place)
<1>8. /\ OneWindow(Climb("growth", rises, least), "growth")
      /\ Highest(rises) >= least =>
           /\ place \in 1..Length
           /\ first \in 1..Length /\ first + Radius <= Length
           /\ Phase("growth", first, first + Radius) \in Climb("growth", rises, least)
  BY <1>1, <1>2, <1>3, <1>6, <1>7, ClimbIs
<1>9. place \in 1..Length => first = place
  BY <1>4
<1>. QED  BY <1>5, <1>8, <1>9 DEF least, rises

LEMMA ChurnIs == ASSUME StoryInv, Length >= 4 PROVE OneWindow(Churn, "churn")
<1>. DEFINE n == Rows * Length
            gc(place) == Rises(Series("gc", RowOf(place)))
            rises == [place \in 1..n |-> gc(place)[FrameOf(place)]]
<1>1. n \in Nat /\ \A k \in 1..n : FrameOf(k) \in 1..Length /\ RowOf(k) \in 1..Rows
  BY PlacesAre DEF Places
<1>. HIDE DEF n
<1>2. ASSUME NEW k \in 1..n
      PROVE  /\ gc(k)[FrameOf(k)] \in Int
             /\ gc(k)[FrameOf(k)] > 0 => FrameOf(k) + Radius <= Length
  <2>1. Series("gc", RowOf(k)) \in [1..Length -> Cells]
    BY <1>1, SeriesAreTyped DEF Metrics
  <2>2. /\ gc(k) \in [1..Length -> Int]
        /\ \A i \in 1..Length : i + Radius <= Length \/ gc(k)[i] = 0
    BY <2>1, RisesAre
  <2>. HIDE DEF gc
  <2>. QED  BY <1>1, <2>2
<1>. HIDE DEF gc
<1>3. rises \in [1..n -> Int] /\ \A k \in 1..n : rises[k] > 0 => FrameOf(k) + Radius <= Length
  BY <1>2
<1>4. Churn = Climb("churn", rises, 1)
  BY DEF Churn, Places, gc, n
<1>. HIDE DEF rises
<1>5. OneWindow(Climb("churn", rises, 1), "churn")
  BY <1>1, <1>3, ClimbIs
<1>. QED  BY <1>4, <1>5

LEMMA HeapPressureIs == ASSUME StoryInv, Length >= 4 PROVE OneWindow(HeapPressure, "heap")
<1>. DEFINE ratios == Values("ratio")
            high == Percentile(ratios)
            places == {place \in Places : ratios[place] >= high}
<1>1. /\ Rows * Length \in Nat /\ ratios \in [1..Rows * Length -> Cells]
      /\ \A k \in Places : FrameOf(k) \in 1..Length
  BY PlacesAre, ValuesAreTyped DEF Metrics
<1>2. CASE Highest(ratios) = Absent
  BY <1>2 DEF HeapPressure, OneWindow
<1>3. CASE Highest(ratios) # Absent
  <2>1. high \in Nat /\ \E k \in 1..Rows * Length : ratios[k] = high
    <3>. HIDE DEF ratios
    <3>. QED  BY <1>1, <1>3, PercentileIs
  <2>2. places # {}
    <3>. HIDE DEF ratios, high
    <3>. QED  BY <2>1 DEF Places
  <2>3. places \in SUBSET Nat
    BY DEF Places
  <2>4. Min(places) \in places
    <3>. HIDE DEF places
    <3>. QED  BY <2>2, <2>3, MinOfNaturals
  <2>5. FrameOf(Min(places)) \in 1..Length
    BY <1>1, <2>4
  <2>6. HeapPressure = {Around("heap", FrameOf(Min(places)))}
    BY <1>3 DEF HeapPressure
  <2>. HIDE DEF places
  <2>. QED  BY <2>5, <2>6, AroundIsWindow
<1>. QED  BY <1>2, <1>3

LEMMA BurstIs ==
  ASSUME StoryInv, Length >= 4, NEW metric \in Metrics, NEW label
  PROVE  LET rates == Values(metric)
             place == PlaceOfHighest(rates)
         IN /\ OneWindow(Burst(label, metric), label)
            /\ Highest(rates) > 0 =>
                 /\ place \in Places /\ rates[place] = Highest(rates)
                 /\ Around(label, FrameOf(place)) \in Burst(label, metric)
<1>. DEFINE rates == Values(metric)
            place == PlaceOfHighest(rates)
<1>1. /\ Rows * Length \in Nat /\ rates \in [1..Rows * Length -> Int]
      /\ \A k \in Places : FrameOf(k) \in 1..Length
  BY PlacesAre, ValuesAreTyped DEF Cells, Absent
<1>. HIDE DEF rates
<1>2. Highest(rates) \in Int
  BY <1>1, HighestIs
<1>3. CASE Highest(rates) <= 0
  <2>1. Burst(label, metric) = {} /\ ~(Highest(rates) > 0)
    BY <1>2, <1>3 DEF Burst, rates
  <2>. QED  BY <2>1 DEF OneWindow, rates
<1>4. CASE ~(Highest(rates) <= 0)
  <2>1. Highest(rates) # Absent
    BY <1>2, <1>4 DEF Absent
  <2>2. place \in 1..Rows * Length /\ rates[place] = Highest(rates)
    BY <1>1, <2>1, HighestIs
  <2>3. FrameOf(place) \in 1..Length /\ place \in Places
    BY <1>1, <2>2 DEF Places
  <2>4. Burst(label, metric) = {Around(label, FrameOf(place))}
    BY <1>4 DEF Burst, rates
  <2>5. OneWindow(Burst(label, metric), label)
    BY <2>3, <2>4, AroundIsWindow
  <2>. QED  BY <2>2, <2>3, <2>4, <2>5 DEF rates
<1>. QED  BY <1>3, <1>4

LEMMA DropOffIs ==
  ASSUME StoryInv, Length >= 4
  PROVE  LET place == PlaceOfHighest(Falls)
         IN /\ Falls \in [1..Length -> Int]
            /\ OneWindow(DropOff, "drop")
            /\ 5 * Highest(Falls) >= Spread =>
                 /\ place \in 2..Length /\ Falls[place] = Highest(Falls)
                 /\ \A k \in 1..Length : Falls[k] = Highest(Falls) => place <= k
                 /\ Around("drop", place) \in DropOff
<1>. DEFINE place == PlaceOfHighest(Falls)
<1>1. Length \in Nat /\ Total \in [1..Length -> Int] /\ Spread \in Nat /\ 1 <= Spread
  BY SeriesAreTyped, RadiusIs DEF Cells, Absent
<1>2. Falls \in [1..Length -> Int] /\ Falls[1] = 0
  <2>1. ASSUME NEW i \in 1..Length, i # 1 PROVE Total[i - 1] - Total[i] \in Int
    <3>1. i - 1 \in 1..Length
      BY <1>1, <2>1
    <3>. QED  BY <1>1, <3>1
  <2>. QED  BY <1>1, <2>1 DEF Falls
<1>3. Highest(Falls) \in Int
  BY <1>1, <1>2, HighestIs
<1>4. CASE 5 * Highest(Falls) < Spread
  <2>1. DropOff = {} /\ ~(5 * Highest(Falls) >= Spread)
    BY <1>1, <1>3, <1>4 DEF DropOff
  <2>. QED  BY <1>2, <2>1 DEF OneWindow
<1>5. CASE ~(5 * Highest(Falls) < Spread)
  <2>1. Highest(Falls) # Absent /\ Highest(Falls) > 0
    BY <1>1, <1>3, <1>5 DEF Absent
  <2>2. /\ place \in 1..Length /\ Falls[place] = Highest(Falls)
        /\ \A k \in 1..Length : Falls[k] = Highest(Falls) => place <= k
    BY <1>1, <1>2, <2>1, HighestIs
  <2>3. DropOff = {Around("drop", place)}
    BY <1>5 DEF DropOff
  <2>4. OneWindow(DropOff, "drop")
    BY <2>2, <2>3, AroundIsWindow
  <2>. HIDE DEF place
  <2>5. place \in 2..Length
    BY <1>1, <1>2, <2>1, <2>2
  <2>. QED  BY <1>2, <2>2, <2>3, <2>4, <2>5 DEF place
<1>. QED  BY <1>4, <1>5

LEMMA PhasesAre ==
  ASSUME StoryInv, Length >= 4
  PROVE  /\ Pressure \subseteq Phases /\ Growth \subseteq Phases /\ DropOff \subseteq Phases
         /\ Burst("compilation", "jit") \subseteq Phases
         /\ \A x \in Phases : 1 <= x.start /\ x.end <= Length /\ x.start < x.end
         /\ \A x, y \in Phases : x.label = y.label => x = y
<1>. DEFINE loading == Burst("loading", "classes")
            compilation == Burst("compilation", "jit")
            found == Warmup \cup Pressure \cup Growth \cup HeapPressure \cup compilation
                       \cup loading \cup Churn \cup DropOff
<1>1. Length \in Nat
  BY RadiusIs
<1>2. /\ OneWindow(Warmup, "warmup") /\ OneWindow(Pressure, "peak") /\ OneWindow(Growth, "growth")
      /\ OneWindow(HeapPressure, "heap") /\ OneWindow(Churn, "churn") /\ OneWindow(DropOff, "drop")
      /\ OneWindow(compilation, "compilation") /\ OneWindow(loading, "loading")
  <2>1. OneWindow(compilation, "compilation") /\ OneWindow(loading, "loading")
    BY BurstIs DEF Metrics
  <2>. QED  BY <2>1, WarmupIs, PressureIs, GrowthIs, HeapPressureIs, ChurnIs, DropOffIs
<1>3. Phases = IF found = {} THEN FullRun ELSE found
  BY <1>1 DEF Phases
<1>. HIDE DEF loading, compilation
<1>4. \A x \in found : 1 <= x.start /\ x.end <= Length /\ x.start < x.end
  BY <1>1, <1>2 DEF OneWindow
<1>5. \A x, y \in found : x.label = y.label => x = y
  BY <1>2 DEF OneWindow
<1>6. CASE found = {}
  <2>1. Phases = {Phase("full", 1, Length)}
    BY <1>1, <1>3, <1>6 DEF FullRun
  <2>2. /\ \A x \in Phases : 1 <= x.start /\ x.end <= Length /\ x.start < x.end
        /\ \A x, y \in Phases : x.label = y.label => x = y
    BY <1>1, <2>1 DEF Phase
  <2>. QED  BY <1>6, <2>2 DEF compilation
<1>7. CASE found # {}
  <2>1. Phases = found
    BY <1>3, <1>7
  <2>. QED  BY <1>4, <1>5, <2>1 DEF compilation
<1>. QED  BY <1>6, <1>7

LEMMA StoryIsTyped == StoryInv => StoryTypeOK
<1>. SUFFICES ASSUME StoryInv PROVE StoryTypeOK
  OBVIOUS
<1>1. Length \in Nat
  BY SeriesAreTyped
<1>2. CASE Length >= 4
  BY <1>2, PhasesAre DEF StoryTypeOK, StoryInv
<1>3. CASE ~(Length >= 4)
  <2>1. Phases = FullRun
    BY <1>1, <1>3 DEF Phases
  <2>. QED  BY <1>1, <2>1 DEF FullRun, Phase, StoryTypeOK, StoryInv
<1>. QED  BY <1>2, <1>3

LEMMA ExtremesTold == StoryInv => ExtremesAreTold
<1>. SUFFICES ASSUME StoryInv, Length >= 4 PROVE ExtremesAreTold
  BY DEF ExtremesAreTold
<1>1. Length \in Nat /\ Total \in [1..Length -> Int] /\ Total \in [1..Length -> Cells]
  BY SeriesAreTyped DEF Cells, Absent
<1>2. ASSUME NEW i \in 1..Length, IsPresent(Total[i]), \A j \in 1..Length : Total[j] <= Total[i]
      PROVE  \E j \in 1..i : In("peak", j) /\ Total[j] = Total[i]
  <2>. DEFINE place == PlaceOfHighest(Total)
  <2>1. Highest(Total) = Total[i] /\ Highest(Total) # Absent
    <3>1. Total[i] \in Nat
      BY <1>1, <1>2 DEF IsPresent, Cells
    <3>2. /\ Highest(Total) \in Int /\ Total[i] <= Highest(Total)
          /\ Highest(Total) # Absent => \E k \in 1..Length : Total[k] = Highest(Total)
      BY <1>1, HighestIs
    <3>3. Highest(Total) # Absent
      BY <3>1, <3>2 DEF Absent
    <3>4. Highest(Total) <= Total[i]
      BY <1>2, <3>2, <3>3
    <3>. QED  BY <3>1, <3>2, <3>3, <3>4
  <2>2. place \in 1..Length /\ Total[place] = Total[i] /\ place <= i
    BY <1>1, <2>1, HighestIs
  <2>3. Around("peak", place) \in Phases
    BY <2>1, PressureIs, PhasesAre
  <2>. HIDE DEF place
  <2>4. In("peak", place)
    <3>1. /\ Around("peak", place).label = "peak"
          /\ Around("peak", place).start \in 1..place /\ Around("peak", place).end \in place..Length
      BY <2>2, AroundIs
    <3>2. Around("peak", place).start <= place /\ place <= Around("peak", place).end
      BY <3>1
    <3>. QED  BY <2>3, <3>1, <3>2 DEF In
  <2>. QED  BY <2>2, <2>4
<1>3. ASSUME NEW i \in 2..Length, 5 * Falls[i] >= Spread, \A j \in 1..Length : Falls[j] <= Falls[i]
      PROVE  \E j \in 2..i : In("drop", j - 1) /\ In("drop", j) /\ Falls[j] = Falls[i]
  <2>. DEFINE place == PlaceOfHighest(Falls)
  <2>1. /\ Falls \in [1..Length -> Int] /\ Spread \in Nat /\ 1 <= Spread
        /\ i \in 1..Length
    BY <1>1, DropOffIs, RadiusIs
  <2>2. Highest(Falls) = Falls[i]
    <3>1. /\ Highest(Falls) \in Int /\ Falls[i] <= Highest(Falls) /\ Falls[i] \in Int
          /\ Highest(Falls) # Absent => \E k \in 1..Length : Falls[k] = Highest(Falls)
      BY <1>1, <2>1, HighestIs
    <3>2. Highest(Falls) # Absent
      BY <1>3, <2>1, <3>1 DEF Absent
    <3>3. Highest(Falls) <= Falls[i]
      BY <1>3, <3>1, <3>2
    <3>. QED  BY <3>1, <3>3
  <2>3. /\ place \in 2..Length /\ Falls[place] = Falls[i]
        /\ \A k \in 1..Length : Falls[k] = Falls[i] => place <= k
        /\ Around("drop", place) \in DropOff
    BY <1>3, <2>2, DropOffIs
  <2>4. place \in 2..i
    <3>. HIDE DEF place
    <3>. QED  BY <2>1, <2>3
  <2>5. Around("drop", place) \in Phases
    BY <2>3, PhasesAre
  <2>. HIDE DEF place
  <2>6. /\ Around("drop", place).label = "drop"
        /\ Around("drop", place).start \in 1..place /\ Around("drop", place).end \in place..Length
        /\ Around("drop", place).start < place
    <3>1. place \in 1..Length /\ place > 1
      BY <1>1, <2>3
    <3>. QED  BY <3>1, AroundIs
  <2>7. /\ Around("drop", place).start <= place - 1 /\ place - 1 <= Around("drop", place).end
        /\ Around("drop", place).start <= place /\ place <= Around("drop", place).end
    BY <2>3, <2>6
  <2>8. In("drop", place - 1) /\ In("drop", place)
    BY <2>5, <2>6, <2>7 DEF In
  <2>. QED  BY <2>3, <2>4, <2>8
<1>4. ASSUME NEW i \in 1..Length, NEW row \in 1..Rows, frames[i].jit[row] > 0
      PROVE  \E j \in 1..Length, other \in 1..Rows :
               In("compilation", j) /\ frames[j].jit[other] >= frames[i].jit[row]
  <2>. DEFINE rates == Values("jit")
              place == PlaceOfHighest(rates)
              j == FrameOf(place)
              other == RowOf(place)
  <2>1. /\ Rows * Length \in Nat /\ rates \in [1..Rows * Length -> Int]
        /\ \A k \in Places : /\ rates[k] = frames[FrameOf(k)].jit[RowOf(k)]
                              /\ FrameOf(k) \in 1..Length /\ RowOf(k) \in 1..Rows
    BY PlacesAre, ValuesAreTyped DEF Metrics, Cells, Absent
  <2>2. PICK k \in Places : FrameOf(k) = i /\ RowOf(k) = row
    BY PlacesAre
  <2>3. rates[k] = frames[i].jit[row] /\ rates[k] \in Int
    BY <2>1, <2>2 DEF Places
  <2>4. rates[k] <= Highest(rates) /\ Highest(rates) \in Int
    <3>. HIDE DEF rates
    <3>. QED  BY <2>1, HighestIs DEF Places
  <2>5. Highest(rates) > 0
    <3>. HIDE DEF rates
    <3>. QED  BY <1>4, <2>3, <2>4
  <2>6. /\ place \in Places /\ rates[place] = Highest(rates)
        /\ Around("compilation", j) \in Burst("compilation", "jit")
    BY <2>5, BurstIs DEF Metrics
  <2>7. j \in 1..Length /\ other \in 1..Rows /\ frames[j].jit[other] = Highest(rates)
    <3>. HIDE DEF rates, place
    <3>. QED  BY <2>1, <2>6
  <2>8. Around("compilation", j) \in Phases
    BY <2>6, PhasesAre
  <2>9. frames[j].jit[other] >= frames[i].jit[row]
    <3>. HIDE DEF rates, j, other, place
    <3>. QED  BY <2>3, <2>4, <2>7
  <2>. HIDE DEF j, other
  <2>10. In("compilation", j)
    <3>1. /\ Around("compilation", j).label = "compilation"
          /\ Around("compilation", j).start \in 1..j /\ Around("compilation", j).end \in j..Length
      BY <2>7, AroundIs
    <3>2. Around("compilation", j).start <= j /\ j <= Around("compilation", j).end
      BY <3>1
    <3>. QED  BY <2>8, <3>1, <3>2 DEF In
  <2>. QED  BY <2>7, <2>9, <2>10
<1>. QED  BY <1>2, <1>3, <1>4 DEF ExtremesAreTold

LEMMA ClimbsTold == StoryInv => ClimbsAreTold
<1>. SUFFICES ASSUME StoryInv, Length >= 4, NEW i \in 1..Length - Radius,
                     100 * Rise(Total, i, i + Radius) >= 18 * Spread
              PROVE  \E x \in Phases : /\ x.label = "growth"
                                       /\ Rise(Total, x.start, x.end) >= Rise(Total, i, i + Radius)
  BY DEF ClimbsAreTold
<1>. DEFINE rises == Rises(Total)
            least == (18 * Spread + 99) \div 100
            first == PlaceOfHighest(rises)
<1>1. /\ Length \in Nat /\ Radius \in Nat /\ Spread \in Nat
      /\ Total \in [1..Length -> Cells] /\ i \in 1..Length /\ i + Radius <= Length
  BY SeriesAreTyped, RadiusIs
<1>2. /\ rises \in [1..Length -> Int]
      /\ \A k \in 1..Length : k + Radius <= Length => rises[k] = Rise(Total, k, k + Radius)
  BY <1>1, RisesAre
<1>3. rises[i] = Rise(Total, i, i + Radius) /\ rises[i] \in Int
  <2>. HIDE DEF rises
  <2>. QED  BY <1>1, <1>2
<1>4. rises[i] >= least
  <2>. DEFINE r == rises[i]
  <2>1. r \in Int /\ 100 * r >= 18 * Spread
    BY <1>3
  <2>. HIDE DEF r
  <2>2. r >= least
    BY <1>1, <2>1
  <2>. QED  BY <2>2 DEF r
<1>5. least \in Int
  BY <1>1
<1>. HIDE DEF least, rises
<1>6. rises[i] <= Highest(rises) /\ Highest(rises) \in Int
  BY <1>1, <1>2, HighestIs
<1>7. Highest(rises) >= least /\ least > 0
  <2>1. Highest(rises) >= least
    BY <1>3, <1>4, <1>5, <1>6
  <2>2. least > 0
    BY <1>1, RadiusIs DEF least
  <2>. QED  BY <2>1, <2>2
<1>8. /\ first \in 1..Length /\ first + Radius <= Length
      /\ Phase("growth", first, first + Radius) \in Phases
  <2>1. /\ first \in 1..Length /\ first + Radius <= Length
        /\ Phase("growth", first, first + Radius) \in Growth
    BY <1>7, GrowthIs DEF rises, least
  <2>. QED  BY <2>1, PhasesAre
<1>9. rises[first] = Highest(rises)
  <2>1. Highest(rises) # Absent
    BY <1>5, <1>6, <1>7 DEF Absent
  <2>. QED  BY <1>1, <1>2, <2>1, HighestIs
<1>. HIDE DEF first
<1>10. Rise(Total, first, first + Radius) = Highest(rises)
  BY <1>2, <1>8, <1>9
<1>11. /\ Phase("growth", first, first + Radius).label = "growth"
       /\ Phase("growth", first, first + Radius).start = first
       /\ Phase("growth", first, first + Radius).end = first + Radius
  BY DEF Phase
<1>12. Rise(Total, first, first + Radius) >= Rise(Total, i, i + Radius)
  BY <1>3, <1>6, <1>10
<1>. QED  BY <1>8, <1>11, <1>12

\* For any processes, readings and number of frames: the phases are windows of the
\* run with names of their own, and show its peak, its largest fall, the frame at
\* which the compiler was busiest and the steepest climb (detectPhases).
THEOREM TheStoryIsTold == StorySpec => []PhasesTellTheRun
<1>1. StoryInv => PhasesTellTheRun
  BY StoryIsTyped, ExtremesTold, ClimbsTold DEF PhasesTellTheRun
<1>. QED  BY <1>1, StoryInvHolds, PTL
=============================================================================
