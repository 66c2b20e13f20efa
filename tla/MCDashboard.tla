---------------------------- MODULE MCDashboard ----------------------------
(***************************************************************************)
(* TLC instance of the dashboard.  Its parts share nothing the models keep *)
(* but the layout, so one of them is used in each behaviour: the others    *)
(* stay as they are.                                                       *)
(***************************************************************************)
EXTENDS Replay, Workspace, Studio, Compare

CONSTANTS fa, fb, none, r1, r2, r3

VARIABLE part

\* A file of three frames has phases that overlap, a short one has the full run.
ReplayFrames == [f \in {fa, fb} |-> IF f = fa THEN 2 ELSE 1]
ReplayPhases == [f \in {fa, fb} |-> IF f = fa THEN <<<<0, 1>>, <<1, 2>>>> ELSE <<<<0, 1>>>>]
CompareFrames == [f \in {fa, fb} |-> IF f = fa THEN 2 ELSE 1]

\* A panel that the layout covers and two that it shows; runs have more of them as
\* they go on.
ThreePanels == {"memory", "jit-time", "jit-rate"}
ThreePresets ==
  [id \in {"overview", "memory", "runtime"} |->
     CASE id = "overview" -> ThreePanels
       [] id = "memory" -> {"memory"}
       [] id = "runtime" -> {"jit-time", "jit-rate"}]
TwoPages == {{"memory", "jit-time"}, ThreePanels}

\* Each run lacks a metric that another one has.
FiveMetrics == <<"rss", "gc", "ratio", "jitTime", "jitRate">>
FourOverlays ==
  [id \in {"memory-gc", "memory-ratio", "jit-duo", "gc-jit"} |->
     CASE id = "memory-gc" -> [a |-> "rss", b |-> "gc"]
       [] id = "memory-ratio" -> [a |-> "rss", b |-> "ratio"]
       [] id = "jit-duo" -> [a |-> "jitTime", b |-> "jitRate"]
       [] id = "gc-jit" -> [a |-> "gc", b |-> "jitRate"]]
MetricsOfRuns ==
  [r \in {r1, r2, r3} |->
     CASE r = r1 -> {"rss", "gc"}
       [] r = r2 -> {"rss", "gc", "ratio"}
       [] r = r3 -> {"rss", "jitTime", "jitRate"}]

Init ==
  /\ part \in {"replay", "deck", "studio", "compare"}
  /\ ReplayInit /\ WorkspaceInit /\ StudioInit /\ CompareInit
  /\ deck.live => part = "deck"

ReplayStep ==
  /\ part = "replay" /\ ReplayNext
  /\ UNCHANGED <<part, workspaceVars, studioVars, compareVars>>
DeckStep ==
  /\ part = "deck" /\ WorkspaceNext
  /\ UNCHANGED <<part, replayVars, studioVars, compareVars>>
StudioStep ==
  /\ part = "studio" /\ StudioNext
  /\ UNCHANGED <<part, replayVars, workspaceVars, compareVars>>
CompareStep ==
  /\ part = "compare" /\ CompareNext
  /\ UNCHANGED <<part, replayVars, workspaceVars, studioVars>>

Next == ReplayStep \/ DeckStep \/ StudioStep \/ CompareStep

vars == <<part, replayVars, workspaceVars, studioVars, compareVars>>

\* Nothing is under way in a part that is not used: its fairness asks nothing.
FairSpec == Init /\ [][Next]_vars /\ ReplayFairness /\ CompareFairness
=============================================================================
