----------------------------- MODULE MCReports -----------------------------
(***************************************************************************)
(* TLC instance of what is shown of a run: of the reports, with a process  *)
(* with and one without jstat, four iterations, and gaps on both sides of  *)
(* two median intervals; of the build story, for six readings in any       *)
(* order; and of the page of a run under way.  A behaviour is about one of *)
(* them: they share nothing the models keep.                               *)
(***************************************************************************)
EXTENDS ReplayData, Story, RunPage

CONSTANTS p1, p2

VARIABLE part

\* The second process comes and goes; nothing at all is measured in the last.
SixReadings ==
  {[total |-> 10, ratio |-> <<5, -1>>, gc |-> <<0, -1>>, jit |-> <<0, -1>>, classes |-> <<0, -1>>],
   [total |-> 14, ratio |-> <<5, -1>>, gc |-> <<1, -1>>, jit |-> <<3, -1>>, classes |-> <<2, -1>>],
   [total |-> 40, ratio |-> <<7, 2>>, gc |-> <<1, 0>>, jit |-> <<0, -1>>, classes |-> <<0, -1>>],
   [total |-> 60, ratio |-> <<7, 8>>, gc |-> <<2, 4>>, jit |-> <<1, 3>>, classes |-> <<0, 5>>],
   [total |-> 9, ratio |-> <<-1, 8>>, gc |-> <<2, 4>>, jit |-> <<-1, 0>>, classes |-> <<-1, 0>>],
   [total |-> -1, ratio |-> <<-1, -1>>, gc |-> <<-1, -1>>, jit |-> <<-1, -1>>, classes |-> <<-1, -1>>]}

\* A run gets two checkpoints and finishes.
TwoListed == [s \in 0..3 |-> {w \in {60, 120} : 60 * s >= w}]
TwoReady == [s \in 0..3 |-> {w \in {60, 120} : 60 * s > w}]

\* No page is open: nothing is under way, and fairness asks for nothing.
NoRunPage ==
  /\ run = LastState /\ loads = [s \in LoadIds |-> NoLoad]
  /\ refresh = [pending |-> 0, held |-> FALSE]
  /\ view = [shows |-> "unavailable", state |-> 0] /\ selected = NoWindow

Init ==
  /\ part \in {"log", "story", "page"}
  /\ ReportsInit /\ StoryInit
  /\ IF part = "page" THEN RunPageInit ELSE NoRunPage

LogStep == part = "log" /\ ReportsNext /\ UNCHANGED <<part, frames, runPageVars>>
StoryStep == part = "story" /\ StoryNext /\ UNCHANGED <<part, log, runPageVars>>
PageStep == part = "page" /\ RunPageNext /\ UNCHANGED <<part, log, frames>>

Next == LogStep \/ StoryStep \/ PageStep

FairSpec == Init /\ [][Next]_<<part, log, frames, runPageVars>> /\ RunPageFairness
=============================================================================
