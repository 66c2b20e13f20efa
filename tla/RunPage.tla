------------------------------ MODULE RunPage ------------------------------
(***************************************************************************)
(* The page of a run that is under way: it loads the run, draws it and     *)
(* sets a timeout for the next load.  A new interval and the retry button  *)
(* load at once, also while a load is under way, and the answers arrive in *)
(* any order.  A checkpoint of the prediction is selected, and stays so    *)
(* over the loads that list it.                                            *)
(***************************************************************************)
EXTENDS Integers, FiniteSetsExt

CONSTANTS
  LoadIds,    \* bound on the loads under way at a time
  LastState,  \* states of the run count from 0; in the last it has finished
  Listed,     \* for each state, the checkpoints it lists ...
  ReadyOf,    \* ... and those among them that are ready
  NoWindow

ASSUME RunPageAssumption ==
  /\ LastState \in Nat /\ NoWindow \in Int
  /\ DOMAIN Listed = 0..LastState /\ DOMAIN ReadyOf = 0..LastState
  /\ \A s \in 0..LastState :
       /\ ReadyOf[s] \subseteq Listed[s] /\ Listed[s] \subseteq Nat \ {NoWindow}
       /\ IsFiniteSet(Listed[s])

VARIABLES
  run,       \* state of the run in the backend
  loads,     \* the loads: what is under way, and the state the backend answered
  refresh,   \* timeouts that are pending, and whether refreshTimer names one
  view,      \* the state drawn, or that the run is said to be unavailable
  selected   \* checkpoint that is selected

runPageVars == <<run, loads, refresh, view, selected>>

States == 0..LastState
NoLoad == [pc |-> "idle", state |-> 0]
Windows == UNION {Listed[s] : s \in States}

\* At most one timeout is pending, in whatever order the answers arrive: loads
\* that overlap do not multiply.
RunPageTypeOK ==
  /\ run \in States
  /\ loads \in [LoadIds -> [pc: {"idle", "sent", "answered"}, state: States]]
  /\ refresh \in [pending: 0..1, held: BOOLEAN]
  /\ view \in [shows: {"loading", "run", "unavailable"}, state: States]
  /\ selected \in Windows \cup {NoWindow}

RunPageInit ==
  /\ run = 0
  /\ loads = [[s \in LoadIds |-> NoLoad] EXCEPT ![CHOOSE s \in LoadIds : TRUE].pc = "sent"]
  /\ refresh = [pending |-> 0, held |-> FALSE]
  /\ view = [shows |-> "loading", state |-> 0]
  /\ selected = NoWindow

Finished(state) == state = LastState
ShowsLive == view.shows = "run" /\ ~Finished(view.state)

----------------------------------------------------------------------------
\* loadRunData sends the request.
Send(s) ==
  /\ loads[s].pc = "idle"
  /\ loads' = [loads EXCEPT ![s].pc = "sent"]

\* cancelRefresh: the timeout that refreshTimer names is cleared.
Cancelled(timers) ==
  [pending |-> timers.pending - IF timers.held THEN 1 ELSE 0, held |-> FALSE]

\* selectCheckpoint: the one selected before, if it is listed, or else the
\* latest that is ready, or the last.
SelectCheckpoint(state) ==
  IF selected \in Listed[state] THEN selected
  ELSE IF ReadyOf[state] # {} THEN Max(ReadyOf[state])
  ELSE IF Listed[state] # {} THEN Max(Listed[state])
  ELSE NoWindow

\* The backend reads the document.
Answer(s) ==
  /\ loads[s].pc = "sent"
  /\ loads' = [loads EXCEPT ![s] = [pc |-> "answered", state |-> run]]
  /\ UNCHANGED <<run, refresh, view, selected>>

\* Mutant: the timeout is not cleared before the next one is set.
DrawUncancelled(s) ==
  /\ loads[s].pc = "answered"
  /\ loads' = [loads EXCEPT ![s] = NoLoad]
  /\ view' = [shows |-> "run", state |-> loads[s].state]
  /\ selected' = SelectCheckpoint(loads[s].state)
  /\ refresh' = IF Finished(loads[s].state) THEN Cancelled(refresh)
                ELSE [pending |-> refresh.pending + 1, held |-> TRUE]
  /\ UNCHANGED run

\* The answer arrives; renderDashboard draws it.
Draw(s) ==
  /\ loads[s].pc = "answered"
  /\ loads' = [loads EXCEPT ![s] = NoLoad]
  /\ view' = [shows |-> "run", state |-> loads[s].state]
  /\ selected' = SelectCheckpoint(loads[s].state)
  /\ refresh' = IF Finished(loads[s].state) THEN Cancelled(refresh)
                ELSE [pending |-> Cancelled(refresh).pending + 1, held |-> TRUE]
  /\ UNCHANGED run

\* The load fails, or its answer is lost; a timeout that is pending remains.
Fail(s) ==
  /\ loads[s].pc # "idle"
  /\ loads' = [loads EXCEPT ![s] = NoLoad]
  /\ view' = [view EXCEPT !.shows = "unavailable"]
  /\ UNCHANGED <<run, refresh, selected>>

\* Mutant: the timeout fires once.
RefreshIdly(s) ==
  /\ refresh.pending > 0 /\ loads[s].pc = "idle"
  /\ refresh' = [pending |-> refresh.pending - 1, held |-> FALSE]
  /\ UNCHANGED <<run, loads, view, selected>>

\* The timeout fires.
Refresh(s) ==
  /\ refresh.pending > 0 /\ Send(s)
  /\ refresh' = [pending |-> refresh.pending - 1, held |-> FALSE]
  /\ UNCHANGED <<run, view, selected>>

\* Another interval is chosen, which a run under way lets one do.
SelectInterval(s) ==
  /\ ShowsLive /\ Send(s)
  /\ refresh' = Cancelled(refresh)
  /\ UNCHANGED <<run, view, selected>>

Retry(s) ==
  /\ view.shows = "unavailable" /\ Send(s)
  /\ UNCHANGED <<run, refresh, view, selected>>

\* A click on a checkpoint, in the panel or on the chart.
SelectWindow(w) ==
  /\ view.shows = "run" /\ w \in Listed[view.state]
  /\ selected' = w
  /\ UNCHANGED <<run, loads, refresh, view>>

\* Samples and checkpoints arrive, or the run finishes.
RunGoesOn ==
  /\ ~Finished(run) /\ run' = run + 1
  /\ UNCHANGED <<loads, refresh, view, selected>>

RunPageNext ==
  \/ \E s \in LoadIds : Answer(s) \/ Draw(s) \/ Fail(s) \/ Refresh(s) \/ SelectInterval(s) \/ Retry(s)
  \/ \E w \in Windows : SelectWindow(w)
  \/ RunGoesOn

RunPageSpec == RunPageInit /\ [][RunPageNext]_runPageVars

\* Requests are answered, timeouts fire and builds end.
RunPageFairness ==
  /\ \A s \in LoadIds : WF_runPageVars(Answer(s)) /\ WF_runPageVars(Draw(s))
  /\ WF_runPageVars(\E s \in LoadIds : Refresh(s))
  /\ WF_runPageVars(RunGoesOn)

----------------------------------------------------------------------------
\* A page that shows a run under way will show more of it: a load is under way or
\* a timeout is pending, also after loads that overlap and loads that fail.
KeepsPolling ==
  ShowsLive => refresh.pending > 0 \/ \E s \in LoadIds : loads[s].pc # "idle"

\* The checkpoint that is selected is one the page shows, also after an answer
\* that is older than the one on which it was selected.
SelectedIsListed ==
  view.shows = "run" => selected \in IF Listed[view.state] = {} THEN {NoWindow} ELSE Listed[view.state]

\* In the end a page that is not unavailable shows the run as it finished, also
\* if an older answer arrived after that one.
ShowsTheEnd == <>[](view.shows = "unavailable" \/ Finished(view.state))
\* The page of a run under way follows it: one timeout at most is pending, loads
\* go on, and what is selected is on the page.
PageFollowsRun == RunPageTypeOK /\ KeepsPolling /\ SelectedIsListed
=============================================================================
