----------------------------- MODULE Prediction -----------------------------
(***************************************************************************)
(* CheckpointEvaluator.Evaluate: after an ingest stored its samples, the   *)
(* request goroutine asks the private provider for every pending window    *)
(* and stores the answer in the run document.                              *)
(*                                                                         *)
(* The provider is external: it answers or fails.  Its answer may name     *)
(* another window than it was asked for: providers that schedule by        *)
(* relative progress name the elapsed seconds.  The run document is a      *)
(* parameter of the actions that read it; the module Backend composes them *)
(* with the store.  No configured window means that prediction is off.     *)
(***************************************************************************)
EXTENDS RunDoc, FiniteSetsExt

VARIABLES
  eval,      \* the evaluation each goroutine executes
  answers,   \* history: ready answers that name the window asked, up to 2
  named      \* history: windows named in answers to a request for another

predictionVars == <<eval, answers, named>>

EvalPcs == {"idle", "getRun", "predict", "storeReads", "storeWrites"}

Evaluation == [pc: EvalPcs, todo: SUBSET Windows,
               observed: Marks \cup {0}, status: Statuses,
               snapshot: [Marks -> Statuses]]

NoEvaluation == [pc |-> "idle", todo |-> {}, observed |-> 0, status |-> "none",
                 snapshot |-> [win \in Marks |-> "none"]]

PredictionTypeOK ==
  /\ eval \in [Workers -> Evaluation]
  /\ \A w \in Workers : eval[w].pc \notin {"idle", "getRun"} => eval[w].todo # {}
  /\ answers \in [Windows -> 0..2]
  /\ named \subseteq Observed

PredictionInit ==
  /\ eval = [w \in Workers |-> NoEvaluation]
  /\ answers = [win \in Windows |-> 0]
  /\ named = {}

Evaluating(w) == eval[w].pc # "idle"

\* PendingCheckpoints sorts: the windows are taken in ascending order.
Window(w) == Min(eval[w].todo)

\* Go on with the windows W that are left, or end the evaluation.
Proceed(w, W) ==
  eval' = [eval EXCEPT ![w] =
             IF W = {} THEN NoEvaluation
             ELSE [NoEvaluation EXCEPT !.pc = "predict", !.todo = W]]

----------------------------------------------------------------------------
\* Evaluate is called; without a window or a provider it returns at once.
EvaluateStarts(w) ==
  /\ ~Evaluating(w)
  /\ eval' = [eval EXCEPT ![w].pc = IF Windows = {} THEN "idle" ELSE "getRun"]
  /\ UNCHANGED <<answers, named>>

\* GetRun returned d: only runs that opted in are evaluated.
EvaluateReads(w, d) ==
  /\ eval[w].pc = "getRun"
  /\ Proceed(w, IF d.predictive THEN Pending(d) ELSE {})
  /\ UNCHANGED <<answers, named>>

EvaluateReadFails(w) ==
  /\ eval[w].pc = "getRun"
  /\ Proceed(w, {})
  /\ UNCHANGED <<answers, named>>

\* The answer of the provider, or the record that stands for its failure: it is
\* kept under the window it names.
Answers(w, win, status) ==
  /\ eval' = [eval EXCEPT ![w].pc = "storeReads",
                          ![w].observed = win, ![w].status = status]
  /\ answers' = IF win = Window(w) /\ status = "ready" /\ answers[win] < 2
                THEN [answers EXCEPT ![win] = @ + 1] ELSE answers
  /\ named' = IF win = Window(w) THEN named ELSE named \cup {win}

\* The provider is asked for the first window.  An answer that names no window,
\* and the fallback record of a failure, are of the window asked.
Predicts(w) ==
  /\ eval[w].pc = "predict"
  /\ \E win \in {Window(w)} \cup Observed, status \in {"ready", "fallback"} :
       Answers(w, win, status)

\* StorePredictionCheckpoint re-reads the checkpoints of the document ...
StoreCheckpointReads(w, d) ==
  /\ eval[w].pc = "storeReads"
  /\ eval' = [eval EXCEPT ![w].pc = "storeWrites", ![w].snapshot = d.checkpoints]
  /\ UNCHANGED <<answers, named>>

\* ... merges the new record into them, under the window of the answer ...
CheckpointsToStore(w) == Merged(eval[w].snapshot, eval[w].observed, eval[w].status)

\* ... and writes the list back; the evaluation goes on with the next window.
StoreCheckpointReturns(w) ==
  /\ eval[w].pc = "storeWrites"
  /\ Proceed(w, eval[w].todo \ {Window(w)})
  /\ UNCHANGED <<answers, named>>

\* A store that fails is logged and its window skipped.
StoreCheckpointFails(w) ==
  /\ eval[w].pc \in {"storeReads", "storeWrites"}
  /\ Proceed(w, eval[w].todo \ {Window(w)})
  /\ UNCHANGED <<answers, named>>

\* The goroutines of a restarted instance are gone.
EvaluationsLost(W) ==
  /\ eval' = [w \in Workers |-> IF w \in W THEN NoEvaluation ELSE eval[w]]
  /\ UNCHANGED <<answers, named>>
=============================================================================
