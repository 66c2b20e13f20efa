------------------------------- MODULE RunDoc -------------------------------
(***************************************************************************)
(* The two Firestore documents of a run, runs/{runId} and                  *)
(* processes/{runId}, and what each storage operation makes of them.       *)
(*                                                                         *)
(* Timestamps are kept only as far as the handlers compare them: quiet     *)
(* says that updated_at is more than the five minute timeout in the past,  *)
(* expires that expire_at is set.  Every sample stands for the payload of  *)
(* one ingest request; its elapsed time is what prediction windows compare.*)
(***************************************************************************)
EXTENDS Domain, Naturals, Sequences, Functions

CONSTANTS
  Windows,   \* configured prediction checkpoints, in seconds
  Observed,  \* windows a provider may name in its answers, in seconds
  Elapsed    \* elapsed_time of a sample

ASSUME WindowsAssumption == Windows \subseteq Nat \ {0}
ASSUME ObservedAssumption == Observed \subseteq Nat \ {0}
ASSUME ElapsedAssumption == Elapsed \in [Samples -> Nat]

\* The windows a record may have.
Marks == Windows \cup Observed

\* A window has no record, a ready prediction, or a record that is not ready:
\* of a failure, or an answer with another status.
Statuses == {"none", "ready", "fallback"}

RunDocument ==
  [exists: BOOLEAN, samples: Seq(Samples),
   finished: BOOLEAN, expires: BOOLEAN, quiet: BOOLEAN,
   exportToBigquery: BOOLEAN, predictive: BOOLEAN,
   checkpoints: [Marks -> Statuses]]

ProcessDocument == [exists: BOOLEAN, info: SUBSET Procs]

NoRun ==
  [exists |-> FALSE, samples |-> <<>>,
   finished |-> FALSE, expires |-> FALSE, quiet |-> FALSE,
   exportToBigquery |-> FALSE, predictive |-> FALSE,
   checkpoints |-> [win \in Marks |-> "none"]]

NoProcesses == [exists |-> FALSE, info |-> {}]

\* Every write stamps updated_at with the present time.
Touched(d) == [d EXCEPT !.exists = TRUE, !.quiet = FALSE]

\* Mutant: the ingest puts the new payload first.
WithSampleFirst(d, s) == [Touched(d) EXCEPT !.samples = <<s>> \o @]

\* The whole document StoreSamples writes back for the document d it read.
WithSample(d, s) == [Touched(d) EXCEPT !.samples = Append(@, s)]

\* Mutants: the finished document has only the finish; has no expiry.
MarkedFinishedOnly(d) == [Touched(NoRun) EXCEPT !.finished = TRUE, !.expires = TRUE]
MarkedFinishedForever(d) == [Touched(d) EXCEPT !.finished = TRUE]

\* The whole document MarkRunAsFinished writes back for the document d.
MarkedFinished(d) == [Touched(d) EXCEPT !.finished = TRUE, !.expires = TRUE]

\* The merges of the opt-in flags touch no other field.
WithExportFlag(d) == [Touched(d) EXCEPT !.exportToBigquery = TRUE]
WithPredictiveFlag(d) == [Touched(d) EXCEPT !.predictive = TRUE]

\* MergePredictionCheckpoint: one record per window, the latest replaces.
Merged(checkpoints, win, status) == [checkpoints EXCEPT ![win] = status]

\* The merge of StorePredictionCheckpoint replaces the whole list field.
WithCheckpoints(d, checkpoints) == [Touched(d) EXCEPT !.checkpoints = checkpoints]

\* Mutant: the process replaces the others.
WithProcessAlone(d, p) == [d EXCEPT !.exists = TRUE, !.info = {p}]

\* StoreProcessInfo writes back the whole process document it read.
WithProcess(d, p) == [d EXCEPT !.exists = TRUE, !.info = @ \cup {p}]

\* A run viewers and the stale cleanup finish: not finished, no recent update.
IsStale(d) == d.exists /\ ~d.finished /\ d.quiet

\* Mutants: windows that are ready are pending; windows not reached are.
PendingAgain(d) ==
  {win \in Windows : \E s \in Range(d.samples) : Elapsed[s] >= win}
PendingEarly(d) == {win \in Windows : d.checkpoints[win] # "ready"}

\* PendingCheckpoints: configured windows some sample has reached and that are not ready.
Pending(d) ==
  {win \in Windows : /\ d.checkpoints[win] # "ready"
                     /\ \E s \in Range(d.samples) : Elapsed[s] >= win}

\* The document without the passing of time.
Content(d) == [d EXCEPT !.quiet = FALSE]
=============================================================================
