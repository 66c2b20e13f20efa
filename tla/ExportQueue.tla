---------------------------- MODULE ExportQueue ----------------------------
(***************************************************************************)
(* The BigQuery export scheduler of the backend, exportqueue.Scheduler:    *)
(* the set of run ids a backend process has scheduled, and the retry loop  *)
(* a request goroutine executes synchronously inside Scheduler.Run.        *)
(*                                                                         *)
(* The module is about the export of ONE run.  The scheduler keeps one     *)
(* mark per run id and nothing in it relates two runs.  Its scheduled set  *)
(* lives in process memory, so each backend instance has its own.          *)
(*                                                                         *)
(* The run document and the process document an attempt reads, and the     *)
(* failures of Firestore and BigQuery, are parameters of the actions: Next *)
(* lets them be anything, Backend passes the documents of its store.       *)
(***************************************************************************)
EXTENDS Domain, Naturals, Sequences

\* The sample lists a read of the run document may return.
CONSTANT SampleLists

ASSUME SampleListsAssumption == SampleLists \subseteq Seq(Samples)

VARIABLES
  scheduled,    \* Scheduler.scheduled: is the run id in the set of the instance
  call,         \* the call of Scheduler.Run each goroutine executes
  sampleRows,   \* rows of the samples table, identified by their InsertID
  processRows,  \* rows of the processes table, identified by their InsertID
  result        \* history: how the last call of each instance ended

exportVars == <<scheduled, call, sampleRows, processRows, result>>

\* The bound of the attempt loop.
MaxAttempts == 3

CallPcs == {"idle", "getRun", "getProcesses", "exportRun", "exportProcesses",
            "backoff"}

Call == [pc: CallPcs, attempt: 0..MaxAttempts - 1,
         samplesExported: BOOLEAN,
         samples: Seq(Samples), procs: SUBSET Procs]

\* Mutant: the calls start with the samples taken for exported.
NoCallSkipsSamples ==
  [pc |-> "idle", attempt |-> 0, samplesExported |-> TRUE,
   samples |-> <<>>, procs |-> {}]

NoCall == [pc |-> "idle", attempt |-> 0, samplesExported |-> FALSE,
           samples |-> <<>>, procs |-> {}]

Results == {"none", "exported", "skipped", "failed"}

\* What the retry loop looks at in a run document.
RunView == [exportToBigquery: BOOLEAN, finished: BOOLEAN, samples: SampleLists]

\* The InsertIDs of a sample list: the position in the list is hashed into the
\* id, so the same sample at another position is another row.
RowsOf(list) == {<<i, list[i]>> : i \in DOMAIN list}

Exporting(w) == call[w].pc # "idle"

ExportTypeOK ==
  /\ scheduled \in [Instances -> BOOLEAN]
  /\ call \in [Workers -> Call]
  /\ sampleRows \subseteq (Nat \X Samples)
  /\ processRows \subseteq Procs
  /\ result \in [Instances -> Results]

ExportInit ==
  /\ scheduled = [i \in Instances |-> FALSE]
  /\ call = [w \in Workers |-> NoCall]
  /\ sampleRows = {}
  /\ processRows = {}
  /\ result = [i \in Instances |-> "none"]

----------------------------------------------------------------------------
(***************************************************************************)
(* How a call ends.  exportRunWithRetries returning true leaves the run id *)
(* in the set, returning false makes Run clear it.                         *)
(***************************************************************************)
\* Mutant: the mark is cleared however the call ended.
ReturnTrueClearsMark(w, how) ==
  /\ call' = [call EXCEPT ![w] = NoCall]
  /\ scheduled' = [scheduled EXCEPT ![InstanceOf[w]] = FALSE]
  /\ result' = [result EXCEPT ![InstanceOf[w]] = how]

ReturnTrue(w, how) ==
  /\ call' = [call EXCEPT ![w] = NoCall]
  /\ result' = [result EXCEPT ![InstanceOf[w]] = how]
  /\ UNCHANGED scheduled

\* Mutant: Run does not clear the mark of a call that failed.
ReturnFalseKeepsMark(w) ==
  /\ call' = [call EXCEPT ![w] = NoCall]
  /\ result' = [result EXCEPT ![InstanceOf[w]] = "failed"]
  /\ UNCHANGED scheduled

ReturnFalse(w) ==
  /\ call' = [call EXCEPT ![w] = NoCall]
  /\ scheduled' = [scheduled EXCEPT ![InstanceOf[w]] = FALSE]
  /\ result' = [result EXCEPT ![InstanceOf[w]] = "failed"]

\* Mutant: attempts are not counted.
AttemptFailsForever(w) ==
  /\ call' = [call EXCEPT ![w].pc = "backoff"]
  /\ UNCHANGED <<scheduled, result>>

\* An attempt that fails is followed by a backoff, the last one ends the call.
AttemptFails(w) ==
  \/ /\ call[w].attempt + 1 < MaxAttempts
     /\ call' = [call EXCEPT ![w].pc = "backoff", ![w].attempt = @ + 1]
     /\ UNCHANGED <<scheduled, result>>
  \/ /\ call[w].attempt + 1 = MaxAttempts
     /\ ReturnFalse(w)

\* Go on to the process rows, or complete when there are none to insert.
AfterSamples(w, c) ==
  \/ /\ c.procs # {}
     /\ call' = [call EXCEPT ![w] = [c EXCEPT !.pc = "exportProcesses"]]
     /\ UNCHANGED <<scheduled, result>>
  \/ /\ c.procs = {}
     /\ ReturnTrue(w, "exported")

----------------------------------------------------------------------------
\* Mutant: the mark is taken without a look at the set.
RunMarksBlindly(w) ==
  /\ ~Exporting(w)
  /\ scheduled' = [scheduled EXCEPT ![InstanceOf[w]] = TRUE]
  /\ call' = [call EXCEPT ![w] = [NoCall EXCEPT !.pc = "getRun"]]
  /\ UNCHANGED <<sampleRows, processRows, result>>

\* Run, with the mark free: markScheduled takes it under the mutex.
RunMarks(w) ==
  /\ ~Exporting(w)
  /\ ~scheduled[InstanceOf[w]]
  /\ scheduled' = [scheduled EXCEPT ![InstanceOf[w]] = TRUE]
  /\ call' = [call EXCEPT ![w] = [NoCall EXCEPT !.pc = "getRun"]]
  /\ UNCHANGED <<sampleRows, processRows, result>>

\* Run, with the mark taken: the request is a duplicate and does nothing.
RunIsDuplicate(w) ==
  /\ ~Exporting(w)
  /\ scheduled[InstanceOf[w]]
  /\ UNCHANGED exportVars

\* Mutant: the loop does not check the run it read.
GetRunReturnsUnchecked(w, d) ==
  /\ call[w].pc = "getRun"
  /\ call' = [call EXCEPT ![w].pc = "getProcesses", ![w].samples = d.samples]
  /\ UNCHANGED <<scheduled, result, sampleRows, processRows>>

\* getRun returned the document d: the loop skips a run that did not opt in or
\* is not finished, and keeps the mark.
GetRunReturns(w, d) ==
  /\ call[w].pc = "getRun"
  /\ \/ /\ ~(d.exportToBigquery /\ d.finished)
        /\ ReturnTrue(w, "skipped")
     \/ /\ d.exportToBigquery /\ d.finished
        /\ call' = [call EXCEPT ![w].pc = "getProcesses",
                                ![w].samples = d.samples]
        /\ UNCHANGED <<scheduled, result>>
  /\ UNCHANGED <<sampleRows, processRows>>

GetRunFails(w) ==
  /\ call[w].pc = "getRun"
  /\ AttemptFails(w)
  /\ UNCHANGED <<sampleRows, processRows>>

\* Mutant: every attempt inserts the samples.
GetProcessesReturnsAfresh(w, P) ==
  LET c == [call[w] EXCEPT !.procs = P]
  IN
  /\ call[w].pc = "getProcesses"
  /\ \/ /\ c.samples = <<>> /\ P = {}
        /\ ReturnTrue(w, "skipped")
     \/ /\ c.samples # <<>>
        /\ call' = [call EXCEPT ![w] = [c EXCEPT !.pc = "exportRun"]]
        /\ UNCHANGED <<scheduled, result>>
     \/ /\ c.samples = <<>> /\ P # {}
        /\ AfterSamples(w, c)
  /\ UNCHANGED <<sampleRows, processRows>>

\* getProcesses returned the process map P.  An empty export is skipped, and
\* samples an earlier attempt of this call inserted are not inserted again.
GetProcessesReturns(w, P) ==
  LET c == [call[w] EXCEPT !.procs = P]
  IN
  /\ call[w].pc = "getProcesses"
  /\ \/ /\ c.samples = <<>> /\ P = {}
        /\ ReturnTrue(w, "skipped")
     \/ /\ c.samples # <<>> /\ ~c.samplesExported
        /\ call' = [call EXCEPT ![w] = [c EXCEPT !.pc = "exportRun"]]
        /\ UNCHANGED <<scheduled, result>>
     \/ /\ c.samples # <<>> /\ c.samplesExported
        /\ AfterSamples(w, c)
     \/ /\ c.samples = <<>> /\ P # {}
        /\ AfterSamples(w, c)
  /\ UNCHANGED <<sampleRows, processRows>>

GetProcessesFails(w) ==
  /\ call[w].pc = "getProcesses"
  /\ AttemptFails(w)
  /\ UNCHANGED <<sampleRows, processRows>>

\* ExportRun succeeded: every row is in the table.
ExportRunReturns(w) ==
  /\ call[w].pc = "exportRun"
  /\ sampleRows' = sampleRows \cup RowsOf(call[w].samples)
  /\ AfterSamples(w, [call[w] EXCEPT !.samplesExported = TRUE])
  /\ UNCHANGED processRows

\* ExportRun returned an error: any part of the rows may have been inserted.
ExportRunFails(w) ==
  /\ call[w].pc = "exportRun"
  /\ \E landed \in SUBSET RowsOf(call[w].samples) :
       sampleRows' = sampleRows \cup landed
  /\ AttemptFails(w)
  /\ UNCHANGED processRows

ExportProcessesReturns(w) ==
  /\ call[w].pc = "exportProcesses"
  /\ processRows' = processRows \cup call[w].procs
  /\ ReturnTrue(w, "exported")
  /\ UNCHANGED sampleRows

ExportProcessesFails(w) ==
  /\ call[w].pc = "exportProcesses"
  /\ \E landed \in SUBSET call[w].procs : processRows' = processRows \cup landed
  /\ AttemptFails(w)
  /\ UNCHANGED sampleRows

\* The backoff timer fires before the three minute context ends ...
BackoffElapses(w) ==
  /\ call[w].pc = "backoff"
  /\ call' = [call EXCEPT ![w].pc = "getRun"]
  /\ UNCHANGED <<scheduled, sampleRows, processRows, result>>

\* ... or the context ends first and the call gives up.
ContextDone(w) ==
  /\ call[w].pc = "backoff"
  /\ ReturnFalse(w)
  /\ UNCHANGED <<sampleRows, processRows>>

\* The instance is stopped or replaced: its goroutines and its memory are gone.
InstanceRestarts(i) ==
  /\ scheduled' = [scheduled EXCEPT ![i] = FALSE]
  /\ call' = [w \in Workers |-> IF InstanceOf[w] = i THEN NoCall ELSE call[w]]
  /\ result' = [result EXCEPT ![i] = "none"]
  /\ UNCHANGED <<sampleRows, processRows>>

----------------------------------------------------------------------------
\* One step of the call of a goroutine, with any documents and any failures.
CallStep(w) ==
  \/ \E d \in RunView : GetRunReturns(w, d)
  \/ GetRunFails(w)
  \/ \E P \in SUBSET Procs : GetProcessesReturns(w, P)
  \/ GetProcessesFails(w)
  \/ ExportRunReturns(w)
  \/ ExportRunFails(w)
  \/ ExportProcessesReturns(w)
  \/ ExportProcessesFails(w)
  \/ BackoffElapses(w)
  \/ ContextDone(w)

ExportNext ==
  \/ \E w \in Workers : RunMarks(w) \/ RunIsDuplicate(w) \/ CallStep(w)
  \/ \E i \in Instances : InstanceRestarts(i)

ExportSpec == ExportInit /\ [][ExportNext]_exportVars

----------------------------------------------------------------------------
\* A goroutine that is exporting holds the mark of its instance, and no two
\* goroutines of an instance export the run at the same time: markScheduled is
\* the only mutual exclusion around the BigQuery inserts.
OneExportPerInstance ==
  \A v, w \in Workers :
    Exporting(v) =>
      /\ scheduled[InstanceOf[v]]
      /\ (Exporting(w) /\ InstanceOf[v] = InstanceOf[w]) => v = w

\* A mark nobody is exporting under stands for a call that returned true: a
\* failed call never leaves the run id behind, so a later request can retry.
MarkIsAccountedFor ==
  \A i \in Instances :
    scheduled[i] => \/ \E w \in Workers : InstanceOf[w] = i /\ Exporting(w)
                    \/ result[i] \in {"exported", "skipped"}

\* Samples a call has inserted are not inserted again by its later attempts: a
\* retry after a failed insert of the process rows repeats only that insert.
SamplesInsertedOncePerCall ==
  [][\A w \in Workers :
       (call[w].samplesExported /\ Exporting(w)')
         => call'[w].samplesExported /\ call'[w].pc # "exportRun"]_exportVars

----------------------------------------------------------------------------
\* What an observer of the export sees of an instance: exporting while one of
\* its goroutines is in a call, settled when the mark is left behind.
PhaseOf(i) ==
  IF ~scheduled[i] THEN "free"
  ELSE IF \E w \in Workers : InstanceOf[w] = i /\ Exporting(w)
       THEN "exporting" ELSE "settled"

Mark == INSTANCE ExportMark
          WITH phase <- [i \in Instances |-> PhaseOf(i)],
               outcome <- result,
               rows <- [samples |-> sampleRows, processes |-> processRows]

\* The scheduler implements the promise of ExportMark: rows are inserted only
\* under a mark, a call that exported or skipped leaves its mark until the
\* process ends, and a call that failed leaves none.
ImplementsExportMark == Mark!MarkSpec
=============================================================================
