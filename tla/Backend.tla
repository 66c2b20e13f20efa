------------------------------ MODULE Backend ------------------------------
(***************************************************************************)
(* The backend: the request handlers of one run, running concurrently on   *)
(* several instances against one document store without transactions.      *)
(*                                                                         *)
(* Every storage operation that reads a document and writes it back is two *)
(* steps, with any other step in between.  StoreSamples, StoreProcessInfo  *)
(* and MarkRunAsFinished write back the whole document they read; the      *)
(* opt-in flags and the prediction checkpoints are merged field by field.  *)
(* The export and the evaluation a handler calls are the steps of          *)
(* ExportQueue and Prediction, on the documents of this store.             *)
(***************************************************************************)
EXTENDS RunDoc, ExportQueue, Prediction

CONSTANTS
  NoSample, NoProc,  \* an ingest without data, an ingest without process info
  Requests,          \* the kinds of request clients send
  Faults             \* what may fail

ASSUME MarkerAssumption == NoSample \notin Samples /\ NoProc \notin Procs
ASSUME RequestsAssumption ==
  Requests \subseteq {"auth", "ingest", "view", "finish", "sweep"}
ASSUME FaultsAssumption == Faults \subseteq {"firestore", "bigquery", "restart"}

VARIABLES
  doc,       \* the document runs/{runId}
  procDoc,   \* the document processes/{runId}
  req,       \* the request each goroutine serves
  posted,    \* history: payloads clients have sent; each is sent once
  stored,    \* history: payloads whose StoreSamples returned success
  storedProcs, \* history: process info whose StoreProcessInfo succeeded
  optedIn,   \* history: the export flag was persisted
  newly,     \* history: MarkRunAsFinished calls that returned true, up to 2
  owed,      \* history: payloads a completed export had to deliver
  raced      \* history: a document was overwritten from an outdated read

storeVars == <<doc, procDoc>>
historyVars == <<posted, stored, storedProcs, optedIn, newly, owed, raced>>
vars == <<storeVars, req, exportVars, predictionVars, historyVars>>

ReqPcs == {"idle", "authExport", "authPredictive",
           "procReads", "procWrites", "storeReads", "storeWrites", "evaluate",
           "markReads", "markWrites", "run", "export"}

Request ==
  [pc: ReqPcs, sample: Samples \cup {NoSample}, proc: Procs \cup {NoProc},
   predictive: BOOLEAN, run: RunDocument, processes: ProcessDocument,
   due: SUBSET Samples]

NoRequest ==
  [pc |-> "idle", sample |-> NoSample, proc |-> NoProc, predictive |-> FALSE,
   run |-> NoRun, processes |-> NoProcesses, due |-> {}]

TypeOK ==
  /\ ExportTypeOK
  /\ PredictionTypeOK
  /\ doc \in RunDocument
  /\ procDoc \in ProcessDocument
  /\ req \in [Workers -> Request]
  /\ posted \subseteq Samples /\ stored \subseteq Samples
  /\ storedProcs \subseteq Procs /\ owed \subseteq Samples
  /\ optedIn \in BOOLEAN /\ newly \in 0..2 /\ raced \in BOOLEAN

Init ==
  /\ ExportInit
  /\ PredictionInit
  /\ doc = NoRun
  /\ procDoc = NoProcesses
  /\ req = [w \in Workers |-> NoRequest]
  /\ posted = {} /\ stored = {} /\ storedProcs = {} /\ owed = {}
  /\ optedIn = FALSE /\ newly = 0 /\ raced = FALSE

At(w, pc) == req[w].pc = pc
Goto(w, pc) == req' = [req EXCEPT ![w].pc = pc]
Receive(w, kind, r) ==
  /\ At(w, "idle")
  /\ kind \in Requests
  /\ req' = [req EXCEPT ![w] = r]
Respond(w) == req' = [req EXCEPT ![w] = NoRequest]

Unreliable == "firestore" \in Faults

\* A failed write is not applied, or applied although the client sees an error.
WriteFails(d, written) == Unreliable /\ d' \in {d, written}

----------------------------------------------------------------------------
(***************************************************************************)
(* Auth: persist the opt-ins of the run, best effort, then issue a token.  *)
(***************************************************************************)
Auth(w) ==
  /\ \E predictive \in BOOLEAN, first \in {"authExport", "authPredictive"} :
       /\ first = "authPredictive" => predictive
       /\ Receive(w, "auth", [NoRequest EXCEPT !.pc = first, !.predictive = predictive])
  /\ UNCHANGED <<storeVars, exportVars, predictionVars, historyVars>>

AfterExportFlag(w) ==
  IF req[w].predictive THEN Goto(w, "authPredictive") ELSE Respond(w)

SetRunExportToBigquery(w) ==
  /\ At(w, "authExport")
  /\ AfterExportFlag(w)
  /\ \/ doc' = WithExportFlag(doc) /\ optedIn' = TRUE
     \/ WriteFails(doc, WithExportFlag(doc)) /\ UNCHANGED optedIn
  /\ UNCHANGED <<procDoc, exportVars, predictionVars>>
  /\ UNCHANGED <<posted, stored, storedProcs, newly, owed, raced>>

SetRunPredictiveReliability(w) ==
  /\ At(w, "authPredictive")
  /\ Respond(w)
  /\ \/ doc' = WithPredictiveFlag(doc)
     \/ WriteFails(doc, WithPredictiveFlag(doc))
  /\ UNCHANGED <<procDoc, exportVars, predictionVars, historyVars>>

----------------------------------------------------------------------------
(***************************************************************************)
(* Ingest: process info first, best effort, then the samples, then the     *)
(* evaluation of the prediction checkpoints.                               *)
(***************************************************************************)
Ingest(w) ==
  /\ \E s \in (Samples \ posted) \cup {NoSample}, p \in Procs \cup {NoProc} :
       /\ s # NoSample \/ p # NoProc
       /\ Receive(w, "ingest",
                  [NoRequest EXCEPT !.sample = s, !.proc = p,
                     !.pc = IF p = NoProc THEN "storeReads" ELSE "procReads"])
       /\ posted' = (posted \cup {s}) \ {NoSample}
  /\ UNCHANGED <<storeVars, exportVars, predictionVars>>
  /\ UNCHANGED <<stored, storedProcs, optedIn, newly, owed, raced>>

\* Mutant: an ingest without samples stores them all the same.
AfterProcessInfoStores(w) == Goto(w, "storeReads")

\* With the process info handled, stored or not, the samples follow if any.
AfterProcessInfo(w) ==
  IF req[w].sample = NoSample THEN Respond(w) ELSE Goto(w, "storeReads")

StoreProcessInfoReads(w) ==
  /\ At(w, "procReads")
  /\ \/ req' = [req EXCEPT ![w].pc = "procWrites", ![w].processes = procDoc]
     \/ Unreliable /\ AfterProcessInfo(w)
  /\ UNCHANGED <<storeVars, exportVars, predictionVars, historyVars>>

StoreProcessInfoWrites(w) ==
  LET written == WithProcess(req[w].processes, req[w].proc)
  IN
  /\ At(w, "procWrites")
  /\ AfterProcessInfo(w)
  /\ \/ procDoc' = written /\ storedProcs' = storedProcs \cup {req[w].proc}
     \/ WriteFails(procDoc, written) /\ UNCHANGED storedProcs
  /\ raced' = (raced \/ req[w].processes # procDoc)
  /\ UNCHANGED <<doc, exportVars, predictionVars>>
  /\ UNCHANGED <<posted, stored, optedIn, newly, owed>>

\* GetRun for the start time, then the read of StoreSamples.  Any other error
\* than a missing document ends the request with an error.
StoreSamplesReads(w) ==
  /\ At(w, "storeReads")
  /\ \/ req' = [req EXCEPT ![w].pc = "storeWrites", ![w].run = doc]
     \/ Unreliable /\ Respond(w)
  /\ UNCHANGED <<storeVars, exportVars, predictionVars, historyVars>>

StoreSamplesWrites(w) ==
  LET written == WithSample(req[w].run, req[w].sample)
  IN
  /\ At(w, "storeWrites")
  /\ \/ /\ doc' = written
        /\ stored' = stored \cup {req[w].sample}
        /\ EvaluateStarts(w)
        /\ IF eval'[w].pc = "idle" THEN Respond(w) ELSE Goto(w, "evaluate")
     \/ /\ WriteFails(doc, written)
        /\ Respond(w)
        /\ UNCHANGED <<stored, predictionVars>>
  /\ raced' = (raced \/ Content(req[w].run) # Content(doc))
  /\ UNCHANGED <<procDoc, exportVars>>
  /\ UNCHANGED <<posted, storedProcs, optedIn, newly, owed>>

\* The steps of Evaluate on the documents of the store.  The request is
\* answered when the evaluation has ended.
EvaluateContinues(w) ==
  IF eval'[w].pc = "idle" THEN Respond(w) ELSE UNCHANGED req

Evaluate(w) ==
  /\ At(w, "evaluate")
  /\ \/ doc.exists /\ EvaluateReads(w, doc)
     \/ Unreliable /\ EvaluateReadFails(w)
     \/ Predicts(w)
     \/ StoreCheckpointReads(w, doc)
     \/ Unreliable /\ eval[w].pc = "storeReads" /\ StoreCheckpointFails(w)
  /\ EvaluateContinues(w)
  /\ UNCHANGED <<storeVars, exportVars, historyVars>>

StorePredictionCheckpoint(w) ==
  LET written == WithCheckpoints(doc, CheckpointsToStore(w))
  IN
  /\ At(w, "evaluate") /\ eval[w].pc = "storeWrites"
  /\ \/ doc' = written /\ StoreCheckpointReturns(w)
     \/ WriteFails(doc, written) /\ StoreCheckpointFails(w)
  /\ EvaluateContinues(w)
  /\ raced' = (raced \/ eval[w].snapshot # doc.checkpoints)
  /\ UNCHANGED <<procDoc, exportVars>>
  /\ UNCHANGED <<posted, stored, storedProcs, optedIn, newly, owed>>

----------------------------------------------------------------------------
(***************************************************************************)
(* Finishing a run.  FinishRun asks for it; GetRun and the stale cleanup   *)
(* decide on it from a document they read before MarkRunAsFinished reads   *)
(* it again.  All three export the run when it was newly finished.         *)
(***************************************************************************)
Marking == [NoRequest EXCEPT !.pc = "markReads"]

FinishRun(w) ==
  /\ Receive(w, "finish", Marking)
  /\ UNCHANGED <<storeVars, exportVars, predictionVars, historyVars>>

\* A viewer of a run that is not stale gets its answer and changes nothing.
GetRun(w) ==
  /\ IsStale(doc)
  /\ Receive(w, "view", Marking)
  /\ UNCHANGED <<storeVars, exportVars, predictionVars, historyVars>>

\* FindStaleRuns lists the run; its turn in the loop comes later.
HandleManualStaleCleanup(w) ==
  /\ IsStale(doc)
  /\ Receive(w, "sweep", Marking)
  /\ UNCHANGED <<storeVars, exportVars, predictionVars, historyVars>>

MarkRunAsFinishedReads(w) ==
  /\ At(w, "markReads")
  /\ \/ ~doc.finished /\ req' = [req EXCEPT ![w].pc = "markWrites", ![w].run = doc]
     \/ doc.finished /\ Respond(w)
     \/ Unreliable /\ Respond(w)
  /\ UNCHANGED <<storeVars, exportVars, predictionVars, historyVars>>

\* On success the call returns newlyFinished; what was stored until then is
\* due to the export, if the document asks for one.
MarkRunAsFinishedWrites(w) ==
  LET written == MarkedFinished(req[w].run)
      due == IF written.exportToBigquery THEN stored ELSE {}
  IN
  /\ At(w, "markWrites")
  /\ \/ /\ doc' = written
        /\ newly' = IF newly < 2 THEN newly + 1 ELSE 2
        /\ req' = [req EXCEPT ![w] = [NoRequest EXCEPT !.pc = "run", !.due = due]]
     \/ /\ WriteFails(doc, written)
        /\ Respond(w)
        /\ UNCHANGED newly
  /\ raced' = (raced \/ Content(req[w].run) # Content(doc))
  /\ UNCHANGED <<procDoc, exportVars, predictionVars>>
  /\ UNCHANGED <<posted, stored, storedProcs, optedIn, owed>>

\* Scheduler.Run: take the mark, or leave because the run has one already.
ExportRuns(w) ==
  /\ At(w, "run")
  /\ \/ RunMarks(w) /\ Goto(w, "export") /\ UNCHANGED owed
     \/ RunIsDuplicate(w) /\ Respond(w) /\ owed' = owed \cup req[w].due
  /\ UNCHANGED <<storeVars, predictionVars>>
  /\ UNCHANGED <<posted, stored, storedProcs, optedIn, newly, raced>>

\* The retry loop reads the documents of the store.  Get returns an error for a
\* document that does not exist, and neither getter turns it into an empty one.
ExportReads(w) ==
  \/ doc.exists /\ GetRunReturns(w, doc)
  \/ (Unreliable \/ ~doc.exists) /\ GetRunFails(w)
  \/ procDoc.exists /\ GetProcessesReturns(w, procDoc.info)
  \/ (Unreliable \/ ~procDoc.exists) /\ GetProcessesFails(w)

ExportInserts(w) ==
  \/ ExportRunReturns(w)
  \/ "bigquery" \in Faults /\ ExportRunFails(w)
  \/ ExportProcessesReturns(w)
  \/ "bigquery" \in Faults /\ ExportProcessesFails(w)

ExportWaits(w) ==
  \/ BackoffElapses(w)
  \/ Faults # {} /\ ContextDone(w)

\* The handler answers when the call of Run has returned.
Export(w) ==
  /\ At(w, "export")
  /\ ExportReads(w) \/ ExportInserts(w) \/ ExportWaits(w)
  /\ IF call'[w].pc = "idle" THEN Respond(w) ELSE UNCHANGED req
  /\ owed' = IF call'[w].pc = "idle" /\ scheduled'[InstanceOf[w]]
             THEN owed \cup req[w].due ELSE owed
  /\ UNCHANGED <<storeVars, predictionVars>>
  /\ UNCHANGED <<posted, stored, storedProcs, optedIn, newly, raced>>

----------------------------------------------------------------------------
\* Five minutes pass without an update of the run.
TimeoutElapses ==
  /\ doc.exists /\ ~doc.quiet
  /\ doc' = [doc EXCEPT !.quiet = TRUE]
  /\ UNCHANGED <<procDoc, req, exportVars, predictionVars, historyVars>>

\* An instance is stopped or replaced with its requests and its memory.
Restart(i) ==
  LET W == {w \in Workers : InstanceOf[w] = i}
  IN
  /\ "restart" \in Faults
  /\ InstanceRestarts(i)
  /\ EvaluationsLost(W)
  /\ req' = [w \in Workers |-> IF w \in W THEN NoRequest ELSE req[w]]
  /\ UNCHANGED <<storeVars, historyVars>>

Arrives(w) ==
  Auth(w) \/ Ingest(w) \/ FinishRun(w) \/ GetRun(w) \/ HandleManualStaleCleanup(w)

Serves(w) ==
  \/ SetRunExportToBigquery(w)
  \/ SetRunPredictiveReliability(w)
  \/ StoreProcessInfoReads(w)
  \/ StoreProcessInfoWrites(w)
  \/ StoreSamplesReads(w)
  \/ StoreSamplesWrites(w)
  \/ Evaluate(w)
  \/ StorePredictionCheckpoint(w)
  \/ MarkRunAsFinishedReads(w)
  \/ MarkRunAsFinishedWrites(w)
  \/ ExportRuns(w)
  \/ Export(w)

Next ==
  \/ \E w \in Workers : Arrives(w) \/ Serves(w)
  \/ TimeoutElapses
  \/ \E i \in Instances : Restart(i)

Spec == Init /\ [][Next]_vars

\* A goroutine that serves a request is scheduled, its calls of Firestore,
\* BigQuery and the provider return or fail, and the backoff is a timer.
FairSpec == Spec /\ \A w \in Workers : WF_vars(Serves(w))

----------------------------------------------------------------------------
(***************************************************************************)
(* Safety.  Most of it depends on raced: the store has no transactions, so *)
(* a document written back from an outdated read loses what was written in *)
(* between.  The invariants say that nothing else loses it.                *)
(***************************************************************************)
Delivered == {row[2] : row \in sampleRows}

\* No stored payload, process info, finish or opt-in is lost, whatever is written
\* later, and one caller is told that it finished the run, so one exports it.
UpdatesKept ==
  ~raced =>
    /\ stored \subseteq Range(doc.samples)
    /\ storedProcs \subseteq procDoc.info
    /\ optedIn => doc.exportToBigquery
    /\ newly > 0 => doc.finished
    /\ newly <= 1

\* What was stored before the run was finished is in BigQuery once the export
\* of that finish has returned true, and also when it was refused as a
\* duplicate of another one.
ExportDelivers == ~raced => owed \subseteq Delivered

\* Attempts, partial inserts and late samples never give a sample two rows:
\* its InsertID, which contains its position in the list, does not change.
OneRowPerSample ==
  ~raced => \A r, q \in sampleRows : r[2] = q[2] => r = q

\* expire_at is set exactly on finished runs, so that the TTL policy neither
\* deletes a run that is still monitored nor forgets a finished one.  This
\* survives even the lost updates, which revert both fields together.
ExpiryFollowsFinish == doc.finished <=> doc.expires

\* Only runs that are finished and opted in reach BigQuery, although the
\* documents are read again in each attempt.
ExportedRunsOptedIn ==
  [][(sampleRows' # sampleRows \/ processRows' # processRows)
       => raced \/ (doc.finished /\ doc.exportToBigquery)]_vars

----------------------------------------------------------------------------
(***************************************************************************)
(* One request at a time.  With a single goroutine no document is written  *)
(* from an outdated read, and the properties above hold without a premise. *)
(***************************************************************************)
\* No write is from an outdated read.  A window the provider never named in an
\* answer for another one is answered ready once, so that a stored prediction is
\* not asked for again, and it gets a record only when it is configured and a
\* payload of the run has reached it, in whatever order payloads come.
ServedInTurn ==
  /\ ~raced
  /\ \A win \in Marks \ named :
       /\ win \in Windows => answers[win] <= 1
       /\ doc.checkpoints[win] # "none"
            => win \in Windows /\ \E s \in posted : Elapsed[s] >= win

\* A window that has a ready prediction keeps it, unless the provider named it
\* in an answer for another window: the windows to ask for are listed once per
\* ingest, before its answers are stored, yet a later failure does not replace a
\* prediction, and neither ingest nor finish drops it.
ReadyIsKept ==
  [][\A win \in Marks \ named :
       doc.checkpoints[win] = "ready" => doc'.checkpoints[win] = "ready"]_vars

----------------------------------------------------------------------------
(***************************************************************************)
(* What the repository says of the storage operations and the code does    *)
(* not keep when requests overlap.                                         *)
(***************************************************************************)

\* StoreSamples appends: it drops no sample and does not reopen the run.
StoreSamplesAppends ==
  [][stored' # stored
       => /\ Range(doc.samples) \subseteq Range(doc'.samples)
          /\ doc.finished => doc'.finished]_vars

----------------------------------------------------------------------------
(***************************************************************************)
(* Liveness                                                                *)
(***************************************************************************)

\* Every request is answered, also when all attempts of its export fail.
EveryRequestAnswered == \A w \in Workers : ~At(w, "idle") ~> At(w, "idle")

\* A payload that was stored when its opted-in run was finished reaches
\* BigQuery, if the run has process info and nothing fails.
FinishedRunIsExported ==
  \A s \in Samples :
    (\E w \in Workers : At(w, "run") /\ s \in req[w].due /\ procDoc.exists)
      ~> (raced \/ s \in Delivered)
=============================================================================
