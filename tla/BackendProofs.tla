--------------------------- MODULE BackendProofs ---------------------------
(***************************************************************************)
(* Proofs about the backend, for any number of instances, goroutines,      *)
(* payloads, processes and prediction windows, and any failures.           *)
(*                                                                         *)
(* The argument, in the order of the file.  A storage operation keeps what *)
(* the document it has read says; what it has read is what the store says, *)
(* or the write is recorded as a race.  So nothing is lost without a race  *)
(* (FullInv), and the list of samples grows at its end only: what a call   *)
(* of the export has read is a prefix of it, and a sample has the row of   *)
(* its position (SamplesInv, RowsInv).  One finish is told that it is the  *)
(* first, before any mark was taken, so what is due to it goes from the    *)
(* document to its call and to the table (DueInv).  With one request at a  *)
(* time there is no race at all, and an answer of the provider is stored   *)
(* before another evaluation looks for it (SerialInv).                     *)
(***************************************************************************)
EXTENDS Backend, ExportQueueProofs, Extremes

\* The constants declared here, as one fact to cite.
LEMMA ConstantFacts ==
  /\ InstanceOf \in [Workers -> Instances]
  /\ NoSample \notin Samples /\ NoProc \notin Procs
  /\ Windows \subseteq Nat \ {0} /\ Observed \subseteq Nat \ {0}
  /\ Elapsed \in [Samples -> Nat]
BY InstanceAssumption, MarkerAssumption, WindowsAssumption, ObservedAssumption,
   ElapsedAssumption

----------------------------------------------------------------------------
\* What the storage operations return is a document.
LEMMA DocumentTypes ==
  /\ NoRun \in RunDocument /\ NoProcesses \in ProcessDocument
  /\ \A d \in RunDocument :
       /\ WithExportFlag(d) \in RunDocument
       /\ WithPredictiveFlag(d) \in RunDocument
       /\ MarkedFinished(d) \in RunDocument
       /\ [d EXCEPT !.quiet = TRUE] \in RunDocument
       /\ \A s \in Samples : WithSample(d, s) \in RunDocument
       /\ \A c \in [Marks -> Statuses] : WithCheckpoints(d, c) \in RunDocument
  /\ \A d \in ProcessDocument, p \in Procs : WithProcess(d, p) \in ProcessDocument
<1>1. NoRun \in RunDocument /\ NoProcesses \in ProcessDocument
  <2>1. <<>> \in Seq(Samples)
    OBVIOUS
  <2> QED
    BY <2>1 DEF NoRun, RunDocument, Statuses, NoProcesses, ProcessDocument
<1>2. ASSUME NEW d \in RunDocument
      PROVE  /\ WithExportFlag(d) \in RunDocument
             /\ WithPredictiveFlag(d) \in RunDocument
             /\ MarkedFinished(d) \in RunDocument
             /\ [d EXCEPT !.quiet = TRUE] \in RunDocument
  BY DEF RunDocument, WithExportFlag, WithPredictiveFlag, MarkedFinished, Touched
<1>3. ASSUME NEW d \in RunDocument, NEW s \in Samples
      PROVE  WithSample(d, s) \in RunDocument
  <2>1. Append(d.samples, s) \in Seq(Samples)
    BY DEF RunDocument
  <2> QED
    BY <2>1 DEF RunDocument, WithSample, Touched
<1>4. ASSUME NEW d \in RunDocument, NEW c \in [Marks -> Statuses]
      PROVE  WithCheckpoints(d, c) \in RunDocument
  BY DEF RunDocument, WithCheckpoints, Touched
<1>5. ASSUME NEW d \in ProcessDocument, NEW p \in Procs
      PROVE  WithProcess(d, p) \in ProcessDocument
  BY DEF ProcessDocument, WithProcess
<1> QED
  BY <1>1, <1>2, <1>3, <1>4, <1>5

(***************************************************************************)
(* d keeps everything the document c says about the run.                   *)
(***************************************************************************)
Keeps(c, d) ==
  /\ Range(c.samples) \subseteq Range(d.samples)
  /\ c.finished => d.finished
  /\ c.exportToBigquery => d.exportToBigquery

\* Each storage operation keeps what the document it starts from says.
LEMMA OperationsKeep ==
  ASSUME NEW d \in RunDocument
  PROVE  /\ Keeps(d, d)
         /\ Keeps(d, [d EXCEPT !.quiet = TRUE])
         /\ Keeps(d, WithExportFlag(d)) /\ WithExportFlag(d).exportToBigquery
         /\ Keeps(d, WithPredictiveFlag(d))
         /\ Keeps(d, MarkedFinished(d)) /\ MarkedFinished(d).finished
         /\ \A c : Keeps(d, WithCheckpoints(d, c))
         /\ \A s \in Samples : /\ Keeps(d, WithSample(d, s))
                               /\ s \in Range(WithSample(d, s).samples)
<1>1. /\ Keeps(d, d)
      /\ Keeps(d, [d EXCEPT !.quiet = TRUE])
      /\ Keeps(d, WithExportFlag(d)) /\ WithExportFlag(d).exportToBigquery
      /\ Keeps(d, WithPredictiveFlag(d))
      /\ Keeps(d, MarkedFinished(d)) /\ MarkedFinished(d).finished
      /\ \A c : Keeps(d, WithCheckpoints(d, c))
  BY DEF Keeps, RunDocument, WithExportFlag, WithPredictiveFlag,
         MarkedFinished, WithCheckpoints, Touched
<1>2. ASSUME NEW s \in Samples
      PROVE  /\ Keeps(d, WithSample(d, s))
             /\ s \in Range(WithSample(d, s).samples)
  <2> DEFINE l == d.samples
             m == Append(l, s)
  <2>1. WithSample(d, s).samples = m /\ l \in Seq(Samples)
    BY DEF RunDocument, WithSample, Touched
  <2>2. /\ DOMAIN l \subseteq DOMAIN m /\ \A i \in DOMAIN l : m[i] = l[i]
        /\ Len(l) + 1 \in DOMAIN m /\ m[Len(l) + 1] = s
    BY <2>1
  <2>3. Range(l) \subseteq Range(m) /\ s \in Range(m)
    BY <2>2 DEF Range
  <2> QED
    BY <2>1, <2>3 DEF Keeps, RunDocument, WithSample, Touched
<1> QED
  BY <1>1, <1>2

\* A document with the content of d keeps what d says.
LEMMA SameContent ==
  ASSUME NEW c \in RunDocument, NEW d \in RunDocument, Content(c) = Content(d)
  PROVE  /\ c.samples = d.samples /\ c.finished = d.finished
         /\ c.exportToBigquery = d.exportToBigquery
         /\ c.checkpoints = d.checkpoints /\ c.predictive = d.predictive
BY DEF Content, RunDocument

----------------------------------------------------------------------------
(***************************************************************************)
(* Type correctness, one part at a time.                                   *)
(***************************************************************************)

LEMMA NoEvaluationType == NoEvaluation \in Evaluation
BY DEF NoEvaluation, Evaluation, EvalPcs, Statuses

LEMMA NoRequestType == NoRequest \in Request
BY DocumentTypes DEF NoRequest, Request, ReqPcs

\* What is known of an evaluation.
EvaluationOK(e) ==
  e \in Evaluation /\ (e.pc \notin {"idle", "getRun"} => e.todo # {})

LEMMA EvaluationsOK ==
  PredictionTypeOK => \A w \in Workers : EvaluationOK(eval[w])
BY DEF PredictionTypeOK, EvaluationOK

LEMMA EvaluationChanges ==
  ASSUME PredictionTypeOK, NEW w \in Workers, NEW e, EvaluationOK(e),
         eval' = [eval EXCEPT ![w] = e],
         answers' \in [Windows -> 0..2], named' \subseteq Observed
  PROVE  PredictionTypeOK'
BY DEF PredictionTypeOK, EvaluationOK

\* The window an evaluation is at is one of those it has left.
LEMMA WindowIsLeft ==
  ASSUME PredictionTypeOK, NEW w \in Workers, eval[w].todo # {}
  PROVE  Window(w) \in eval[w].todo /\ Window(w) \in Windows
<1>1. eval[w].todo \subseteq Windows
  BY EvaluationsOK DEF EvaluationOK, Evaluation
<1>2. eval[w].todo \in SUBSET Nat
  BY <1>1, ConstantFacts
<1> QED
  BY <1>1, <1>2, MinOfNaturals DEF Window

\* Going on with any windows, or ending, leaves an evaluation.
LEMMA ProceedType ==
  ASSUME PredictionTypeOK, NEW w \in Workers, NEW W \in SUBSET Windows,
         Proceed(w, W), UNCHANGED <<answers, named>>
  PROVE  PredictionTypeOK'
<1> DEFINE e == IF W = {} THEN NoEvaluation
                ELSE [NoEvaluation EXCEPT !.pc = "predict", !.todo = W]
<1>1. [NoEvaluation EXCEPT !.pc = "predict", !.todo = W] \in Evaluation
  BY NoEvaluationType DEF Evaluation, EvalPcs
<1>2. [NoEvaluation EXCEPT !.pc = "predict", !.todo = W].todo = W
  BY NoEvaluationType DEF Evaluation
<1>3. EvaluationOK(e)
  BY <1>1, <1>2, NoEvaluationType DEF EvaluationOK, NoEvaluation
<1>4. eval' = [eval EXCEPT ![w] = e]
  BY DEF Proceed
<1>5. answers' \in [Windows -> 0..2] /\ named' \subseteq Observed
  BY DEF PredictionTypeOK
<1> HIDE DEF e
<1> QED
  BY <1>3, <1>4, <1>5, EvaluationChanges

\* The steps of an evaluation keep its type.
LEMMA PredictionStepType ==
  ASSUME PredictionTypeOK, NEW w \in Workers, NEW d \in RunDocument,
         \/ EvaluateStarts(w) \/ EvaluateReads(w, d) \/ EvaluateReadFails(w)
         \/ Predicts(w) \/ StoreCheckpointReads(w, d)
         \/ StoreCheckpointReturns(w) \/ StoreCheckpointFails(w)
  PROVE  PredictionTypeOK'
<1>t. eval[w] \in Evaluation /\ EvaluationOK(eval[w]) /\ eval \in [Workers -> Evaluation]
      /\ answers \in [Windows -> 0..2] /\ named \subseteq Observed
  BY EvaluationsOK DEF PredictionTypeOK
<1>a. ASSUME NEW e, EvaluationOK(e), eval' = [eval EXCEPT ![w] = e],
             UNCHANGED <<answers, named>>
      PROVE  PredictionTypeOK'
  BY <1>a, <1>t, EvaluationChanges
<1>1. CASE EvaluateStarts(w)
  <2> DEFINE e == [eval[w] EXCEPT !.pc = IF Windows = {} THEN "idle" ELSE "getRun"]
  <2>1. EvaluationOK(e)
    BY <1>t DEF Evaluation, EvalPcs, EvaluationOK
  <2>2. eval' = [eval EXCEPT ![w] = e] /\ UNCHANGED <<answers, named>>
    BY <1>1, <1>t DEF EvaluateStarts
  <2> HIDE DEF e
  <2> QED
    BY <2>1, <2>2, <1>a
<1>2. CASE EvaluateReads(w, d)
  <2>1. (IF d.predictive THEN Pending(d) ELSE {}) \in SUBSET Windows
    BY DEF Pending
  <2> QED
    BY <1>2, <2>1, ProceedType DEF EvaluateReads
<1>3. CASE EvaluateReadFails(w)
  BY <1>3, ProceedType DEF EvaluateReadFails
<1>4. CASE Predicts(w)
  <2>1. PICK win \in {Window(w)} \cup Observed, st \in {"ready", "fallback"} : Answers(w, win, st)
    BY <1>4 DEF Predicts
  <2> DEFINE e == [eval[w] EXCEPT !.pc = "storeReads", !.observed = win, !.status = st]
  <2>2. eval[w].todo # {} /\ Window(w) \in Windows
    BY <1>4, <1>t, WindowIsLeft DEF Predicts, EvaluationOK
  <2>3. win \in Marks /\ (win # Window(w) => win \in Observed)
    BY <2>2 DEF Marks
  <2>4. EvaluationOK(e)
    BY <1>t, <2>2, <2>3 DEF Evaluation, EvalPcs, Statuses, EvaluationOK
  <2>5. eval' = [eval EXCEPT ![w] = e]
    BY <1>t, <2>1 DEF Answers
  <2>6. answers' \in [Windows -> 0..2]
    BY <1>t, <2>1, <2>2 DEF Answers
  <2>7. named' \subseteq Observed
    BY <1>t, <2>1, <2>3 DEF Answers
  <2> HIDE DEF e
  <2> QED
    BY <2>4, <2>5, <2>6, <2>7, EvaluationChanges
<1>5. CASE StoreCheckpointReads(w, d)
  <2> DEFINE e == [eval[w] EXCEPT !.pc = "storeWrites", !.snapshot = d.checkpoints]
  <2>1. EvaluationOK(e)
    BY <1>5, <1>t DEF Evaluation, EvalPcs, RunDocument, EvaluationOK, StoreCheckpointReads
  <2>2. eval' = [eval EXCEPT ![w] = e] /\ UNCHANGED <<answers, named>>
    BY <1>5, <1>t DEF StoreCheckpointReads
  <2> HIDE DEF e
  <2> QED
    BY <2>1, <2>2, <1>a
<1>6. CASE StoreCheckpointReturns(w) \/ StoreCheckpointFails(w)
  <2>1. eval[w].todo \ {Window(w)} \in SUBSET Windows
    BY <1>t DEF Evaluation
  <2> QED
    BY <1>6, <2>1, ProceedType
    DEF StoreCheckpointReturns, StoreCheckpointFails
<1> QED
  BY <1>1, <1>2, <1>3, <1>4, <1>5, <1>6

\* The checkpoints to store are a record per window.
LEMMA CheckpointsType ==
  ASSUME PredictionTypeOK, NEW w \in Workers
  PROVE  CheckpointsToStore(w) \in [Marks -> Statuses]
<1>1. eval[w] \in Evaluation
  BY DEF PredictionTypeOK
<1> QED
  BY <1>1 DEF CheckpointsToStore, Merged, Evaluation

\* The requests that are pending are well typed, with the documents they read.
HistoriesTypeOK ==
  /\ posted \subseteq Samples /\ stored \subseteq Samples
  /\ storedProcs \subseteq Procs /\ owed \subseteq Samples
  /\ optedIn \in BOOLEAN /\ newly \in 0..2 /\ raced \in BOOLEAN

RequestsTypeOK ==
  /\ doc \in RunDocument
  /\ procDoc \in ProcessDocument
  /\ req \in [Workers -> Request]
  /\ HistoriesTypeOK

LEMMA TypeOKParts ==
  TypeOK <=> ExportTypeOK /\ PredictionTypeOK /\ RequestsTypeOK
BY DEF TypeOK, RequestsTypeOK, HistoriesTypeOK

\* Changing the place of a request, or what it has read, leaves a request.
LEMMA RequestUpdates ==
  ASSUME NEW r \in Request
  PROVE  /\ \A pc \in ReqPcs : [r EXCEPT !.pc = pc] \in Request
         /\ \A pc \in ReqPcs, d \in RunDocument :
              [r EXCEPT !.pc = pc, !.run = d] \in Request
         /\ \A pc \in ReqPcs, d \in ProcessDocument :
              [r EXCEPT !.pc = pc, !.processes = d] \in Request
         /\ r.run \in RunDocument /\ r.processes \in ProcessDocument
         /\ r.due \in SUBSET Samples
BY DEF Request

----------------------------------------------------------------------------
(***************************************************************************)
(* The inductive invariant.  A request that stores a payload has one, what *)
(* it has read is a document in which finished and expire_at agree, and    *)
(* MarkRunAsFinished goes on to write only when it read an unfinished run. *)
(* Kept is what the safety invariants of Backend say together: the newly   *)
(* finished call is one because a second one would have read a finished    *)
(* run, or be a race.                                                      *)
(***************************************************************************)
Sound(r) ==
  /\ r.run.finished <=> r.run.expires
  /\ r.pc = "markWrites" => ~r.run.finished
  /\ r.pc \in {"procReads", "procWrites"} => r.proc \in Procs
  /\ r.pc \in {"storeReads", "storeWrites"} => r.sample \in Samples

RequestsSound == \A w \in Workers : Sound(req[w])

Kept ==
  ~raced => /\ stored \subseteq Range(doc.samples)
            /\ storedProcs \subseteq procDoc.info
            /\ newly > 0 => doc.finished
            /\ newly <= 1
            /\ optedIn => doc.exportToBigquery

BackendInv == RequestsTypeOK /\ RequestsSound /\ ExpiryFollowsFinish /\ Kept

\* What a goroutine does to its own request in a step.
RequestStep(w) ==
  \/ UNCHANGED req
  \/ \E r \in Request : Sound(r) /\ req' = [req EXCEPT ![w] = r]

\* A step keeps the invariant when the requests and the store do.
LEMMA StepKeeps ==
  ASSUME BackendInv, NEW w \in Workers, RequestStep(w),
         doc' \in RunDocument, procDoc' \in ProcessDocument, HistoriesTypeOK',
         doc'.finished <=> doc'.expires, Kept'
  PROVE  BackendInv'
<1>1. req' \in [Workers -> Request] /\ RequestsSound'
  BY DEF BackendInv, RequestsTypeOK, RequestStep, RequestsSound
<1> QED
  BY <1>1 DEF BackendInv, RequestsTypeOK, ExpiryFollowsFinish

\* Steps that only read, and record what was sent or is owed.
LEMMA QuietStep ==
  ASSUME BackendInv, NEW w \in Workers, RequestStep(w),
         UNCHANGED <<storeVars, stored, storedProcs, optedIn, newly, raced>>,
         posted' \subseteq Samples, owed' \subseteq Samples
  PROVE  BackendInv'
<1>1. HistoriesTypeOK' /\ Kept'
  BY DEF BackendInv, RequestsTypeOK, HistoriesTypeOK, Kept, storeVars
<1>2. /\ doc' \in RunDocument /\ procDoc' \in ProcessDocument
      /\ doc'.finished <=> doc'.expires
  BY DEF BackendInv, RequestsTypeOK, ExpiryFollowsFinish, storeVars
<1> QED
  BY <1>1, <1>2, StepKeeps

\* A document that keeps what doc says, written without a race, keeps Kept
\* unless the run is newly finished.
LEMMA KeptStep ==
  ASSUME Kept, raced \in BOOLEAN, raced => raced',
         ~raced' => /\ Keeps(doc, doc')
                    /\ stored' \subseteq stored \cup Range(doc'.samples)
                    /\ storedProcs' \subseteq storedProcs \cup procDoc'.info
                    /\ procDoc.info \subseteq procDoc'.info
                    /\ optedIn' => optedIn \/ doc'.exportToBigquery,
         UNCHANGED newly
  PROVE  Kept'
BY DEF Kept, Keeps

\* Answering a request, and moving it where nothing is read or stored.
LEMMA RespondStep ==
  ASSUME BackendInv, NEW w \in Workers, Respond(w)
  PROVE  RequestStep(w)
<1>1. Sound(NoRequest)
  BY DEF Sound, NoRequest, NoRun
<1> QED
  BY <1>1, NoRequestType DEF Respond, RequestStep

LEMMA GotoStep ==
  ASSUME BackendInv, NEW w \in Workers, NEW pc \in ReqPcs, Goto(w, pc),
         pc \notin {"markWrites", "procReads", "procWrites"},
         pc \in {"storeReads", "storeWrites"} => req[w].sample \in Samples
  PROVE  RequestStep(w)
<1> DEFINE r == [req[w] EXCEPT !.pc = pc]
<1>1. req[w] \in Request /\ Sound(req[w])
  BY DEF BackendInv, RequestsTypeOK, RequestsSound
<1>2. r \in Request /\ Sound(r)
  BY <1>1, RequestUpdates DEF Request, Sound
<1>3. req' = [req EXCEPT ![w] = r]
  BY DEF Goto, BackendInv, RequestsTypeOK
<1> QED
  BY <1>2, <1>3 DEF RequestStep

----------------------------------------------------------------------------
\* Requests arrive.
LEMMA ArrivesKeeps ==
  ASSUME BackendInv, NEW w \in Workers, Arrives(w)
  PROVE  BackendInv'
<1>t. posted \subseteq Samples /\ owed \subseteq Samples
  BY DEF BackendInv, RequestsTypeOK, HistoriesTypeOK
<1>1. CASE Auth(w)
  <2> PICK predictive \in BOOLEAN, first \in {"authExport", "authPredictive"} :
        Receive(w, "auth", [NoRequest EXCEPT !.pc = first, !.predictive = predictive])
    BY <1>1 DEF Auth
  <2> DEFINE r == [NoRequest EXCEPT !.pc = first, !.predictive = predictive]
  <2>1. r \in Request /\ Sound(r)
    BY NoRequestType DEF Request, ReqPcs, Sound, NoRequest, NoRun
  <2>2. req' = [req EXCEPT ![w] = r]
    BY DEF Receive
  <2>3. RequestStep(w)
    BY <2>1, <2>2 DEF RequestStep
  <2> QED
    BY <1>1, <1>t, <2>3, QuietStep DEF Auth, historyVars
<1>2. CASE Ingest(w)
  <2> PICK s \in (Samples \ posted) \cup {NoSample}, p \in Procs \cup {NoProc} :
        /\ s # NoSample \/ p # NoProc
        /\ Receive(w, "ingest",
                   [NoRequest EXCEPT !.sample = s, !.proc = p,
                      !.pc = IF p = NoProc THEN "storeReads" ELSE "procReads"])
        /\ posted' = (posted \cup {s}) \ {NoSample}
    BY <1>2 DEF Ingest
  <2> DEFINE pc == IF p = NoProc THEN "storeReads" ELSE "procReads"
             r == [NoRequest EXCEPT !.sample = s, !.proc = p, !.pc = pc]
  <2>1. r \in Request
    BY NoRequestType DEF Request, ReqPcs
  <2>2. Sound(r)
    BY ConstantFacts DEF Sound, NoRequest, NoRun
  <2>3. req' = [req EXCEPT ![w] = r] /\ posted' \subseteq Samples
    BY <1>t DEF Receive
  <2>4. RequestStep(w)
    BY <2>1, <2>2, <2>3 DEF RequestStep
  <2> QED
    BY <1>2, <1>t, <2>3, <2>4, QuietStep DEF Ingest
<1>3. CASE FinishRun(w) \/ GetRun(w) \/ HandleManualStaleCleanup(w)
  <2>1. Marking \in Request /\ Sound(Marking)
    BY NoRequestType DEF Marking, Request, ReqPcs, Sound, NoRequest, NoRun
  <2>2. req' = [req EXCEPT ![w] = Marking]
    BY <1>3 DEF FinishRun, GetRun, HandleManualStaleCleanup, Receive
  <2>3. RequestStep(w)
    BY <2>1, <2>2 DEF RequestStep
  <2> QED
    BY <1>3, <1>t, <2>3, QuietStep
    DEF FinishRun, GetRun, HandleManualStaleCleanup, historyVars
<1> QED
  BY <1>1, <1>2, <1>3 DEF Arrives

\* The opt-ins are merged into the document of the store.
LEMMA OptInsKeep ==
  ASSUME BackendInv, NEW w \in Workers,
         SetRunExportToBigquery(w) \/ SetRunPredictiveReliability(w)
  PROVE  BackendInv'
<1>t. /\ doc \in RunDocument /\ procDoc \in ProcessDocument
      /\ HistoriesTypeOK /\ Kept /\ (doc.finished <=> doc.expires)
  BY DEF BackendInv, RequestsTypeOK, ExpiryFollowsFinish
<1>1. RequestStep(w)
  <2>1. CASE Goto(w, "authPredictive")
    BY <2>1, GotoStep DEF ReqPcs
  <2>2. CASE Respond(w)
    BY <2>2, RespondStep
  <2> QED
    BY <2>1, <2>2
    DEF SetRunExportToBigquery, SetRunPredictiveReliability, AfterExportFlag
<1>2. doc' \in {doc, WithExportFlag(doc), WithPredictiveFlag(doc)}
  BY DEF SetRunExportToBigquery, SetRunPredictiveReliability, WriteFails
<1>3. doc' \in RunDocument /\ Keeps(doc, doc') /\ (doc'.finished <=> doc'.expires)
  <2>1. \A d \in {WithExportFlag(doc), WithPredictiveFlag(doc)} :
          d.finished = doc.finished /\ d.expires = doc.expires
    BY <1>t DEF WithExportFlag, WithPredictiveFlag, Touched, RunDocument
  <2> QED
    BY <1>2, <1>t, <2>1, DocumentTypes, OperationsKeep
<1>4. optedIn' \in BOOLEAN /\ (optedIn' => optedIn \/ doc'.exportToBigquery)
  <2>1. WithExportFlag(doc).exportToBigquery
    BY <1>t, OperationsKeep
  <2>2. \/ doc' = WithExportFlag(doc) /\ optedIn' = TRUE
        \/ UNCHANGED optedIn
    BY DEF SetRunExportToBigquery, SetRunPredictiveReliability, historyVars
  <2>3. optedIn' \in BOOLEAN
    BY <1>t, <2>2 DEF HistoriesTypeOK
  <2>4. CASE doc' = WithExportFlag(doc) /\ optedIn' = TRUE
    BY <2>1, <2>3, <2>4
  <2>5. CASE UNCHANGED optedIn
    BY <2>3, <2>5
  <2> QED
    BY <2>2, <2>4, <2>5
<1>5. UNCHANGED <<procDoc, posted, stored, storedProcs, newly, owed, raced>>
  BY DEF SetRunExportToBigquery, SetRunPredictiveReliability, historyVars
<1>6. HistoriesTypeOK' /\ Kept'
  BY <1>t, <1>3, <1>4, <1>5, KeptStep DEF HistoriesTypeOK
<1> QED
  BY <1>t, <1>1, <1>3, <1>5, <1>6, StepKeeps

\* What follows the process info of an ingest.
LEMMA AfterProcessInfoStep ==
  ASSUME BackendInv, NEW w \in Workers, AfterProcessInfo(w)
  PROVE  RequestStep(w)
<1>1. CASE req[w].sample = NoSample
  BY <1>1, RespondStep DEF AfterProcessInfo
<1>2. CASE req[w].sample # NoSample
  <2>1. req[w].sample \in Samples
    BY <1>2 DEF BackendInv, RequestsTypeOK, Request
  <2> QED
    BY <1>2, <2>1, GotoStep DEF AfterProcessInfo, ReqPcs
<1> QED
  BY <1>1, <1>2

\* Process info is read and written back.
LEMMA StoreProcessInfoKeeps ==
  ASSUME BackendInv, NEW w \in Workers,
         StoreProcessInfoReads(w) \/ StoreProcessInfoWrites(w)
  PROVE  BackendInv'
<1>t. /\ doc \in RunDocument /\ procDoc \in ProcessDocument
      /\ req \in [Workers -> Request] /\ req[w] \in Request /\ Sound(req[w])
      /\ HistoriesTypeOK /\ Kept /\ (doc.finished <=> doc.expires)
  BY DEF BackendInv, RequestsTypeOK, RequestsSound, ExpiryFollowsFinish
<1>1. CASE StoreProcessInfoReads(w)
  <2> DEFINE r == [req[w] EXCEPT !.pc = "procWrites", !.processes = procDoc]
  <2>0. req[w].proc \in Procs
    BY <1>1, <1>t DEF StoreProcessInfoReads, At, Sound
  <2>1. r \in Request /\ Sound(r)
    <3>1. r \in Request
      BY <1>t, RequestUpdates DEF ReqPcs
    <3>2. r.run = req[w].run /\ r.pc = "procWrites" /\ r.proc = req[w].proc
      BY <1>t DEF Request
    <3> QED
      BY <1>t, <2>0, <3>1, <3>2 DEF Sound
  <2>2. CASE AfterProcessInfo(w)
    BY <2>2, <1>1, <1>t, AfterProcessInfoStep, QuietStep
    DEF StoreProcessInfoReads, historyVars, HistoriesTypeOK
  <2>3. CASE req' = [req EXCEPT ![w].pc = "procWrites", ![w].processes = procDoc]
    <3>1. req' = [req EXCEPT ![w] = r]
      BY <2>3, <1>t
    <3>2. RequestStep(w)
      BY <2>1, <3>1 DEF RequestStep
    <3> QED
      BY <1>1, <1>t, <3>2, QuietStep DEF StoreProcessInfoReads, historyVars, HistoriesTypeOK
  <2> QED
    BY <1>1, <2>2, <2>3 DEF StoreProcessInfoReads
<1>2. CASE StoreProcessInfoWrites(w)
  <2> DEFINE written == WithProcess(req[w].processes, req[w].proc)
  <2>1. req[w].proc \in Procs /\ req[w].processes \in ProcessDocument
    BY <1>2, <1>t DEF StoreProcessInfoWrites, At, Sound, Request
  <2>2. /\ written \in ProcessDocument /\ req[w].proc \in written.info
        /\ req[w].processes.info \subseteq written.info
    BY <2>1, DocumentTypes DEF WithProcess, ProcessDocument
  <2>3. procDoc' \in {procDoc, written}
    BY <1>2 DEF StoreProcessInfoWrites, WriteFails
  <2>4. raced' = (raced \/ req[w].processes # procDoc)
    BY <1>2 DEF StoreProcessInfoWrites
  <2>5. UNCHANGED <<doc, posted, stored, optedIn, newly, owed>>
    BY <1>2 DEF StoreProcessInfoWrites
  <2>6. \/ procDoc' = written /\ storedProcs' = storedProcs \cup {req[w].proc}
        \/ UNCHANGED storedProcs
    BY <1>2 DEF StoreProcessInfoWrites
  <2>7. ~raced' => procDoc.info \subseteq procDoc'.info
    BY <2>2, <2>3, <2>4
  <2>8. storedProcs' \subseteq storedProcs \cup procDoc'.info /\ storedProcs' \subseteq Procs
    BY <1>t, <2>1, <2>2, <2>6 DEF HistoriesTypeOK
  <2>9. HistoriesTypeOK' /\ raced \in BOOLEAN /\ (raced => raced')
    BY <1>t, <2>4, <2>5, <2>8 DEF HistoriesTypeOK
  <2>10. Keeps(doc, doc')
    BY <1>t, <2>5, OperationsKeep
  <2>11. Kept'
    BY <1>t, <2>5, <2>7, <2>8, <2>9, <2>10, KeptStep
  <2>12. RequestStep(w)
    BY <1>2, AfterProcessInfoStep DEF StoreProcessInfoWrites
  <2>13. /\ doc' \in RunDocument /\ procDoc' \in ProcessDocument
         /\ doc'.finished <=> doc'.expires
    BY <1>t, <2>2, <2>3, <2>5
  <2> QED
    BY <2>9, <2>11, <2>12, <2>13, StepKeeps
<1> QED
  BY <1>1, <1>2

\* The type and soundness of what a step starts from.
LEMMA InvFacts ==
  ASSUME BackendInv, NEW w \in Workers
  PROVE  /\ doc \in RunDocument /\ procDoc \in ProcessDocument
         /\ req \in [Workers -> Request] /\ req[w] \in Request /\ Sound(req[w])
         /\ HistoriesTypeOK /\ Kept /\ (doc.finished <=> doc.expires)
         /\ posted \subseteq Samples /\ owed \subseteq Samples
BY DEF BackendInv, RequestsTypeOK, RequestsSound, ExpiryFollowsFinish, HistoriesTypeOK

\* A request that takes the run document it read to the place pc.
LEMMA RunReadStep ==
  ASSUME BackendInv, NEW w \in Workers, NEW pc \in {"storeWrites", "markWrites"},
         req' = [req EXCEPT ![w].pc = pc, ![w].run = doc],
         pc = "storeWrites" => req[w].sample \in Samples,
         pc = "markWrites" => ~doc.finished
  PROVE  RequestStep(w)
<1> DEFINE r == [req[w] EXCEPT !.pc = pc, !.run = doc]
<1>1. r \in Request
  BY InvFacts, RequestUpdates DEF ReqPcs
<1>2. r.run = doc /\ r.pc = pc /\ r.sample = req[w].sample
  BY InvFacts DEF Request
<1>3. Sound(r)
  BY <1>2, InvFacts DEF Sound
<1>4. req' = [req EXCEPT ![w] = r]
  BY InvFacts
<1> QED
  BY <1>1, <1>3, <1>4 DEF RequestStep

\* The samples are appended to the document that was read.
LEMMA StoreSamplesKeeps ==
  ASSUME BackendInv, NEW w \in Workers,
         StoreSamplesReads(w) \/ StoreSamplesWrites(w)
  PROVE  BackendInv'
<1>0. req[w].sample \in Samples
  BY InvFacts DEF StoreSamplesReads, StoreSamplesWrites, At, Sound
<1>1. CASE StoreSamplesReads(w)
  <2>1. RequestStep(w)
    BY <1>0, <1>1, RunReadStep, RespondStep DEF StoreSamplesReads
  <2> QED
    BY <1>1, <2>1, InvFacts, QuietStep DEF StoreSamplesReads, historyVars
<1>2. CASE StoreSamplesWrites(w)
  <2> DEFINE c == req[w].run
             written == WithSample(c, req[w].sample)
  <2>1. c \in RunDocument /\ (c.finished <=> c.expires)
    BY InvFacts DEF Request, Sound
  <2>2. /\ written \in RunDocument /\ Keeps(c, written)
        /\ req[w].sample \in Range(written.samples)
        /\ written.finished <=> written.expires
    <3>1. written.finished = c.finished /\ written.expires = c.expires
      BY <2>1 DEF WithSample, Touched, RunDocument
    <3> QED
      BY <1>0, <2>1, <3>1, DocumentTypes, OperationsKeep
  <2> HIDE DEF written, c
  <2>3. \/ doc' = written /\ stored' = stored \cup {req[w].sample}
        \/ doc' \in {doc, written} /\ UNCHANGED stored
    BY <1>2 DEF StoreSamplesWrites, WriteFails, written, c
  <2>4. raced' = (raced \/ Content(c) # Content(doc))
    BY <1>2 DEF StoreSamplesWrites, c
  <2>5. UNCHANGED <<procDoc, posted, storedProcs, optedIn, newly, owed>>
    BY <1>2 DEF StoreSamplesWrites
  <2>6. /\ doc' \in RunDocument /\ procDoc' \in ProcessDocument
        /\ doc'.finished <=> doc'.expires
    BY <2>2, <2>3, <2>5, InvFacts
  <2>7. HistoriesTypeOK' /\ raced \in BOOLEAN /\ (raced => raced')
    BY <1>0, <2>3, <2>4, <2>5, InvFacts DEF HistoriesTypeOK
  <2>8. stored' \subseteq stored \cup Range(doc'.samples)
    BY <2>2, <2>3
  <2>9. ASSUME ~raced' PROVE Keeps(doc, doc')
    <3>1. /\ c.samples = doc.samples /\ c.finished = doc.finished
          /\ c.exportToBigquery = doc.exportToBigquery
      BY <2>1, <2>4, <2>9, InvFacts, SameContent
    <3>2. Keeps(doc, written) /\ Keeps(doc, doc)
      BY <2>2, <3>1, InvFacts, OperationsKeep DEF Keeps
    <3> QED
      BY <2>3, <3>2
  <2>10. Kept'
    BY <2>5, <2>7, <2>8, <2>9, InvFacts, KeptStep
  <2>11. RequestStep(w)
    BY <1>2, RespondStep, GotoStep DEF StoreSamplesWrites, ReqPcs
  <2> QED
    BY <2>6, <2>7, <2>10, <2>11, StepKeeps
<1> QED
  BY <1>1, <1>2

\* An evaluation reads, asks the provider, and merges the checkpoints.
LEMMA EvaluationKeeps ==
  ASSUME BackendInv, NEW w \in Workers,
         Evaluate(w) \/ (StorePredictionCheckpoint(w) /\ PredictionTypeOK)
  PROVE  BackendInv'
<1>1. RequestStep(w)
  BY RespondStep
  DEF Evaluate, StorePredictionCheckpoint, EvaluateContinues, RequestStep
<1>2. CASE Evaluate(w)
  BY <1>1, <1>2, InvFacts, QuietStep DEF Evaluate, historyVars
<1>3. CASE StorePredictionCheckpoint(w) /\ PredictionTypeOK
  <2> DEFINE written == WithCheckpoints(doc, CheckpointsToStore(w))
  <2>1. /\ written \in RunDocument /\ Keeps(doc, written)
        /\ written.finished <=> written.expires
    <3>1. written.finished = doc.finished /\ written.expires = doc.expires
      BY InvFacts DEF WithCheckpoints, Touched, RunDocument
    <3> QED
      BY <1>3, <3>1, InvFacts, CheckpointsType, DocumentTypes, OperationsKeep
  <2> HIDE DEF written
  <2>2. doc' \in {doc, written}
    BY <1>3 DEF StorePredictionCheckpoint, WriteFails, written
  <2>3. raced' = (raced \/ eval[w].snapshot # doc.checkpoints)
    BY <1>3 DEF StorePredictionCheckpoint
  <2>4. UNCHANGED <<procDoc, posted, stored, storedProcs, optedIn, newly, owed>>
    BY <1>3 DEF StorePredictionCheckpoint
  <2>5. /\ doc' \in RunDocument /\ procDoc' \in ProcessDocument
        /\ Keeps(doc, doc') /\ (doc'.finished <=> doc'.expires)
    BY <2>1, <2>2, <2>4, InvFacts, OperationsKeep
  <2>6. HistoriesTypeOK' /\ raced \in BOOLEAN /\ (raced => raced')
    BY <2>3, <2>4, InvFacts DEF HistoriesTypeOK
  <2>7. Kept'
    BY <2>4, <2>5, <2>6, InvFacts, KeptStep
  <2> QED
    BY <1>1, <2>5, <2>6, <2>7, StepKeeps
<1> QED
  BY <1>2, <1>3

\* MarkRunAsFinished: the second call reads a finished run, unless it raced.
LEMMA MarkRunAsFinishedKeeps ==
  ASSUME BackendInv, NEW w \in Workers,
         MarkRunAsFinishedReads(w) \/ MarkRunAsFinishedWrites(w)
  PROVE  BackendInv'
<1>1. CASE MarkRunAsFinishedReads(w)
  <2>1. RequestStep(w)
    BY <1>1, RunReadStep, RespondStep DEF MarkRunAsFinishedReads
  <2> QED
    BY <1>1, <2>1, InvFacts, QuietStep DEF MarkRunAsFinishedReads, historyVars
<1>2. CASE MarkRunAsFinishedWrites(w)
  <2> DEFINE c == req[w].run
             written == MarkedFinished(c)
             due == IF written.exportToBigquery THEN stored ELSE {}
             r == [NoRequest EXCEPT !.pc = "run", !.due = due]
  <2>1. c \in RunDocument /\ ~c.finished
    BY <1>2, InvFacts DEF MarkRunAsFinishedWrites, At, Request, Sound
  <2>2. /\ written \in RunDocument /\ Keeps(c, written)
        /\ written.finished /\ written.expires
    BY <2>1, DocumentTypes, OperationsKeep DEF MarkedFinished, Touched, RunDocument
  <2>3. r \in Request /\ Sound(r)
    <3>1. due \in SUBSET Samples
      BY InvFacts DEF HistoriesTypeOK
    <3>2. r \in Request
      BY <3>1, NoRequestType DEF Request, ReqPcs
    <3> QED
      BY <3>2 DEF Sound, NoRequest, NoRun
  <2>4. RequestStep(w)
    <3>1. \/ req' = [req EXCEPT ![w] = r]
          \/ Respond(w)
      BY <1>2 DEF MarkRunAsFinishedWrites
    <3> QED
      BY <2>3, <3>1, RespondStep DEF RequestStep
  <2> HIDE DEF written, c, r, due
  <2>5. \/ doc' = written /\ newly' = IF newly < 2 THEN newly + 1 ELSE 2
        \/ doc' \in {doc, written} /\ UNCHANGED newly
    BY <1>2 DEF MarkRunAsFinishedWrites, WriteFails, written, c
  <2>6. raced' = (raced \/ Content(c) # Content(doc))
    BY <1>2 DEF MarkRunAsFinishedWrites, c
  <2>7. UNCHANGED <<procDoc, posted, stored, storedProcs, optedIn, owed>>
    BY <1>2 DEF MarkRunAsFinishedWrites
  <2>8. /\ doc' \in RunDocument /\ procDoc' \in ProcessDocument
        /\ doc'.finished <=> doc'.expires
    BY <2>2, <2>5, <2>7, InvFacts
  <2>9. HistoriesTypeOK' /\ raced \in BOOLEAN /\ (raced => raced')
    BY <2>5, <2>6, <2>7, InvFacts DEF HistoriesTypeOK
  <2>10. ASSUME ~raced'
         PROVE  Keeps(doc, doc') /\ Keeps(doc, written) /\ newly = 0
    <3>1. /\ c.samples = doc.samples /\ c.finished = doc.finished
          /\ c.exportToBigquery = doc.exportToBigquery
      BY <2>1, <2>6, <2>10, InvFacts, SameContent
    <3>2. Keeps(doc, written) /\ Keeps(doc, doc)
      BY <2>2, <3>1, InvFacts, OperationsKeep DEF Keeps
    <3>3. ~raced /\ ~doc.finished
      BY <2>1, <2>6, <2>10, <3>1
    <3> QED
      BY <2>5, <3>2, <3>3, InvFacts DEF Kept, HistoriesTypeOK
  <2>11. Kept'
    <3>1. CASE UNCHANGED newly
      BY <2>7, <2>9, <2>10, <3>1, InvFacts, KeptStep
    <3>2. CASE doc' = written /\ newly' = IF newly < 2 THEN newly + 1 ELSE 2
      <4> SUFFICES ASSUME ~raced' PROVE Kept'
        BY DEF Kept
      <4>1. newly' = 1 /\ doc'.finished /\ Keeps(doc, doc') /\ ~raced
        BY <2>2, <2>9, <2>10, <3>2
      <4> QED
        BY <4>1, <2>7, InvFacts DEF Kept, Keeps
    <3> QED
      BY <2>5, <3>1, <3>2
  <2> QED
    BY <2>4, <2>8, <2>9, <2>11, StepKeeps
<1> QED
  BY <1>1, <1>2

\* The export reads the documents and answers the request.
LEMMA ExportingKeeps ==
  ASSUME BackendInv, NEW w \in Workers, ExportRuns(w) \/ Export(w)
  PROVE  BackendInv'
<1>1. RequestStep(w)
  BY RespondStep, GotoStep DEF ExportRuns, Export, RequestStep, ReqPcs
<1>2. owed' \subseteq Samples
  BY InvFacts DEF ExportRuns, Export, Request
<1> QED
  BY <1>1, <1>2, InvFacts, QuietStep DEF ExportRuns, Export, storeVars

\* Time passes, and a restart forgets requests.
LEMMA EnvironmentKeeps ==
  ASSUME BackendInv, TimeoutElapses \/ \E i \in Instances : Restart(i)
  PROVE  BackendInv'
<1>1. CASE TimeoutElapses
  <2> DEFINE q == [doc EXCEPT !.quiet = TRUE]
  <2>t. doc \in RunDocument /\ HistoriesTypeOK /\ Kept /\ RequestsSound
    BY DEF BackendInv, RequestsTypeOK
  <2>1. doc' = q /\ UNCHANGED <<procDoc, req, historyVars>>
    BY <1>1 DEF TimeoutElapses
  <2>2. /\ q \in RunDocument /\ Keeps(doc, q)
        /\ q.finished = doc.finished /\ q.expires = doc.expires
    BY <2>t, DocumentTypes, OperationsKeep DEF RunDocument
  <2> HIDE DEF q
  <2>3. RequestsTypeOK' /\ ExpiryFollowsFinish' /\ RequestsSound'
    BY <2>1, <2>2
    DEF BackendInv, RequestsTypeOK, HistoriesTypeOK, ExpiryFollowsFinish,
        RequestsSound, historyVars
  <2>4. Kept'
    BY <2>t, <2>1, <2>2, KeptStep DEF historyVars, HistoriesTypeOK
  <2> QED
    BY <2>3, <2>4 DEF BackendInv
<1>2. ASSUME NEW i \in Instances, Restart(i) PROVE BackendInv'
  <2>1. Sound(NoRequest) /\ NoRequest \in Request
    BY NoRequestType DEF Sound, NoRequest, NoRun
  <2>2. /\ req' = [v \in Workers |-> IF InstanceOf[v] = i THEN NoRequest ELSE req[v]]
        /\ UNCHANGED <<storeVars, historyVars>>
    BY <1>2 DEF Restart
  <2> QED
    BY <2>1, <2>2
    DEF BackendInv, RequestsTypeOK, HistoriesTypeOK, RequestsSound,
        ExpiryFollowsFinish, Kept, storeVars, historyVars
<1> QED
  BY <1>1, <1>2

----------------------------------------------------------------------------
(***************************************************************************)
(* The steps of the export and of the evaluation inside the backend are    *)
(* steps of their modules, on the documents of the store.                  *)
(***************************************************************************)

\* Requests arrive without a step of the export or of an evaluation.
LEMMA ArrivesFrame ==
  ASSUME NEW w \in Workers, Arrives(w)
  PROVE  UNCHANGED <<exportVars, predictionVars>>
BY DEF Arrives, Auth, Ingest, FinishRun, GetRun, HandleManualStaleCleanup

\* Every step of the backend keeps the invariant of the export.
LEMMA ExportPartKeeps ==
  ASSUME BackendInv, ExportInv, [Next]_vars
  PROVE  ExportInv'
<1>0. ASSUME UNCHANGED exportVars PROVE ExportInv'
  BY <1>0, ExportStepInv
<1>1. ASSUME NEW w \in Workers, ExportRuns(w) PROVE ExportInv'
  <2>1. RunMarks(w) \/ RunIsDuplicate(w)
    BY <1>1 DEF ExportRuns
  <2> QED
    BY <2>1, ExportStepInv DEF ExportNext
<1>2. ASSUME NEW w \in Workers, Export(w) PROVE ExportInv'
  <2>1. doc.samples \in Seq(Samples) /\ procDoc.info \in SUBSET Procs
    BY InvFacts DEF RunDocument, ProcessDocument
  <2>2. /\ GoesOn(w) \/ EndsTrue(w) \/ EndsFalse(w)
        /\ RowsGrow
    BY <1>2, <2>1, GetRunCases, GetProcessesCases, OtherStepCases
    DEF Export, ExportReads, ExportInserts, ExportWaits, ExportInv
  <2> QED
    BY <2>2, GoesOnKeepsInv, EndsTrueKeepsInv, EndsFalseKeepsInv
<1>3. ASSUME NEW i \in Instances, Restart(i) PROVE ExportInv'
  BY <1>3, RestartKeepsInv DEF Restart
<1>4. ASSUME NEW w \in Workers, Arrives(w) PROVE ExportInv'
  BY <1>0, <1>4, ArrivesFrame
<1>5. ASSUME NEW w \in Workers, Serves(w), ~ExportRuns(w), ~Export(w)
      PROVE  ExportInv'
  BY <1>0, <1>5
  DEF Serves, SetRunExportToBigquery, SetRunPredictiveReliability,
      StoreProcessInfoReads, StoreProcessInfoWrites, StoreSamplesReads,
      StoreSamplesWrites, Evaluate, StorePredictionCheckpoint,
      MarkRunAsFinishedReads, MarkRunAsFinishedWrites
<1>6. ASSUME TimeoutElapses \/ UNCHANGED vars PROVE ExportInv'
  BY <1>0, <1>6 DEF TimeoutElapses, vars
<1> QED
  BY <1>1, <1>2, <1>3, <1>4, <1>5, <1>6 DEF Next

\* Every step of the backend keeps the types of the evaluations.
LEMMA PredictionPartKeeps ==
  ASSUME BackendInv, PredictionTypeOK, [Next]_vars
  PROVE  PredictionTypeOK'
<1>d. doc \in RunDocument
  BY DEF BackendInv, RequestsTypeOK
<1>0. ASSUME UNCHANGED predictionVars PROVE PredictionTypeOK'
  BY <1>0 DEF predictionVars, PredictionTypeOK
<1>1. ASSUME NEW w \in Workers, StoreSamplesWrites(w) PROVE PredictionTypeOK'
  BY <1>0, <1>1, <1>d, PredictionStepType DEF StoreSamplesWrites
<1>2. ASSUME NEW w \in Workers, Evaluate(w) PROVE PredictionTypeOK'
  BY <1>2, <1>d, PredictionStepType DEF Evaluate
<1>3. ASSUME NEW w \in Workers, StorePredictionCheckpoint(w) PROVE PredictionTypeOK'
  BY <1>3, <1>d, PredictionStepType DEF StorePredictionCheckpoint
<1>4. ASSUME NEW i \in Instances, Restart(i) PROVE PredictionTypeOK'
  BY <1>4, NoEvaluationType DEF Restart, EvaluationsLost, PredictionTypeOK, NoEvaluation
<1>5. ASSUME NEW w \in Workers, Arrives(w) PROVE PredictionTypeOK'
  BY <1>0, <1>5, ArrivesFrame
<1>6. ASSUME NEW w \in Workers, Serves(w), ~StoreSamplesWrites(w), ~Evaluate(w),
             ~StorePredictionCheckpoint(w)
      PROVE  PredictionTypeOK'
  BY <1>0, <1>6
  DEF Serves, SetRunExportToBigquery, SetRunPredictiveReliability,
      StoreProcessInfoReads, StoreProcessInfoWrites, StoreSamplesReads,
      MarkRunAsFinishedReads, MarkRunAsFinishedWrites, ExportRuns, Export
<1>7. ASSUME TimeoutElapses \/ UNCHANGED vars PROVE PredictionTypeOK'
  BY <1>0, <1>7 DEF TimeoutElapses, vars
<1> QED
  BY <1>1, <1>2, <1>3, <1>4, <1>5, <1>6, <1>7 DEF Next

\* Every step of the backend keeps the invariant of the requests.
LEMMA RequestsPartKeeps ==
  ASSUME BackendInv, PredictionTypeOK, [Next]_vars
  PROVE  BackendInv'
<1>1. ASSUME NEW w \in Workers, Serves(w) PROVE BackendInv'
  BY <1>1, OptInsKeep, StoreProcessInfoKeeps, StoreSamplesKeeps,
     EvaluationKeeps, MarkRunAsFinishedKeeps, ExportingKeeps DEF Serves
<1>2. ASSUME UNCHANGED vars PROVE BackendInv'
  BY <1>2
  DEF vars, storeVars, historyVars, BackendInv, RequestsTypeOK, HistoriesTypeOK,
      RequestsSound, ExpiryFollowsFinish, Kept
<1> QED
  BY <1>1, <1>2, ArrivesKeeps, EnvironmentKeeps DEF Next

----------------------------------------------------------------------------
FullInv == ExportInv /\ PredictionTypeOK /\ BackendInv

LEMMA InitInv == Init => FullInv
<1> SUFFICES ASSUME Init PROVE FullInv
  OBVIOUS
<1>1. ExportInv
  BY ExportInitInv DEF Init
<1>2. PredictionTypeOK
  BY NoEvaluationType DEF Init, PredictionInit, PredictionTypeOK, NoEvaluation
<1>3. /\ doc \in RunDocument /\ procDoc \in ProcessDocument
      /\ NoRequest \in Request /\ Sound(NoRequest)
      /\ doc.finished = FALSE /\ doc.expires = FALSE
  BY DocumentTypes, NoRequestType DEF Init, Sound, NoRequest, NoRun
<1>4. RequestsTypeOK /\ RequestsSound /\ ExpiryFollowsFinish
  <2>0. newly \in 0..2
    BY DEF Init
  <2>1. HistoriesTypeOK
    BY <2>0, Zenon DEF Init, HistoriesTypeOK
  <2>2. RequestsTypeOK /\ RequestsSound
    BY <1>3, <2>1 DEF Init, RequestsTypeOK, RequestsSound
  <2> QED
    BY <1>3, <2>2 DEF ExpiryFollowsFinish
<1>5. Kept
  BY DEF Init, Kept
<1> QED
  BY <1>1, <1>2, <1>4, <1>5 DEF FullInv, BackendInv

LEMMA StepInv == FullInv /\ [Next]_vars => FullInv'
BY ExportPartKeeps, PredictionPartKeeps, RequestsPartKeeps DEF FullInv

\* The documents, the requests with what they have read, the calls of the
\* scheduler and the evaluations stay well typed through every interleaving,
\* failure and restart.
THEOREM BackendTypeOK == Spec => []TypeOK
<1>1. FullInv => TypeOK
  BY TypeOKParts DEF FullInv, ExportInv, BackendInv
<1> QED
  BY <1>1, InitInv, StepInv, PTL DEF Spec

\* Nothing the handlers do loses a stored payload, stored process info, the
\* finish, the single newly finished call or the opt-in, but writing back a
\* document that another request has changed (StoreSamples, StoreProcessInfo,
\* MarkRunAsFinished and the two opt-ins).
THEOREM BackendKeepsUpdates == Spec => []UpdatesKept
<1>1. FullInv => UpdatesKept
  BY DEF FullInv, BackendInv, Kept, UpdatesKept
<1> QED
  BY <1>1, InitInv, StepInv, PTL DEF Spec

\* The handlers drive the scheduler within its protocol: at most one export of
\* the run per instance, and no mark is left behind by a failed one.
THEOREM BackendExportSafety ==
  Spec => [](OneExportPerInstance /\ MarkIsAccountedFor)
<1>1. FullInv => OneExportPerInstance /\ MarkIsAccountedFor
  BY DEF FullInv, ExportInv
<1> QED
  BY <1>1, InitInv, StepInv, PTL DEF Spec

\* The TTL goes with the finish alone, also when an update is lost: every document
\* a request has read pairs them, so the one it writes back does.
THEOREM ExpiryGoesWithFinish == Spec => []ExpiryFollowsFinish
<1>1. FullInv => ExpiryFollowsFinish
  BY DEF FullInv, BackendInv
<1> QED
  BY <1>1, InitInv, StepInv, PTL DEF Spec

----------------------------------------------------------------------------
(***************************************************************************)
(* The samples of the document.  A payload that is sent is carried by one  *)
(* request until StoreSamples has written it; without a race the list of   *)
(* the document only grows by such payloads.                               *)
(***************************************************************************)
Storing == {"procReads", "procWrites", "storeReads", "storeWrites"}
Carries(w) == req[w].pc \in Storing /\ req[w].sample # NoSample

StillCarries(w) == Carries(w)' => Carries(w) /\ req'[w].sample = req[w].sample

SamplesStay ==
  /\ doc'.samples = doc.samples /\ posted' = posted
  /\ \A v \in Workers : StillCarries(v)

SampleIsPosted(w) ==
  /\ doc'.samples = doc.samples /\ posted \subseteq posted'
  /\ \A v \in Workers \ {w} : StillCarries(v)
  /\ Carries(w)' => req'[w].sample \in posted' \ posted

SampleIsStored(w) ==
  /\ Carries(w)
  /\ doc'.samples = Append(doc.samples, req[w].sample) /\ posted' = posted
  /\ \A v \in Workers \ {w} : StillCarries(v)
  /\ ~Carries(w)'

SampleStep ==
  SamplesStay \/ \E w \in Workers : SampleIsPosted(w) \/ SampleIsStored(w)

\* A request that is answered or moves on carries nothing new.
LEMMA RespondCarries ==
  ASSUME req \in [Workers -> Request], NEW w \in Workers, Respond(w)
  PROVE  ~Carries(w)' /\ \A v \in Workers : StillCarries(v)
BY DEF Respond, StillCarries, Carries, NoRequest, Storing

LEMMA GotoCarries ==
  ASSUME req \in [Workers -> Request], NEW w \in Workers, NEW pc, Goto(w, pc),
         pc \in Storing => req[w].pc \in Storing
  PROVE  /\ pc \notin Storing => ~Carries(w)'
         /\ \A v \in Workers : StillCarries(v)
<1>1. req'[w].pc = pc /\ req'[w].sample = req[w].sample
  BY DEF Goto, Request
<1>2. \A v \in Workers : v # w => req'[v] = req[v]
  BY DEF Goto
<1>. QED  BY <1>1, <1>2 DEF StillCarries, Carries

LEMMA ReadCarries ==
  ASSUME req \in [Workers -> Request], NEW w \in Workers, NEW r \in Request, 
         req' = [req EXCEPT ![w] = r], r.sample = req[w].sample,
         r.pc \in Storing => req[w].pc \in Storing
  PROVE  \A v \in Workers : StillCarries(v)
BY DEF StillCarries, Carries

\* A request that arrives carries a payload nobody has sent before, or none.
LEMMA ArrivesSamples ==
  ASSUME BackendInv, NEW w \in Workers, Arrives(w)
  PROVE  SampleStep
<1>t. req \in [Workers -> Request] /\ posted \subseteq Samples
  BY InvFacts
<1>1. doc' = doc
  BY DEF Arrives, Auth, Ingest, FinishRun, GetRun, HandleManualStaleCleanup, storeVars
<1>2. ASSUME NEW r, req' = [req EXCEPT ![w] = r], r.pc \notin Storing, posted' = posted
      PROVE  SamplesStay
  BY <1>t, <1>1, <1>2 DEF SamplesStay, StillCarries, Carries
<1>3. CASE Auth(w)
  <2>1. PICK predictive \in BOOLEAN, first \in {"authExport", "authPredictive"} :
          Receive(w, "auth", [NoRequest EXCEPT !.pc = first, !.predictive = predictive])
    BY <1>3 DEF Auth
  <2>2. [NoRequest EXCEPT !.pc = first, !.predictive = predictive].pc = first
    BY DEF NoRequest
  <2>3. posted' = posted
    BY <1>3 DEF Auth, historyVars
  <2>. QED  BY <1>2, <2>1, <2>2, <2>3 DEF Receive, Storing, SampleStep
<1>4. CASE FinishRun(w) \/ GetRun(w) \/ HandleManualStaleCleanup(w)
  <2>1. Marking.pc = "markReads"
    BY DEF Marking, NoRequest
  <2>2. posted' = posted /\ req' = [req EXCEPT ![w] = Marking]
    BY <1>4 DEF FinishRun, GetRun, HandleManualStaleCleanup, Receive, historyVars
  <2>. QED  BY <1>2, <2>1, <2>2 DEF Storing, SampleStep
<1>5. CASE Ingest(w)
  <2> PICK s \in (Samples \ posted) \cup {NoSample}, p \in Procs \cup {NoProc} :
        /\ s # NoSample \/ p # NoProc
        /\ Receive(w, "ingest",
                   [NoRequest EXCEPT !.sample = s, !.proc = p,
                      !.pc = IF p = NoProc THEN "storeReads" ELSE "procReads"])
        /\ posted' = (posted \cup {s}) \ {NoSample}
    BY <1>5 DEF Ingest
  <2> DEFINE pc == IF p = NoProc THEN "storeReads" ELSE "procReads"
             r == [NoRequest EXCEPT !.sample = s, !.proc = p, !.pc = pc]
  <2>1. r.sample = s
    BY DEF NoRequest
  <2>2. req'[w] = r /\ \A v \in Workers \ {w} : req'[v] = req[v]
    BY <1>t DEF Receive
  <2>3. posted \subseteq posted'
    BY <1>t, ConstantFacts
  <2>4. s # NoSample => s \in posted' \ posted
    OBVIOUS
  <2> HIDE DEF r
  <2>5. SampleIsPosted(w)
    BY <1>1, <2>1, <2>2, <2>3, <2>4 DEF SampleIsPosted, StillCarries, Carries
  <2> QED
    BY <2>5 DEF SampleStep
<1> QED
  BY <1>3, <1>4, <1>5 DEF Arrives

\* StoreSamples writes the document it read with the payload it carries.
LEMMA StoreSamplesStep ==
  ASSUME BackendInv, NEW w \in Workers, StoreSamplesWrites(w), ~raced'
  PROVE  ~raced /\ Keeps(doc, doc') /\ SampleStep
<1> DEFINE c == req[w].run
           written == WithSample(c, req[w].sample)
<1>0. req[w].sample \in Samples /\ At(w, "storeWrites")
  BY InvFacts DEF StoreSamplesWrites, At, Sound
<1>1. c \in RunDocument /\ req \in [Workers -> Request] /\ doc \in RunDocument
  BY InvFacts DEF Request
<1>2. ~raced /\ Content(c) = Content(doc)
  BY DEF StoreSamplesWrites
<1>3. /\ written.samples = Append(doc.samples, req[w].sample)
      /\ Keeps(doc, written) /\ Keeps(doc, doc)
  <2>1. /\ c.samples = doc.samples /\ c.finished = doc.finished
        /\ c.exportToBigquery = doc.exportToBigquery
    BY <1>1, <1>2, SameContent
  <2>2. written.samples = Append(c.samples, req[w].sample)
    BY <1>1 DEF WithSample, Touched, RunDocument
  <2>3. Keeps(c, written)
    BY <1>0, <1>1, OperationsKeep
  <2> QED
    BY <1>1, <2>1, <2>2, <2>3, OperationsKeep DEF Keeps
<1> HIDE DEF written
<1>4. doc' \in {doc, written}
  BY DEF StoreSamplesWrites, WriteFails, written
<1>5. ~Carries(w)' /\ (\A v \in Workers : StillCarries(v)) /\ posted' = posted
  <2>1. Respond(w) \/ Goto(w, "evaluate")
    BY DEF StoreSamplesWrites
  <2>2. posted' = posted
    BY DEF StoreSamplesWrites
  <2> QED
    BY <1>1, <2>1, <2>2, RespondCarries, GotoCarries DEF Storing
<1>6. Carries(w)
  BY <1>0, ConstantFacts DEF Carries, Storing, At
<1> QED
  BY <1>2, <1>3, <1>4, <1>5, <1>6 DEF SampleStep, SamplesStay, SampleIsStored

\* The other steps of a request keep what the document says, and its samples.
LEMMA OtherServices ==
  ASSUME BackendInv, PredictionTypeOK, NEW w \in Workers, Serves(w),
         ~StoreSamplesWrites(w), ~raced'
  PROVE  ~raced /\ Keeps(doc, doc') /\ SamplesStay
<1>t. /\ doc \in RunDocument /\ req \in [Workers -> Request] /\ req[w] \in Request
      /\ raced \in BOOLEAN
  BY InvFacts DEF HistoriesTypeOK
<1>0. ASSUME NEW d \in {WithExportFlag(doc), WithPredictiveFlag(doc),
                        WithCheckpoints(doc, CheckpointsToStore(w)), doc}
      PROVE  Keeps(doc, d) /\ d.samples = doc.samples
  <2>1. Keeps(doc, d)
    BY <1>t, OperationsKeep
  <2>2. d.samples = doc.samples
    BY <1>t DEF WithExportFlag, WithPredictiveFlag, WithCheckpoints, Touched, RunDocument
  <2> QED
    BY <2>1, <2>2
<1>p. AfterProcessInfo(w) /\ At(w, "procReads") => \A v \in Workers : StillCarries(v)
  BY <1>t, RespondCarries, GotoCarries DEF AfterProcessInfo, At, Storing
<1>q. AfterProcessInfo(w) /\ At(w, "procWrites") => \A v \in Workers : StillCarries(v)
  BY <1>t, RespondCarries, GotoCarries DEF AfterProcessInfo, At, Storing
<1>r. UNCHANGED req => \A v \in Workers : StillCarries(v)
  BY DEF StillCarries, Carries
<1>1. CASE SetRunExportToBigquery(w)
  <2>1. Goto(w, "authPredictive") \/ Respond(w)
    BY <1>1 DEF SetRunExportToBigquery, AfterExportFlag
  <2>2. \A v \in Workers : StillCarries(v)
    BY <1>t, <2>1, RespondCarries, GotoCarries DEF Storing
  <2>3. doc' \in {doc, WithExportFlag(doc)} /\ UNCHANGED <<posted, raced>>
    BY <1>1 DEF SetRunExportToBigquery, WriteFails
  <2> QED
    BY <1>0, <2>2, <2>3 DEF SamplesStay
<1>2. CASE SetRunPredictiveReliability(w)
  <2>1. doc' \in {doc, WithPredictiveFlag(doc)} /\ UNCHANGED <<posted, raced>>
    BY <1>2 DEF SetRunPredictiveReliability, WriteFails, historyVars
  <2>2. \A v \in Workers : StillCarries(v)
    BY <1>2, <1>t, RespondCarries DEF SetRunPredictiveReliability
  <2> QED
    BY <1>0, <2>1, <2>2 DEF SamplesStay
<1>3. CASE StoreProcessInfoReads(w)
  <2>1. UNCHANGED <<doc, posted, raced>>
    BY <1>3 DEF StoreProcessInfoReads, storeVars, historyVars
  <2>2. CASE req' = [req EXCEPT ![w].pc = "procWrites", ![w].processes = procDoc]
    <3> DEFINE r == [req[w] EXCEPT !.pc = "procWrites", !.processes = procDoc]
    <3>0. r \in Request
      BY <1>t, InvFacts, RequestUpdates DEF ReqPcs
    <3>1. r \in Request /\ r.sample = req[w].sample
      BY <1>t, <3>0 DEF Request
    <3>2. req' = [req EXCEPT ![w] = r]
      BY <1>t, <2>2
    <3>3. req[w].pc \in Storing
      BY <1>3 DEF StoreProcessInfoReads, At, Storing
    <3> HIDE DEF r
    <3> QED
      BY <1>0, <1>t, <2>1, <3>1, <3>2, <3>3, ReadCarries DEF SamplesStay
  <2>3. CASE AfterProcessInfo(w)
    BY <1>0, <1>3, <1>p, <2>1, <2>3 DEF SamplesStay, StoreProcessInfoReads
  <2> QED
    BY <1>3, <2>2, <2>3 DEF StoreProcessInfoReads
<1>4. CASE StoreProcessInfoWrites(w)
  <2>1. UNCHANGED <<doc, posted>> /\ ~raced
    BY <1>4, <1>t DEF StoreProcessInfoWrites
  <2> QED
    BY <1>0, <1>4, <1>q, <2>1 DEF SamplesStay, StoreProcessInfoWrites
<1>5. CASE StoreSamplesReads(w) \/ MarkRunAsFinishedReads(w)
  <2>1. UNCHANGED <<doc, posted, raced>>
    BY <1>5 DEF StoreSamplesReads, MarkRunAsFinishedReads, storeVars, historyVars
  <2>2. CASE Respond(w)
    BY <1>0, <1>t, <2>1, <2>2, RespondCarries DEF SamplesStay
  <2>3. ASSUME NEW pc \in {"storeWrites", "markWrites"},
               pc = "storeWrites" => req[w].pc \in Storing,
               req' = [req EXCEPT ![w].pc = pc, ![w].run = doc]
        PROVE  SamplesStay
    <3> DEFINE r == [req[w] EXCEPT !.pc = pc, !.run = doc]
    <3>0. r \in Request
      BY <1>t, RequestUpdates DEF ReqPcs
    <3>1. r \in Request /\ r.sample = req[w].sample /\ r.pc = pc
      BY <1>t, <3>0 DEF Request
    <3>2. req' = [req EXCEPT ![w] = r]
      BY <1>t, <2>3
    <3> HIDE DEF r
    <3>3. r.pc \in Storing => req[w].pc \in Storing
      BY <2>3, <3>1 DEF Storing
    <3> QED
      BY <1>t, <2>1, <3>1, <3>2, <3>3, ReadCarries DEF SamplesStay
  <2> QED
    BY <1>0, <1>5, <2>1, <2>2, <2>3 DEF StoreSamplesReads, MarkRunAsFinishedReads, At, Storing
<1>6. CASE Evaluate(w)
  <2>1. UNCHANGED <<doc, posted, raced>> /\ (Respond(w) \/ UNCHANGED req)
    BY <1>6 DEF Evaluate, EvaluateContinues, storeVars, historyVars
  <2> QED
    BY <1>0, <1>r, <1>t, <2>1, RespondCarries DEF SamplesStay
<1>7. CASE StorePredictionCheckpoint(w)
  <2>1. /\ doc' \in {doc, WithCheckpoints(doc, CheckpointsToStore(w))}
        /\ UNCHANGED posted /\ ~raced
    BY <1>7, <1>t DEF StorePredictionCheckpoint, WriteFails
  <2>2. Respond(w) \/ UNCHANGED req
    BY <1>7 DEF StorePredictionCheckpoint, EvaluateContinues
  <2> QED
    BY <1>0, <1>r, <1>t, <2>1, <2>2, RespondCarries DEF SamplesStay
<1>8. CASE MarkRunAsFinishedWrites(w)
  <2> DEFINE c == req[w].run
             written == MarkedFinished(c)
             due == IF written.exportToBigquery THEN stored ELSE {}
  <2>1. c \in RunDocument /\ ~raced /\ Content(c) = Content(doc)
    BY <1>8, <1>t DEF MarkRunAsFinishedWrites, Request
  <2>2. written.samples = doc.samples /\ Keeps(doc, written)
    <3>1. /\ c.samples = doc.samples /\ c.finished = doc.finished
          /\ c.exportToBigquery = doc.exportToBigquery
      BY <1>t, <2>1, SameContent
    <3>2. written.samples = c.samples /\ Keeps(c, written)
      BY <2>1, OperationsKeep DEF MarkedFinished, Touched, RunDocument
    <3> QED
      BY <3>1, <3>2 DEF Keeps
  <2> HIDE DEF written
  <2>3. doc' \in {doc, written} /\ UNCHANGED posted
    BY <1>8 DEF MarkRunAsFinishedWrites, WriteFails, written
  <2>4. \A v \in Workers : StillCarries(v)
    <3>1. CASE Respond(w)
      BY <1>t, <3>1, RespondCarries
    <3>2. CASE req' = [req EXCEPT ![w] = [NoRequest EXCEPT !.pc = "run", !.due = due]]
      <4>1. [NoRequest EXCEPT !.pc = "run", !.due = due].pc = "run"
        BY DEF NoRequest
      <4> QED
        BY <1>t, <3>2, <4>1 DEF StillCarries, Carries, Storing
    <3> QED
      BY <1>8, <3>1, <3>2 DEF MarkRunAsFinishedWrites, written
  <2> QED
    BY <1>0, <2>1, <2>2, <2>3, <2>4 DEF SamplesStay
<1>9. CASE ExportRuns(w) \/ Export(w)
  <2>1. UNCHANGED <<doc, posted, raced>>
    BY <1>9 DEF ExportRuns, Export, storeVars
  <2>2. Goto(w, "export") \/ Respond(w) \/ UNCHANGED req
    BY <1>9 DEF ExportRuns, Export
  <2> QED
    BY <1>0, <1>r, <1>t, <2>1, <2>2, RespondCarries, GotoCarries DEF SamplesStay, Storing
<1> QED
  BY <1>1, <1>2, <1>3, <1>4, <1>5, <1>6, <1>7, <1>8, <1>9 DEF Serves

\* Every step that is no race keeps what the document says.
LEMMA DocumentGrows ==
  ASSUME BackendInv, PredictionTypeOK, [Next]_vars, ~raced'
  PROVE  ~raced /\ Keeps(doc, doc') /\ SampleStep
<1>t. doc \in RunDocument /\ req \in [Workers -> Request]
  BY DEF BackendInv, RequestsTypeOK
<1>0. Keeps(doc, doc)
  BY <1>t, OperationsKeep
<1>1. ASSUME NEW w \in Workers, Arrives(w) PROVE ~raced /\ Keeps(doc, doc')
  <2>1. doc' = doc
    BY <1>1 DEF Arrives, Auth, Ingest, FinishRun, GetRun, HandleManualStaleCleanup, storeVars
  <2>2. raced' = raced
    BY <1>1 DEF Arrives, Auth, Ingest, FinishRun, GetRun, HandleManualStaleCleanup, historyVars
  <2> QED
    BY <1>0, <2>1, <2>2
<1>2. ASSUME NEW w \in Workers, Serves(w)
      PROVE  ~raced /\ Keeps(doc, doc') /\ SampleStep
  BY <1>2, StoreSamplesStep, OtherServices DEF SampleStep
<1>3. CASE TimeoutElapses
  <2>1. doc' = [doc EXCEPT !.quiet = TRUE] /\ UNCHANGED <<req, posted, raced>>
    BY <1>3 DEF TimeoutElapses, historyVars
  <2>2. doc'.samples = doc.samples /\ Keeps(doc, doc')
    BY <1>t, <2>1, OperationsKeep DEF RunDocument
  <2> QED
    BY <2>1, <2>2 DEF SampleStep, SamplesStay, StillCarries, Carries
<1>4. ASSUME NEW i \in Instances, Restart(i)
      PROVE  ~raced /\ Keeps(doc, doc') /\ SampleStep
  <2>1. UNCHANGED <<doc, posted, raced>>
    BY <1>4 DEF Restart, storeVars, historyVars
  <2>2. \A v \in Workers : req'[v] \in {req[v], NoRequest}
    BY <1>4 DEF Restart
  <2> QED
    BY <1>0, <2>1, <2>2 DEF SampleStep, SamplesStay, StillCarries, Carries, NoRequest, Storing
<1>5. CASE UNCHANGED vars
  BY <1>0, <1>5 DEF vars, storeVars, historyVars, SampleStep, SamplesStay, StillCarries, Carries
<1> QED
  BY <1>1, <1>2, <1>3, <1>4, <1>5, ArrivesSamples DEF Next

----------------------------------------------------------------------------
(***************************************************************************)
(* Rows.  A payload has one position in the document, which later writes   *)
(* keep, and the list a call has read is a prefix of the list of the       *)
(* document: so is every row in the table.                                 *)
(***************************************************************************)
PrefixOf(l, m) == \A i \in DOMAIN l : i \in DOMAIN m /\ m[i] = l[i]

SamplesInv ==
  ~raced =>
    /\ Range(doc.samples) \subseteq posted
    /\ \A w \in Workers : Carries(w) => req[w].sample \in posted \ Range(doc.samples)
    /\ \A v, w \in Workers :
         Carries(v) /\ Carries(w) /\ req[v].sample = req[w].sample => v = w
    /\ \A i, j \in DOMAIN doc.samples : doc.samples[i] = doc.samples[j] => i = j

RowsInv ==
  ~raced =>
    /\ \A r \in sampleRows : r[1] \in DOMAIN doc.samples /\ doc.samples[r[1]] = r[2]
    /\ \A w \in Workers : PrefixOf(call[w].samples, doc.samples)

LEMMA AppendFacts ==
  ASSUME NEW l \in Seq(Samples), NEW s
  PROVE  /\ DOMAIN Append(l, s) = DOMAIN l \cup {Len(l) + 1}
         /\ Len(l) + 1 \notin DOMAIN l
         /\ \A i \in DOMAIN l : Append(l, s)[i] = l[i]
         /\ Append(l, s)[Len(l) + 1] = s
         /\ Range(Append(l, s)) = Range(l) \cup {s}
<1>1. /\ DOMAIN Append(l, s) = DOMAIN l \cup {Len(l) + 1}
      /\ Len(l) + 1 \notin DOMAIN l
      /\ \A i \in DOMAIN l : Append(l, s)[i] = l[i]
      /\ Append(l, s)[Len(l) + 1] = s
  OBVIOUS
<1>2. Range(Append(l, s)) = Range(l) \cup {s}
  BY <1>1 DEF Range
<1> QED
  BY <1>1, <1>2

\* The list of the document only grows, at its end.
LEMMA ListGrows ==
  ASSUME BackendInv, PredictionTypeOK, [Next]_vars, ~raced'
  PROVE  PrefixOf(doc.samples, doc'.samples)
<1>1. doc.samples \in Seq(Samples) /\ SampleStep
  BY DocumentGrows DEF BackendInv, RequestsTypeOK, RunDocument
<1>2. CASE doc'.samples = doc.samples
  BY <1>2 DEF PrefixOf
<1>3. ASSUME NEW s, doc'.samples = Append(doc.samples, s)
      PROVE  PrefixOf(doc.samples, doc'.samples)
  BY <1>1, <1>3, AppendFacts DEF PrefixOf
<1> QED
  BY <1>1, <1>2, <1>3 DEF SampleStep, SamplesStay, SampleIsPosted, SampleIsStored

LEMMA SamplesKept ==
  ASSUME BackendInv, PredictionTypeOK, SamplesInv, [Next]_vars
  PROVE  SamplesInv'
<1> SUFFICES ASSUME ~raced' PROVE SamplesInv'
  BY DEF SamplesInv
<1>t. doc.samples \in Seq(Samples) /\ ~raced /\ SampleStep
  BY DocumentGrows DEF BackendInv, RequestsTypeOK, RunDocument
<1>1. CASE SamplesStay
  BY <1>1, <1>t DEF SamplesStay, SamplesInv, StillCarries
<1>2. ASSUME NEW w \in Workers, SampleIsPosted(w) PROVE SamplesInv'
  <2>0. /\ doc'.samples = doc.samples /\ posted \subseteq posted'
        /\ \A v \in Workers \ {w} : StillCarries(v)
        /\ Carries(w)' => req'[w].sample \in posted' \ posted
    BY <1>2 DEF SampleIsPosted
  <2>1. Range(doc.samples) \subseteq posted
    BY <1>t DEF SamplesInv
  <2>2. ASSUME NEW v \in Workers, v # w, Carries(v)'
        PROVE  Carries(v) /\ req'[v].sample = req[v].sample
    BY <2>0, <2>2 DEF StillCarries
  <2>3. ASSUME NEW v \in Workers, Carries(v)'
        PROVE  req'[v].sample \in posted' \ Range(doc.samples)
    BY <2>0, <2>1, <2>2, <2>3, <1>t DEF SamplesInv
  <2>4. ASSUME NEW u \in Workers, NEW v \in Workers, Carries(u)', Carries(v)',
               req'[u].sample = req'[v].sample
        PROVE  u = v
    BY <2>0, <2>2, <2>4, <1>t DEF SamplesInv
  <2> QED
    BY <2>0, <2>1, <2>3, <2>4, <1>t DEF SamplesInv
<1>3. ASSUME NEW w \in Workers, SampleIsStored(w) PROVE SamplesInv'
  <2> DEFINE s == req[w].sample
  <2>0. /\ Carries(w) /\ ~Carries(w)'
        /\ doc'.samples = Append(doc.samples, s) /\ posted' = posted
        /\ \A v \in Workers \ {w} : StillCarries(v)
    BY <1>3 DEF SampleIsStored
  <2>1. s \in posted \ Range(doc.samples)
    BY <2>0, <1>t DEF SamplesInv
  <2>2. ASSUME NEW v \in Workers, Carries(v)'
        PROVE  v # w /\ Carries(v) /\ req'[v].sample = req[v].sample
    BY <2>0, <2>2 DEF StillCarries
  <2>3. Range(doc'.samples) = Range(doc.samples) \cup {s}
    BY <2>0, <1>t, AppendFacts
  <2>4. ASSUME NEW v \in Workers, Carries(v)'
        PROVE  req'[v].sample \in posted' \ Range(doc'.samples)
    BY <2>0, <2>2, <2>3, <2>4, <1>t DEF SamplesInv
  <2>5. ASSUME NEW i \in DOMAIN doc'.samples, NEW j \in DOMAIN doc'.samples,
               doc'.samples[i] = doc'.samples[j]
        PROVE  i = j
    <3>1. \A k \in DOMAIN doc.samples : doc.samples[k] # s
      BY <2>1 DEF Range
    <3> HIDE DEF s
    <3> QED
      BY <2>0, <2>5, <3>1, <1>t, AppendFacts DEF SamplesInv
  <2>6. Range(doc'.samples) \subseteq posted'
    BY <2>0, <2>1, <2>3, <1>t DEF SamplesInv
  <2>7. ASSUME NEW u \in Workers, NEW v \in Workers, Carries(u)', Carries(v)',
               req'[u].sample = req'[v].sample
        PROVE  u = v
    BY <2>2, <2>7, <1>t DEF SamplesInv
  <2> QED
    BY <2>4, <2>5, <2>6, <2>7 DEF SamplesInv
<1> QED
  BY <1>t, <1>1, <1>2, <1>3 DEF SampleStep

\* The export moves in a step of a call, or when a call starts or is lost.
LEMMA ExportSteps ==
  ASSUME BackendInv, [Next]_vars
  PROVE  \/ UNCHANGED exportVars
         \/ \E w \in Workers : ExportRuns(w)
         \/ \E w \in Workers : Export(w) /\ AnyCallStep(w, doc, procDoc.info)
         \/ \E i \in Instances : Restart(i)
<1>1. ASSUME NEW w \in Workers, Arrives(w) PROVE UNCHANGED exportVars
  BY <1>1, ArrivesFrame
<1>2. ASSUME NEW w \in Workers, Export(w)
      PROVE  AnyCallStep(w, doc, procDoc.info)
  BY <1>2 DEF Export, ExportReads, ExportInserts, ExportWaits, AnyCallStep
<1>3. ASSUME NEW w \in Workers, Serves(w), ~ExportRuns(w), ~Export(w)
      PROVE  UNCHANGED exportVars
  BY <1>3
  DEF Serves, SetRunExportToBigquery, SetRunPredictiveReliability,
      StoreProcessInfoReads, StoreProcessInfoWrites, StoreSamplesReads,
      StoreSamplesWrites, Evaluate, StorePredictionCheckpoint,
      MarkRunAsFinishedReads, MarkRunAsFinishedWrites
<1>4. ASSUME TimeoutElapses \/ UNCHANGED vars PROVE UNCHANGED exportVars
  BY <1>4 DEF TimeoutElapses, vars
<1> QED
  BY <1>1, <1>2, <1>3, <1>4 DEF Next

LEMMA RowsKept ==
  ASSUME BackendInv, PredictionTypeOK, ExportInv, RowsInv, [Next]_vars
  PROVE  RowsInv'
<1> SUFFICES ASSUME ~raced' PROVE RowsInv'
  BY DEF RowsInv
<1>t. /\ ~raced /\ PrefixOf(doc.samples, doc'.samples) /\ doc.samples \in Seq(Samples)
      /\ procDoc.info \in SUBSET Procs /\ ExportTypeOK /\ call \in [Workers -> Call]
  BY DocumentGrows, ListGrows
  DEF BackendInv, RequestsTypeOK, RunDocument, ProcessDocument, ExportInv, ExportTypeOK
<1>0. ASSUME \A r \in sampleRows' : \/ r \in sampleRows
                                    \/ \E w \in Workers : r \in RowsOf(call[w].samples),
             \A w \in Workers : call'[w].samples \in {call[w].samples, doc.samples, <<>>}
      PROVE  RowsInv'
  <2>1. ASSUME NEW r \in sampleRows'
        PROVE  r[1] \in DOMAIN doc.samples /\ doc.samples[r[1]] = r[2]
    BY <1>0, <1>t DEF RowsInv, RowsOf, PrefixOf
  <2>2. ASSUME NEW w \in Workers
        PROVE  PrefixOf(call'[w].samples, doc.samples)
    BY <1>0, <1>t DEF RowsInv, PrefixOf
  <2> QED
    BY <1>t, <2>1, <2>2 DEF RowsInv, PrefixOf
<1>e. NoCall.samples = <<>> /\ [NoCall EXCEPT !.pc = "getRun"].samples = <<>>
  BY DEF NoCall
<1>1. CASE UNCHANGED exportVars
  BY <1>0, <1>1 DEF exportVars
<1>2. ASSUME NEW w \in Workers, ExportRuns(w) PROVE RowsInv'
  <2>1. UNCHANGED sampleRows
    BY <1>2 DEF ExportRuns, RunMarks, RunIsDuplicate, exportVars
  <2>2. call' \in {call, [call EXCEPT ![w] = [NoCall EXCEPT !.pc = "getRun"]]}
    BY <1>2 DEF ExportRuns, RunMarks, RunIsDuplicate, exportVars
  <2> QED
    BY <1>0, <1>e, <1>t, <2>1, <2>2
<1>3. ASSUME NEW w \in Workers, AnyCallStep(w, doc, procDoc.info) PROVE RowsInv'
  <2>1. \A r \in sampleRows' : r \in sampleRows \/ r \in RowsOf(call[w].samples)
    BY <1>3, <1>t, CallRows
  <2>2. CallGoesOn(w, doc) \/ CallEnds(w, doc)
    BY <1>3, <1>t, CallAdvances
  <2>3. call'[w].samples \in {call[w].samples, doc.samples, <<>>}
    BY <1>e, <2>2 DEF CallGoesOn, CallEnds
  <2>4. \A v \in Workers : v # w => call'[v] = call[v]
    BY <1>3, <1>t, CallOthers
  <2> QED
    BY <1>0, <2>1, <2>3, <2>4
<1>4. ASSUME NEW i \in Instances, Restart(i) PROVE RowsInv'
  <2>1. UNCHANGED sampleRows /\ \A w \in Workers : call'[w] \in {call[w], NoCall}
    BY <1>4 DEF Restart, InstanceRestarts
  <2> QED
    BY <1>0, <1>e, <2>1
<1> QED
  BY <1>1, <1>2, <1>3, <1>4, ExportSteps

\* A sample has one row in BigQuery: attempts of one call and calls of several
\* instances give it the InsertID of the position it has in the document.
THEOREM SamplesHaveOneRow == Spec => []OneRowPerSample
<1> DEFINE Inv == FullInv /\ SamplesInv /\ RowsInv
<1>1. Init => Inv
  <2> SUFFICES ASSUME Init PROVE SamplesInv /\ RowsInv
    BY InitInv
  <2>1. doc.samples = <<>> /\ posted = {} /\ sampleRows = {}
    BY DEF Init, NoRun, ExportInit
  <2>2. \A w \in Workers : call[w].samples = <<>> /\ ~Carries(w)
    BY DEF Init, ExportInit, NoCall, NoRequest, Carries, Storing
  <2> QED
    BY <2>1, <2>2 DEF SamplesInv, RowsInv, PrefixOf, Range
<1>2. Inv /\ [Next]_vars => Inv'
  BY StepInv, SamplesKept, RowsKept DEF FullInv
<1>3. Inv => OneRowPerSample
  <2> SUFFICES ASSUME Inv, ~raced, NEW r \in sampleRows, NEW q \in sampleRows, r[2] = q[2]
               PROVE  r = q
    BY DEF OneRowPerSample
  <2>1. r \in Nat \X Samples /\ q \in Nat \X Samples
    BY DEF FullInv, ExportInv, ExportTypeOK
  <2>2. r[1] = q[1]
    BY DEF SamplesInv, RowsInv
  <2> QED
    BY <2>1, <2>2
<1> HIDE DEF Inv
<1> QED
  BY <1>1, <1>2, <1>3, PTL DEF Spec

----------------------------------------------------------------------------
(***************************************************************************)
(* What is due.  Without a race one call of MarkRunAsFinished returns true,*)
(* before any mark was taken, so its export is never refused as a          *)
(* duplicate; what was stored by then is in the document it reads, in      *)
(* every attempt, and in the table once the call leaves its mark behind.   *)
(***************************************************************************)
NothingExported ==
  (\A i \in Instances : ~scheduled[i]) /\ (\A w \in Workers : ~At(w, "export"))

DueKept(w) ==
  /\ req[w].due \subseteq Range(doc.samples)
  /\ req[w].due # {} => doc.finished /\ doc.exportToBigquery
  /\ call[w].pc \in Reading =>
       req[w].due \subseteq Range(call[w].samples) /\ doc.finished /\ doc.exportToBigquery
  /\ Inserted(w) => req[w].due \subseteq Delivered

CallsInv == \A w \in Workers : Once(w) /\ (Exporting(w) <=> At(w, "export"))

FirstFinish ==
  /\ newly = 0 \/ (\E w \in Workers : At(w, "run")) => NothingExported
  /\ newly = 0 => \A w \in Workers : ~At(w, "run")
  /\ \A v, w \in Workers : At(v, "run") /\ At(w, "run") => v = w

DueInv ==
  /\ CallsInv
  /\ ~raced => /\ FirstFinish
               /\ \A w \in Workers : DueKept(w)
               /\ owed \subseteq Delivered

\* A step of a request outside of finishing and exporting the run.
DueStays(v) ==
  /\ At(v, "run")' <=> At(v, "run")
  /\ At(v, "export")' <=> At(v, "export")
  /\ req'[v].due \subseteq req[v].due

LEMMA MovesDue ==
  ASSUME req \in [Workers -> Request], NEW w \in Workers, NEW r,
         req' = [req EXCEPT ![w] = r], r.due \in {{}, req[w].due},
         r.pc \notin {"run", "export"}, req[w].pc \notin {"run", "export"}
  PROVE  \A v \in Workers : DueStays(v)
BY DEF DueStays, At

LEMMA RespondDue ==
  ASSUME req \in [Workers -> Request], NEW w \in Workers, Respond(w),
         req[w].pc \notin {"run", "export"}
  PROVE  \A v \in Workers : DueStays(v)
<1>1. NoRequest.pc = "idle" /\ NoRequest.due = {}
  BY DEF NoRequest
<1> QED
  BY <1>1, MovesDue DEF Respond

LEMMA GotoDue ==
  ASSUME req \in [Workers -> Request], NEW w \in Workers, NEW pc, Goto(w, pc),
         {pc, req[w].pc} \cap {"run", "export"} = {}
  PROVE  \A v \in Workers : DueStays(v)
<1> DEFINE r == [req[w] EXCEPT !.pc = pc]
<1>1. req' = [req EXCEPT ![w] = r] /\ r.pc = pc /\ r.due = req[w].due
  BY DEF Goto, Request
<1> HIDE DEF r
<1> QED
  BY <1>1, MovesDue

LEMMA ReadDue ==
  ASSUME req \in [Workers -> Request], NEW w \in Workers, NEW pc,
         \/ \E d : req' = [req EXCEPT ![w].pc = pc, ![w].run = d]
         \/ \E d : req' = [req EXCEPT ![w].pc = pc, ![w].processes = d],
         {pc, req[w].pc} \cap {"run", "export"} = {}
  PROVE  \A v \in Workers : DueStays(v)
<1>0. req[w] \in Request
  OBVIOUS
<1>1. ASSUME NEW d, req' = [req EXCEPT ![w].pc = pc, ![w].run = d]
      PROVE  \A v \in Workers : DueStays(v)
  <2> DEFINE r == [req[w] EXCEPT !.pc = pc, !.run = d]
  <2>1. req' = [req EXCEPT ![w] = r]
    BY <1>1
  <2>2. r.pc = pc /\ r.due = req[w].due
    BY <1>0 DEF Request
  <2> HIDE DEF r
  <2> QED
    BY <2>1, <2>2, MovesDue
<1>2. ASSUME NEW d, req' = [req EXCEPT ![w].pc = pc, ![w].processes = d]
      PROVE  \A v \in Workers : DueStays(v)
  <2> DEFINE r == [req[w] EXCEPT !.pc = pc, !.processes = d]
  <2>1. req' = [req EXCEPT ![w] = r]
    BY <1>2
  <2>2. r.pc = pc /\ r.due = req[w].due
    BY <1>0 DEF Request
  <2> HIDE DEF r
  <2> QED
    BY <2>1, <2>2, MovesDue
<1> QED
  BY <1>1, <1>2

LEMMA ArrivesDue ==
  ASSUME BackendInv, NEW w \in Workers, Arrives(w)
  PROVE  UNCHANGED <<newly, owed>> /\ \A v \in Workers : DueStays(v)
<1>t. req \in [Workers -> Request]
  BY InvFacts
<1>1. UNCHANGED <<newly, owed>>
  BY DEF Arrives, Auth, Ingest, FinishRun, GetRun, HandleManualStaleCleanup, historyVars
<1>2. At(w, "idle")
  BY DEF Arrives, Auth, Ingest, FinishRun, GetRun, HandleManualStaleCleanup, Receive
<1>3. \E r : /\ req' = [req EXCEPT ![w] = r] /\ r.due = {}
             /\ r.pc \notin {"run", "export"}
  <2>1. CASE Auth(w)
    <3> PICK predictive \in BOOLEAN, first \in {"authExport", "authPredictive"} :
          Receive(w, "auth", [NoRequest EXCEPT !.pc = first, !.predictive = predictive])
      BY <2>1 DEF Auth
    <3> DEFINE r == [NoRequest EXCEPT !.pc = first, !.predictive = predictive]
    <3>1. r.due = {} /\ r.pc = first
      BY DEF NoRequest
    <3> HIDE DEF r
    <3>2. req' = [req EXCEPT ![w] = r]
      BY DEF Receive, r
    <3> QED
      BY <3>1, <3>2
  <2>2. CASE Ingest(w)
    <3> PICK s \in (Samples \ posted) \cup {NoSample}, p \in Procs \cup {NoProc} :
          Receive(w, "ingest",
                  [NoRequest EXCEPT !.sample = s, !.proc = p,
                     !.pc = IF p = NoProc THEN "storeReads" ELSE "procReads"])
      BY <2>2 DEF Ingest
    <3> DEFINE pc == IF p = NoProc THEN "storeReads" ELSE "procReads"
               r == [NoRequest EXCEPT !.sample = s, !.proc = p, !.pc = pc]
    <3>1. r.due = {} /\ r.pc \in {"storeReads", "procReads"}
      BY DEF NoRequest
    <3> HIDE DEF r
    <3>2. req' = [req EXCEPT ![w] = r]
      BY DEF Receive, r
    <3> QED
      BY <3>1, <3>2
  <2>3. CASE FinishRun(w) \/ GetRun(w) \/ HandleManualStaleCleanup(w)
    <3>1. Marking.due = {} /\ Marking.pc = "markReads"
      BY DEF Marking, NoRequest
    <3> QED
      BY <2>3, <3>1 DEF FinishRun, GetRun, HandleManualStaleCleanup, Receive
  <2> QED
    BY <2>1, <2>2, <2>3 DEF Arrives
<1> QED
  BY <1>t, <1>1, <1>2, <1>3, MovesDue DEF At

\* So do the steps that serve it until it finishes the run.
LEMMA ServesDue ==
  ASSUME BackendInv, NEW w \in Workers, Serves(w),
         ~MarkRunAsFinishedWrites(w), ~ExportRuns(w), ~Export(w)
  PROVE  UNCHANGED <<newly, owed>> /\ \A v \in Workers : DueStays(v)
<1>t. req \in [Workers -> Request] /\ newly \in 0..2
  BY InvFacts DEF HistoriesTypeOK
<1>r. UNCHANGED req => \A v \in Workers : DueStays(v)
  BY DEF DueStays, At
<1>1. CASE SetRunExportToBigquery(w) \/ SetRunPredictiveReliability(w)
  <2>1. Goto(w, "authPredictive") \/ Respond(w)
    BY <1>1 DEF SetRunExportToBigquery, SetRunPredictiveReliability, AfterExportFlag
  <2>2. UNCHANGED <<newly, owed>> /\ req[w].pc \in {"authExport", "authPredictive"}
    BY <1>1 DEF SetRunExportToBigquery, SetRunPredictiveReliability, At, historyVars
  <2> QED
    BY <1>t, <2>1, <2>2, RespondDue, GotoDue
<1>2. CASE StoreProcessInfoReads(w)
  <2>1. UNCHANGED <<newly, owed>> /\ req[w].pc = "procReads"
    BY <1>2 DEF StoreProcessInfoReads, At, historyVars
  <2>2. \/ Respond(w) \/ Goto(w, "storeReads")
        \/ req' = [req EXCEPT ![w].pc = "procWrites", ![w].processes = procDoc]
    BY <1>2 DEF StoreProcessInfoReads, AfterProcessInfo
  <2> QED
    BY <1>t, <2>1, <2>2, RespondDue, GotoDue, ReadDue
<1>3. CASE StoreProcessInfoWrites(w)
  <2>1. UNCHANGED <<newly, owed>> /\ req[w].pc = "procWrites"
    BY <1>3 DEF StoreProcessInfoWrites, At
  <2>2. Respond(w) \/ Goto(w, "storeReads")
    BY <1>3 DEF StoreProcessInfoWrites, AfterProcessInfo
  <2> QED
    BY <1>t, <2>1, <2>2, RespondDue, GotoDue
<1>4. CASE StoreSamplesReads(w) \/ MarkRunAsFinishedReads(w)
  <2>1. UNCHANGED <<newly, owed>> /\ req[w].pc \in {"storeReads", "markReads"}
    BY <1>4 DEF StoreSamplesReads, MarkRunAsFinishedReads, At, historyVars
  <2>2. \/ Respond(w)
        \/ \E pc \in {"storeWrites", "markWrites"} :
             req' = [req EXCEPT ![w].pc = pc, ![w].run = doc]
    BY <1>4 DEF StoreSamplesReads, MarkRunAsFinishedReads
  <2> QED
    BY <1>t, <2>1, <2>2, RespondDue, ReadDue
<1>5. CASE StoreSamplesWrites(w)
  <2>1. UNCHANGED <<newly, owed>> /\ req[w].pc = "storeWrites"
    BY <1>5 DEF StoreSamplesWrites, At
  <2>2. Respond(w) \/ Goto(w, "evaluate")
    BY <1>5 DEF StoreSamplesWrites
  <2> QED
    BY <1>t, <2>1, <2>2, RespondDue, GotoDue
<1>6. CASE Evaluate(w) \/ StorePredictionCheckpoint(w)
  <2>1. UNCHANGED <<newly, owed>> /\ req[w].pc = "evaluate"
    BY <1>6 DEF Evaluate, StorePredictionCheckpoint, At, historyVars
  <2>2. Respond(w) \/ UNCHANGED req
    BY <1>6 DEF Evaluate, StorePredictionCheckpoint, EvaluateContinues
  <2> QED
    BY <1>r, <1>t, <2>1, <2>2, RespondDue
<1> QED
  BY <1>1, <1>2, <1>3, <1>4, <1>5, <1>6 DEF Serves

\* What is due to a request stays in the document, in its call and in the table.
LEMMA DueFrame ==
  ASSUME NEW v \in Workers, DueKept(v), Keeps(doc, doc'), call'[v] = call[v],
         req'[v].due \subseteq req[v].due, sampleRows \subseteq sampleRows'
  PROVE  DueKept(v)'
<1>1. Delivered \subseteq Delivered'
  BY DEF Delivered
<1>2. Inserted(v)' => Inserted(v)
  BY DEF Inserted
<1>3. (call'[v].pc \in Reading) => (call[v].pc \in Reading) /\ call'[v].samples = call[v].samples
  OBVIOUS
<1> QED
  BY <1>1, <1>2, <1>3 DEF DueKept, Keeps

LEMMA QuietDue ==
  ASSUME DueInv, ~raced' => ~raced /\ Keeps(doc, doc'), UNCHANGED exportVars,
         UNCHANGED <<newly, owed>>, \A v \in Workers : DueStays(v)
  PROVE  DueInv'
<1>1. CallsInv'
  BY DEF DueInv, CallsInv, Once, Exporting, DueStays, exportVars
<1>2. ASSUME ~raced' PROVE FirstFinish'
  BY <1>2 DEF DueInv, FirstFinish, NothingExported, DueStays, exportVars
<1>3. ASSUME ~raced', NEW v \in Workers PROVE DueKept(v)'
  BY <1>3, DueFrame DEF DueInv, DueStays, exportVars
<1>4. ASSUME ~raced' PROVE owed' \subseteq Delivered'
  BY <1>4 DEF DueInv, Delivered, exportVars
<1> QED
  BY <1>1, <1>2, <1>3, <1>4 DEF DueInv

\* The finish: nobody has been told of one before, and nothing was exported.
LEMMA FinishDue ==
  ASSUME BackendInv, BackendInv', DueInv, NEW w \in Workers,
         MarkRunAsFinishedWrites(w), ~raced' => ~raced /\ Keeps(doc, doc')
  PROVE  DueInv'
<1> DEFINE written == MarkedFinished(req[w].run)
           due == IF written.exportToBigquery THEN stored ELSE {}
           r == [NoRequest EXCEPT !.pc = "run", !.due = due]
<1>t. /\ req \in [Workers -> Request] /\ req[w] \in Request /\ Sound(req[w])
      /\ HistoriesTypeOK /\ Kept /\ Kept' /\ doc \in RunDocument
  BY InvFacts DEF BackendInv
<1>0. /\ req[w].pc = "markWrites" /\ UNCHANGED <<owed, stored, exportVars>>
      /\ raced' = (raced \/ Content(req[w].run) # Content(doc))
  BY DEF MarkRunAsFinishedWrites, At
<1>1. CASE Respond(w) /\ UNCHANGED newly
  BY <1>0, <1>1, <1>t, RespondDue, QuietDue
<1>2. CASE /\ doc' = written /\ newly' = IF newly < 2 THEN newly + 1 ELSE 2
           /\ req' = [req EXCEPT ![w] = r]
  <2>r. r.pc = "run" /\ r.due = due
    BY DEF NoRequest
  <2>1. req'[w] = r /\ \A v \in Workers : v # w => req'[v] = req[v]
    BY <1>2, <1>t
  <2>w. written.finished
    BY <1>t DEF MarkedFinished, Touched, RunDocument, Request
  <2>d. due \subseteq stored /\ (due # {} => written.exportToBigquery)
    OBVIOUS
  <2> HIDE DEF r, due, written
  <2>2. CallsInv'
    <3>1. ASSUME NEW v \in Workers PROVE At(v, "export")' <=> At(v, "export")
      BY <1>0, <2>r, <2>1 DEF At
    <3> QED
      BY <1>0, <3>1 DEF DueInv, CallsInv, Once, Exporting, exportVars
  <2>3. ASSUME ~raced'
        PROVE  /\ newly = 0 /\ newly' = 1 /\ NothingExported
               /\ \A v \in Workers : ~At(v, "run")
    <3>1. ~raced /\ Content(req[w].run) = Content(doc) /\ ~req[w].run.finished
      BY <1>0, <1>t, <2>3 DEF Sound
    <3>2. ~doc.finished
      BY <1>t, <3>1, SameContent DEF Request
    <3>3. newly = 0
      BY <1>t, <3>1, <3>2 DEF Kept, HistoriesTypeOK
    <3> QED
      BY <1>2, <3>1, <3>3 DEF DueInv, FirstFinish
  <2>4. ASSUME ~raced' PROVE FirstFinish'
    <3>1. NothingExported'
      BY <1>0, <2>1, <2>3, <2>4, <2>r DEF NothingExported, At, exportVars
    <3>2. \A v \in Workers : At(v, "run")' => v = w
      BY <2>1, <2>3, <2>4 DEF At
    <3> QED
      BY <2>3, <2>4, <3>1, <3>2 DEF FirstFinish
  <2>5. ASSUME ~raced' PROVE DueKept(w)'
    <3>1. ~Exporting(w) /\ Once(w)
      BY <1>0 DEF DueInv, CallsInv, At
    <3>2. call'[w] = call[w] /\ call[w].pc \notin Reading /\ ~Inserted(w)
      BY <1>0, <3>1 DEF exportVars, Exporting, Reading, Once, Inserted
    <3>3. ~Inserted(w)'
      BY <3>2 DEF Inserted
    <3>4. due \subseteq Range(doc'.samples)
      BY <1>0, <1>t, <2>5, <2>d DEF Kept
    <3>5. due # {} => doc'.finished /\ doc'.exportToBigquery
      BY <1>2, <2>w, <2>d
    <3> QED
      BY <2>1, <2>r, <3>2, <3>3, <3>4, <3>5 DEF DueKept
  <2>6. ASSUME ~raced', NEW v \in Workers, v # w PROVE DueKept(v)'
    BY <1>0, <2>1, <2>6, DueFrame DEF DueInv, exportVars
  <2>7. ASSUME ~raced' PROVE owed' \subseteq Delivered'
    BY <1>0, <2>7 DEF DueInv, Delivered, exportVars
  <2> QED
    BY <2>2, <2>4, <2>5, <2>6, <2>7 DEF DueInv
<1> QED
  BY <1>1, <1>2 DEF MarkRunAsFinishedWrites

\* The call of Scheduler.Run takes the mark: without a race it finds it free.
LEMMA RunsDue ==
  ASSUME BackendInv, ExportInv, DueInv, NEW w \in Workers, ExportRuns(w)
  PROVE  DueInv'
<1>t. /\ req \in [Workers -> Request] /\ req[w] \in Request /\ doc \in RunDocument
      /\ call \in [Workers -> Call] /\ Keeps(doc, doc) /\ InstanceOf[w] \in Instances
  BY InvFacts, OperationsKeep, ConstantFacts DEF ExportInv, ExportTypeOK
<1>0. req[w].pc = "run" /\ UNCHANGED <<doc, newly, raced>>
  BY DEF ExportRuns, At, storeVars
<1>1. CASE RunIsDuplicate(w) /\ Respond(w) /\ owed' = owed \cup req[w].due
  <2>1. UNCHANGED exportVars /\ scheduled[InstanceOf[w]]
    BY <1>1 DEF RunIsDuplicate
  <2>2. raced
    BY <1>0, <1>t, <2>1 DEF DueInv, FirstFinish, NothingExported, At
  <2>3. CallsInv'
    <3>1. ASSUME NEW v \in Workers PROVE At(v, "export")' <=> At(v, "export")
      BY <1>0, <1>1, <1>t DEF Respond, At, NoRequest
    <3> QED
      BY <2>1, <3>1 DEF DueInv, CallsInv, Once, Exporting, exportVars
  <2> QED
    BY <1>0, <2>2, <2>3 DEF DueInv
<1>2. CASE RunMarks(w) /\ Goto(w, "export") /\ UNCHANGED owed
  <2> DEFINE c == [NoCall EXCEPT !.pc = "getRun"]
  <2>c. c.pc = "getRun" /\ c.samplesExported = FALSE
    BY DEF NoCall
  <2>1. /\ call'[w] = c /\ (\A v \in Workers : v # w => call'[v] = call[v])
        /\ UNCHANGED sampleRows
    BY <1>2, <1>t DEF RunMarks
  <2>2. /\ req'[w].pc = "export" /\ req'[w].due = req[w].due
        /\ \A v \in Workers : v # w => req'[v] = req[v]
    BY <1>2, <1>t DEF Goto, Request
  <2> HIDE DEF c
  <2>3. CallsInv'
    <3>1. Once(w)' /\ (Exporting(w)' <=> At(w, "export")')
      BY <2>1, <2>2, <2>c DEF Once, Exporting, At
    <3>2. ASSUME NEW v \in Workers, v # w
          PROVE  Once(v)' /\ (Exporting(v)' <=> At(v, "export")')
      BY <2>1, <2>2, <3>2 DEF DueInv, CallsInv, Once, Exporting, At
    <3> QED
      BY <3>1, <3>2 DEF CallsInv
  <2>4. ASSUME ~raced PROVE FirstFinish'
    <3>1. newly # 0 /\ \A v \in Workers : ~At(v, "run")'
      BY <1>0, <2>2, <2>4 DEF DueInv, FirstFinish, At
    <3> QED
      BY <1>0, <3>1 DEF FirstFinish
  <2>5. ASSUME ~raced, NEW v \in Workers PROVE DueKept(v)'
    <3>1. CASE v # w
      <4>1. DueKept(v) /\ Keeps(doc, doc')
        BY <1>0, <1>t, <2>5 DEF DueInv
      <4>2. call'[v] = call[v] /\ req'[v].due = req[v].due /\ sampleRows' = sampleRows
        BY <2>1, <2>2, <3>1
      <4> QED
        BY <4>1, <4>2, DueFrame
    <3>2. CASE v = w
      <4>1. DueKept(w)
        BY <2>5 DEF DueInv
      <4>2. call'[w].pc \notin Reading /\ ~Inserted(w)'
        BY <2>1, <2>c DEF Reading, Inserted
      <4> QED
        BY <1>0, <2>2, <3>2, <4>1, <4>2 DEF DueKept
    <3> QED
      BY <3>1, <3>2
  <2>6. ASSUME ~raced PROVE owed' \subseteq Delivered'
    BY <1>2, <2>1, <2>6 DEF DueInv, Delivered
  <2> QED
    BY <1>0, <2>3, <2>4, <2>5, <2>6 DEF DueInv
<1> QED
  BY <1>1, <1>2 DEF ExportRuns

\* The rows of a list deliver what is in it.
LEMMA RowsDelivered ==
  ASSUME NEW l, RowsOf(l) \subseteq sampleRows'
  PROVE  Range(l) \subseteq Delivered'
<1> SUFFICES ASSUME NEW i \in DOMAIN l PROVE l[i] \in Delivered'
  BY DEF Range
<1>1. <<i, l[i]>> \in sampleRows' /\ <<i, l[i]>>[2] = l[i]
  BY DEF RowsOf
<1> QED
  BY <1>1 DEF Delivered

\* A step of the call keeps what is due, and pays it when it leaves the mark.
LEMMA ExportDue ==
  ASSUME BackendInv, ExportInv, DueInv, NEW w \in Workers, Export(w),
         AnyCallStep(w, doc, procDoc.info)
  PROVE  DueInv'
<1>t. /\ req \in [Workers -> Request] /\ req[w] \in Request /\ doc \in RunDocument
      /\ call \in [Workers -> Call] /\ Keeps(doc, doc) /\ ExportTypeOK
      /\ doc.samples \in Seq(Samples) /\ procDoc.info \in SUBSET Procs
      /\ NoCall.pc = "idle" /\ NoCall.samplesExported = FALSE
  BY InvFacts, OperationsKeep DEF ExportInv, ExportTypeOK, RunDocument, ProcessDocument, NoCall
<1>0. /\ req[w].pc = "export" /\ UNCHANGED <<doc, newly, raced>>
      /\ owed' = IF call'[w].pc = "idle" /\ scheduled'[InstanceOf[w]]
                 THEN owed \cup req[w].due ELSE owed
  BY DEF Export, At, storeVars
<1>1. \A v \in Workers : v # w => call'[v] = call[v]
  BY <1>t, CallOthers
<1>2. sampleRows \subseteq sampleRows'
  BY <1>t, CallRows
<1>3. IF call'[w].pc = "idle" THEN Respond(w) ELSE UNCHANGED req
  BY DEF Export
<1>4. \A v \in Workers : v # w => req'[v] = req[v]
  BY <1>3, <1>t DEF Respond
<1>5. CallGoesOn(w, doc) \/ CallEnds(w, doc)
  BY <1>t, CallAdvances
<1>6. CASE CallEnds(w, doc)
  <2>1. call'[w] = NoCall /\ req'[w] = NoRequest
    BY <1>3, <1>6, <1>t DEF CallEnds, Respond
  <2>n. NoRequest.pc = "idle" /\ NoRequest.due = {}
    BY DEF NoRequest
  <2>2. CallsInv'
    <3>1. Once(w)' /\ (Exporting(w)' <=> At(w, "export")')
      BY <1>t, <2>1, <2>n DEF Once, Exporting, At
    <3>2. ASSUME NEW v \in Workers, v # w
          PROVE  Once(v)' /\ (Exporting(v)' <=> At(v, "export")')
      BY <1>1, <1>4, <3>2 DEF DueInv, CallsInv, Once, Exporting, At
    <3> QED
      BY <3>1, <3>2 DEF CallsInv
  <2>3. ASSUME ~raced PROVE FirstFinish'
    <3>1. newly # 0 /\ \A v \in Workers : ~At(v, "run")
      BY <1>0, <2>3 DEF DueInv, FirstFinish, NothingExported, At
    <3>2. \A v \in Workers : ~At(v, "run")'
      BY <1>4, <2>1, <2>n, <3>1 DEF At
    <3> QED
      BY <1>0, <3>1, <3>2 DEF FirstFinish
  <2>4. ASSUME ~raced, NEW v \in Workers PROVE DueKept(v)'
    <3>1. CASE v # w
      <4>1. DueKept(v) /\ Keeps(doc, doc')
        BY <1>0, <1>t, <2>4 DEF DueInv
      <4>2. call'[v] = call[v] /\ req'[v].due = req[v].due
        BY <1>1, <1>4, <3>1
      <4> QED
        BY <1>2, <4>1, <4>2, DueFrame
    <3>2. CASE v = w
      BY <1>t, <2>1, <2>n, <3>2 DEF DueKept, Reading
    <3> QED
      BY <3>1, <3>2
  <2>5. ASSUME ~raced, scheduled'[InstanceOf[w]]
        PROVE  req[w].due \subseteq Delivered'
    <3>0. DueKept(w) /\ Delivered \subseteq Delivered'
      BY <1>2, <2>5 DEF DueInv, Delivered
    <3>1. CASE ~(doc.finished /\ doc.exportToBigquery)
      BY <3>0, <3>1 DEF DueKept
    <3>2. CASE call[w].pc \in Reading /\ RowsOf(call[w].samples) \subseteq sampleRows'
      BY <3>0, <3>2, RowsDelivered DEF DueKept
    <3>3. CASE Inserted(w)
      BY <3>0, <3>3 DEF DueKept
    <3> QED
      BY <1>6, <2>5, <3>1, <3>2, <3>3 DEF CallEnds
  <2>6. ASSUME ~raced PROVE owed' \subseteq Delivered'
    <3>1. owed \subseteq Delivered'
      BY <1>2, <2>6 DEF DueInv, Delivered
    <3> QED
      BY <1>0, <2>5, <2>6, <3>1
  <2> QED
    BY <1>0, <2>2, <2>3, <2>4, <2>6 DEF DueInv
<1>7. CASE CallGoesOn(w, doc)
  <2>1. call'[w].pc # "idle" /\ UNCHANGED <<req, owed>>
    BY <1>0, <1>3, <1>7 DEF CallGoesOn
  <2>2. CallsInv'
    <3>1. Once(w)'
      BY <1>t, CallOnce DEF DueInv, CallsInv
    <3>2. Exporting(w)' <=> At(w, "export")'
      BY <1>0, <2>1 DEF Exporting, At
    <3>3. ASSUME NEW v \in Workers, v # w
          PROVE  Once(v)' /\ (Exporting(v)' <=> At(v, "export")')
      BY <1>1, <2>1, <3>3 DEF DueInv, CallsInv, Once, Exporting, At
    <3> QED
      BY <3>1, <3>2, <3>3 DEF CallsInv
  <2>3. ASSUME ~raced PROVE FirstFinish'
    <3>1. newly # 0 /\ \A v \in Workers : ~At(v, "run")
      BY <1>0, <2>3 DEF DueInv, FirstFinish, NothingExported, At
    <3>2. \A v \in Workers : ~At(v, "run")'
      BY <2>1, <3>1 DEF At
    <3> QED
      BY <1>0, <3>1, <3>2 DEF FirstFinish
  <2>4. ASSUME ~raced, NEW v \in Workers PROVE DueKept(v)'
    <3>0. DueKept(v) /\ Keeps(doc, doc')
      BY <1>0, <1>t, <2>4 DEF DueInv
    <3>1. CASE v # w
      BY <1>1, <1>2, <2>1, <3>0, <3>1, DueFrame
    <3>2. CASE v = w
      <4>1. Delivered \subseteq Delivered'
        BY <1>2 DEF Delivered
      <4>2. call'[w].pc \in Reading =>
              req[w].due \subseteq Range(call'[w].samples) /\ doc.finished /\ doc.exportToBigquery
        BY <1>7, <3>0, <3>2 DEF CallGoesOn, DueKept
      <4>3. Inserted(w)' => req[w].due \subseteq Delivered'
        BY <1>7, <3>0, <3>2, <4>1, RowsDelivered DEF CallGoesOn, DueKept
      <4> QED
        BY <1>0, <2>1, <3>0, <3>2, <4>2, <4>3 DEF DueKept
    <3> QED
      BY <3>1, <3>2
  <2>5. ASSUME ~raced PROVE owed' \subseteq Delivered'
    BY <1>2, <2>1, <2>5 DEF DueInv, Delivered
  <2> QED
    BY <1>0, <2>2, <2>3, <2>4, <2>5 DEF DueInv
<1> QED
  BY <1>5, <1>6, <1>7

LEMMA RestartDue ==
  ASSUME BackendInv, ExportInv, DueInv, NEW i \in Instances, Restart(i)
  PROVE  DueInv'
<1>t. /\ req \in [Workers -> Request] /\ doc \in RunDocument
      /\ call \in [Workers -> Call] /\ Keeps(doc, doc) /\ scheduled \in [Instances -> BOOLEAN]
      /\ NoCall.pc = "idle" /\ NoCall.samplesExported = FALSE
      /\ NoRequest.pc = "idle" /\ NoRequest.due = {}
  BY OperationsKeep DEF BackendInv, RequestsTypeOK, ExportInv, ExportTypeOK, NoCall, NoRequest
<1>0. UNCHANGED <<doc, newly, raced, owed, sampleRows>>
  BY DEF Restart, InstanceRestarts, storeVars, historyVars
<1>1. \A v \in Workers : \/ call'[v] = NoCall /\ req'[v] = NoRequest
                         \/ call'[v] = call[v] /\ req'[v] = req[v]
  BY DEF Restart, InstanceRestarts
<1>2. \A j \in Instances : scheduled'[j] => scheduled[j]
  BY <1>t DEF Restart, InstanceRestarts
<1>3. CallsInv'
  <2> SUFFICES ASSUME NEW v \in Workers
               PROVE  Once(v)' /\ (Exporting(v)' <=> At(v, "export")')
    BY DEF CallsInv
  <2> QED
    BY <1>1, <1>t DEF DueInv, CallsInv, Once, Exporting, At
<1>4. ASSUME ~raced PROVE FirstFinish'
  <2>1. \A v \in Workers : At(v, "run")' => At(v, "run")
    BY <1>1, <1>t DEF At
  <2>2. NothingExported => NothingExported'
    BY <1>1, <1>2, <1>t DEF NothingExported, At
  <2>3. FirstFinish
    BY <1>4 DEF DueInv
  <2> QED
    BY <1>0, <2>1, <2>2, <2>3 DEF FirstFinish
<1>5. ASSUME ~raced, NEW v \in Workers PROVE DueKept(v)'
  <2>0. DueKept(v) /\ Keeps(doc, doc')
    BY <1>0, <1>5, <1>t DEF DueInv
  <2>1. CASE call'[v] = NoCall /\ req'[v] = NoRequest
    BY <1>t, <2>1 DEF DueKept, Reading
  <2>2. CASE call'[v] = call[v] /\ req'[v] = req[v]
    BY <1>0, <2>0, <2>2, DueFrame
  <2> QED
    BY <1>1, <2>1, <2>2
<1>6. ASSUME ~raced PROVE owed' \subseteq Delivered'
  BY <1>0, <1>6 DEF DueInv, Delivered
<1> QED
  BY <1>0, <1>3, <1>4, <1>5, <1>6 DEF DueInv

LEMMA DueStep ==
  ASSUME BackendInv, BackendInv', PredictionTypeOK, ExportInv, DueInv, [Next]_vars
  PROVE  DueInv'
<1>t. ~raced' => ~raced /\ Keeps(doc, doc')
  BY DocumentGrows
<1>1. ASSUME NEW w \in Workers, Arrives(w) PROVE DueInv'
  BY <1>1, <1>t, ArrivesDue, ArrivesFrame, QuietDue
<1>2. ASSUME NEW w \in Workers, Export(w) PROVE DueInv'
  <2>1. AnyCallStep(w, doc, procDoc.info)
    BY <1>2 DEF Export, ExportReads, ExportInserts, ExportWaits, AnyCallStep
  <2> QED
    BY <1>2, <2>1, ExportDue
<1>3. ASSUME NEW w \in Workers, Serves(w), ~MarkRunAsFinishedWrites(w),
             ~ExportRuns(w), ~Export(w)
      PROVE  DueInv'
  <2>1. UNCHANGED exportVars
    BY <1>3
    DEF Serves, SetRunExportToBigquery, SetRunPredictiveReliability,
        StoreProcessInfoReads, StoreProcessInfoWrites, StoreSamplesReads,
        StoreSamplesWrites, Evaluate, StorePredictionCheckpoint, MarkRunAsFinishedReads
  <2> QED
    BY <1>3, <1>t, <2>1, ServesDue, QuietDue
<1>4. ASSUME TimeoutElapses \/ UNCHANGED vars PROVE DueInv'
  <2>1. UNCHANGED <<exportVars, newly, owed, req>>
    BY <1>4 DEF TimeoutElapses, vars, historyVars
  <2>2. \A v \in Workers : DueStays(v)
    BY <2>1 DEF DueStays, At
  <2> QED
    BY <1>t, <2>1, <2>2, QuietDue
<1> QED
  BY <1>1, <1>2, <1>3, <1>4, <1>t, FinishDue, RunsDue, RestartDue DEF Next

DeliveryInv == FullInv /\ DueInv

LEMMA InitDelivery == Init => DeliveryInv
<1> SUFFICES ASSUME Init PROVE DueInv
  BY InitInv DEF DeliveryInv
<1>1. \A w \in Workers : req[w].pc = "idle" /\ req[w].due = {}
  BY DEF Init, NoRequest
<1>2. \A w \in Workers : call[w].pc = "idle" /\ ~call[w].samplesExported
  BY DEF Init, ExportInit, NoCall
<1>3. newly = 0 /\ owed = {} /\ \A i \in Instances : ~scheduled[i]
  BY DEF Init, ExportInit
<1>4. CallsInv
  BY <1>1, <1>2 DEF CallsInv, Once, Exporting, At
<1>5. FirstFinish
  BY <1>1, <1>3 DEF FirstFinish, NothingExported, At
<1>6. \A w \in Workers : DueKept(w)
  BY <1>1, <1>2 DEF DueKept, Reading, Inserted
<1> QED
  BY <1>3, <1>4, <1>5, <1>6 DEF DueInv

LEMMA StepDelivery == DeliveryInv /\ [Next]_vars => DeliveryInv'
BY StepInv, DueStep DEF DeliveryInv, FullInv

\* The export of a finish that returned true has delivered what was stored when
\* the run was finished, through retries, partial inserts and restarts.
THEOREM FinishedRunIsDelivered == Spec => []ExportDelivers
<1>1. DeliveryInv => ExportDelivers
  BY DEF DeliveryInv, DueInv, ExportDelivers
<1> QED
  BY <1>1, InitDelivery, StepDelivery, PTL DEF Spec

\* ExportedRunsOptedIn: a call inserts only what it has read from a run that is
\* finished and opted in, and without a race the run still is.
THEOREM OnlyOptedInRunsAreExported == Spec => ExportedRunsOptedIn
<1>1. DeliveryInv /\ [Next]_vars
        => [(sampleRows' # sampleRows \/ processRows' # processRows)
              => raced \/ (doc.finished /\ doc.exportToBigquery)]_vars
  <2> SUFFICES ASSUME DeliveryInv, [Next]_vars, ~raced,
                      sampleRows' # sampleRows \/ processRows' # processRows
               PROVE  doc.finished /\ doc.exportToBigquery
    OBVIOUS
  <2>1. PICK w \in Workers : AnyCallStep(w, doc, procDoc.info)
    <3>1. BackendInv
      BY DEF DeliveryInv, FullInv
    <3> QED
      BY <3>1, ExportSteps
      DEF ExportRuns, RunMarks, RunIsDuplicate, Restart, InstanceRestarts, exportVars
  <2>2. call[w].pc \in Reading
    BY <2>1, CallRows DEF DeliveryInv, FullInv, ExportInv
  <2> QED
    BY <2>2 DEF DeliveryInv, DueInv, DueKept
<1> QED
  BY <1>1, InitDelivery, StepDelivery, PTL DEF Spec, ExportedRunsOptedIn

----------------------------------------------------------------------------
(***************************************************************************)
(* One request at a time, on a Firestore that does not fail: what a step   *)
(* writes back is what the store has, so nothing is lost, and an answer of *)
(* the provider is stored before the next evaluation looks for it.         *)
(***************************************************************************)
Serial == (\A v, w \in Workers : v = w) /\ Faults \subseteq {"bigquery"}

Reached(win) == \E s \in posted : Elapsed[s] >= win

\* What the request has read is what the store still has.
ReqFresh(w) ==
  /\ At(w, "procWrites") => req[w].processes = procDoc
  /\ At(w, "storeWrites") \/ At(w, "markWrites") => Content(req[w].run) = Content(doc)
  /\ Evaluating(w) => At(w, "evaluate")

\* A window to ask for: no answer for it is stored, as far as the provider named
\* it only when asked for it.
Pends(win) == Reached(win) /\ (win \notin named => doc.checkpoints[win] # "ready")

EvalFresh(w) ==
  /\ eval[w].pc = "storeWrites" => eval[w].snapshot = doc.checkpoints
  /\ eval[w].pc \in {"predict", "storeReads", "storeWrites"} =>
       /\ eval[w].todo # {}
       /\ \A win \in eval[w].todo :
            Pends(win)
  /\ eval[w].pc \in {"storeReads", "storeWrites"} =>
       eval[w].observed = Window(w) \/ eval[w].observed \in named

HasAnswer(w, win) ==
  /\ eval[w].pc \in {"storeReads", "storeWrites"} /\ eval[w].status = "ready"
  /\ eval[w].observed = win

Answered(win) ==
  /\ win \in Windows =>
       /\ answers[win] \in {0, 1}
       /\ answers[win] = 1
            => doc.checkpoints[win] = "ready" \/ \E w \in Workers : HasAnswer(w, win)
  /\ doc.checkpoints[win] # "none" => win \in Windows /\ Reached(win)

SerialInv ==
  /\ ~raced
  /\ \A w \in Workers : ReqFresh(w) /\ EvalFresh(w)
  /\ \A win \in Marks \ named : Answered(win)

LEMMA SerialFacts ==
  ASSUME FullInv, NEW w \in Workers
  PROVE  /\ doc \in RunDocument /\ procDoc \in ProcessDocument /\ Sound(req[w])
         /\ req \in [Workers -> Request] /\ req[w] \in Request
         /\ eval \in [Workers -> Evaluation] /\ eval[w] \in Evaluation
         /\ answers \in [Windows -> 0..2] /\ named \subseteq Observed /\ posted \subseteq Samples
         /\ NoRequest.pc = "idle" /\ NoEvaluation.pc = "idle"
         /\ PredictionTypeOK
BY InvFacts DEF FullInv, PredictionTypeOK, NoRequest, NoEvaluation

\* While nothing is evaluated the checkpoints and their answers stay.
LEMMA NothingEvaluated ==
  ASSUME Serial, SerialInv, NEW w \in Workers, eval[w].pc = "idle",
         eval'[w].pc \in {"idle", "getRun"}, UNCHANGED <<answers, named>>,
         doc'.checkpoints = doc.checkpoints, posted \subseteq posted', ~raced', ReqFresh(w)'
  PROVE  SerialInv' /\ doc'.checkpoints = doc.checkpoints
<1>1. \A v \in Workers : v = w
  BY DEF Serial
<1>2. EvalFresh(w)'
  BY DEF EvalFresh
<1>3. ASSUME NEW win \in Marks \ named' PROVE Answered(win)'
  <2>1. Answered(win) /\ \A v \in Workers : ~HasAnswer(v, win)
    BY <1>1 DEF SerialInv, HasAnswer
  <2> QED
    BY <2>1 DEF Answered, Reached
<1> QED
  BY <1>1, <1>2, <1>3 DEF SerialInv

\* A request that is not evaluating takes its next step.
LEMMA ArrivesSerially ==
  ASSUME Serial, FullInv, SerialInv, NEW w \in Workers, Arrives(w)
  PROVE  SerialInv' /\ doc'.checkpoints = doc.checkpoints
<1>t. /\ req \in [Workers -> Request] /\ req[w] \in Request /\ posted \subseteq Samples
  BY SerialFacts
<1>0. /\ UNCHANGED <<doc, procDoc, raced, eval, answers, named>> /\ At(w, "idle")
  <2>1. UNCHANGED <<doc, procDoc>>
    BY DEF Arrives, Auth, Ingest, FinishRun, GetRun, HandleManualStaleCleanup, storeVars
  <2>2. UNCHANGED raced
    BY DEF Arrives, Auth, Ingest, FinishRun, GetRun, HandleManualStaleCleanup, historyVars
  <2>3. UNCHANGED <<eval, answers, named>>
    BY ArrivesFrame DEF predictionVars
  <2>4. At(w, "idle")
    BY DEF Arrives, Auth, Ingest, FinishRun, GetRun, HandleManualStaleCleanup, Receive
  <2> QED
    BY <2>1, <2>2, <2>3, <2>4
<1>1. eval[w].pc = "idle"
  BY <1>0 DEF SerialInv, ReqFresh, Evaluating, At
<1>2. posted \subseteq posted' /\ ~raced
  <2>1. CASE Ingest(w)
    BY <1>t, <2>1, ConstantFacts DEF Ingest, SerialInv
  <2> QED
    BY <2>1 DEF Arrives, Auth, FinishRun, GetRun, HandleManualStaleCleanup,
                historyVars, SerialInv
<1>3. req'[w].pc \notin {"procWrites", "storeWrites", "markWrites"}
  <2>1. CASE Auth(w)
    <3> PICK predictive \in BOOLEAN, first \in {"authExport", "authPredictive"} :
          Receive(w, "auth", [NoRequest EXCEPT !.pc = first, !.predictive = predictive])
      BY <2>1 DEF Auth
    <3>1. [NoRequest EXCEPT !.pc = first, !.predictive = predictive].pc = first
      BY DEF NoRequest
    <3> QED
      BY <1>t, <3>1 DEF Receive
  <2>2. CASE Ingest(w)
    <3> PICK s \in (Samples \ posted) \cup {NoSample}, p \in Procs \cup {NoProc} :
          Receive(w, "ingest",
                  [NoRequest EXCEPT !.sample = s, !.proc = p,
                     !.pc = IF p = NoProc THEN "storeReads" ELSE "procReads"])
      BY <2>2 DEF Ingest
    <3> DEFINE pc == IF p = NoProc THEN "storeReads" ELSE "procReads"
               r == [NoRequest EXCEPT !.sample = s, !.proc = p, !.pc = pc]
    <3>1. r.pc \in {"storeReads", "procReads"}
      BY DEF NoRequest
    <3>2. req'[w] = r
      BY <1>t DEF Receive
    <3> HIDE DEF r
    <3> QED
      BY <3>1, <3>2
  <2>3. CASE FinishRun(w) \/ GetRun(w) \/ HandleManualStaleCleanup(w)
    <3>1. Marking.pc = "markReads"
      BY DEF Marking, NoRequest
    <3> QED
      BY <1>t, <2>3, <3>1 DEF FinishRun, GetRun, HandleManualStaleCleanup, Receive
  <2> QED
    BY <2>1, <2>2, <2>3 DEF Arrives
<1>4. ReqFresh(w)'
  BY <1>0, <1>1, <1>3 DEF ReqFresh, Evaluating, At
<1> QED
  BY <1>0, <1>1, <1>2, <1>4, NothingEvaluated

\* The requests that serve something else than an evaluation.
LEMMA ServesSerially ==
  ASSUME Serial, FullInv, SerialInv, NEW w \in Workers, Serves(w),
         ~Evaluate(w), ~StorePredictionCheckpoint(w)
  PROVE  SerialInv' /\ doc'.checkpoints = doc.checkpoints
<1>t. /\ doc \in RunDocument /\ req \in [Workers -> Request] /\ req[w] \in Request
      /\ eval \in [Workers -> Evaluation] /\ ~raced /\ ReqFresh(w)
      /\ NoRequest.pc = "idle" /\ ~Unreliable
  BY SerialFacts DEF SerialInv, Serial, Unreliable
<1>0. ASSUME ~At(w, "evaluate"), UNCHANGED <<eval, answers, named, posted>>, ~raced',
             doc'.checkpoints = doc.checkpoints,
             req'[w].pc \notin {"procWrites", "storeWrites", "markWrites"}
      PROVE  SerialInv' /\ doc'.checkpoints = doc.checkpoints
  <2>1. eval[w].pc = "idle"
    BY <1>0, <1>t DEF ReqFresh, Evaluating
  <2>2. ReqFresh(w)'
    BY <1>0, <2>1 DEF ReqFresh, Evaluating, At
  <2> QED
    BY <1>0, <2>1, <2>2, NothingEvaluated
<1>r. Respond(w) => req'[w].pc = "idle"
  BY <1>t DEF Respond
<1>g. \A pc : Goto(w, pc) => req'[w].pc = pc
  BY <1>t DEF Goto, Request
<1>1. CASE SetRunExportToBigquery(w)
  <2>1. ~At(w, "evaluate") /\ UNCHANGED <<eval, answers, named, posted, raced>>
    BY <1>1 DEF SetRunExportToBigquery, At, predictionVars
  <2>2. req'[w].pc \in {"idle", "authPredictive"}
    BY <1>1, <1>r, <1>g DEF SetRunExportToBigquery, AfterExportFlag
  <2>3. doc'.checkpoints = doc.checkpoints
    BY <1>1, <1>t DEF SetRunExportToBigquery, WriteFails, WithExportFlag, Touched, RunDocument
  <2> QED
    BY <1>0, <1>t, <2>1, <2>2, <2>3
<1>2. CASE SetRunPredictiveReliability(w)
  <2>1. ~At(w, "evaluate") /\ UNCHANGED <<eval, answers, named, posted, raced>>
    BY <1>2 DEF SetRunPredictiveReliability, At, predictionVars, historyVars
  <2>2. req'[w].pc = "idle"
    BY <1>2, <1>r DEF SetRunPredictiveReliability
  <2>3. doc'.checkpoints = doc.checkpoints
    BY <1>2, <1>t DEF SetRunPredictiveReliability, WriteFails, WithPredictiveFlag, Touched, RunDocument
  <2> QED
    BY <1>0, <1>t, <2>1, <2>2, <2>3
<1>3. CASE StoreProcessInfoReads(w)
  <2>1. /\ At(w, "procReads") /\ UNCHANGED <<doc, procDoc, eval, answers, named, posted, raced>>
        /\ req' = [req EXCEPT ![w].pc = "procWrites", ![w].processes = procDoc]
    BY <1>3, <1>t DEF StoreProcessInfoReads, storeVars, predictionVars, historyVars
  <2>2. req'[w].pc = "procWrites" /\ req'[w].processes = procDoc
    BY <1>t, <2>1 DEF Request
  <2>3. eval[w].pc = "idle"
    BY <1>t, <2>1 DEF ReqFresh, Evaluating, At
  <2>4. ReqFresh(w)'
    BY <2>1, <2>2, <2>3 DEF ReqFresh, Evaluating, At
  <2> QED
    BY <1>t, <2>1, <2>3, <2>4, NothingEvaluated
<1>4. CASE StoreProcessInfoWrites(w)
  <2>1. ~At(w, "evaluate") /\ UNCHANGED <<doc, eval, answers, named, posted>> /\ ~raced'
    BY <1>4, <1>t DEF StoreProcessInfoWrites, At, predictionVars, ReqFresh
  <2>2. req'[w].pc \in {"idle", "storeReads"}
    BY <1>4, <1>r, <1>g DEF StoreProcessInfoWrites, AfterProcessInfo
  <2> QED
    BY <1>0, <2>1, <2>2
<1>5. CASE StoreSamplesReads(w) \/ MarkRunAsFinishedReads(w)
  <2>1. /\ At(w, "storeReads") \/ At(w, "markReads")
        /\ UNCHANGED <<doc, procDoc, eval, answers, named, posted, raced>>
    BY <1>5 DEF StoreSamplesReads, MarkRunAsFinishedReads, storeVars, predictionVars, historyVars
  <2>2. CASE Respond(w)
    BY <1>0, <1>r, <1>t, <2>1, <2>2 DEF At
  <2>3. ASSUME NEW pc \in {"storeWrites", "markWrites"},
               req' = [req EXCEPT ![w].pc = pc, ![w].run = doc]
        PROVE  SerialInv' /\ doc'.checkpoints = doc.checkpoints
    <3>1. req'[w].pc = pc /\ req'[w].run = doc
      BY <1>t, <2>3 DEF Request
    <3>2. eval[w].pc = "idle"
      BY <1>t, <2>1 DEF ReqFresh, Evaluating, At
    <3>3. ReqFresh(w)'
      BY <2>1, <3>1, <3>2 DEF ReqFresh, Evaluating, At
    <3> QED
      BY <1>t, <2>1, <3>2, <3>3, NothingEvaluated
  <2> QED
    BY <1>5, <2>2, <2>3 DEF StoreSamplesReads, MarkRunAsFinishedReads
<1>6. CASE StoreSamplesWrites(w)
  <2> DEFINE c == req[w].run
  <2>1. /\ At(w, "storeWrites") /\ UNCHANGED posted /\ ~raced'
        /\ doc' = WithSample(c, req[w].sample) /\ EvaluateStarts(w)
        /\ IF eval'[w].pc = "idle" THEN Respond(w) ELSE Goto(w, "evaluate")
    BY <1>6, <1>t DEF StoreSamplesWrites, WriteFails, ReqFresh
  <2>2. c \in RunDocument /\ Content(c) = Content(doc)
    BY <1>t, <2>1 DEF Request, ReqFresh
  <2>3. doc'.checkpoints = doc.checkpoints
    <3>1. doc'.checkpoints = c.checkpoints
      BY <2>1, <2>2 DEF WithSample, Touched, RunDocument
    <3> QED
      BY <1>t, <2>2, <3>1, SameContent
  <2>4. eval[w].pc = "idle" /\ eval'[w].pc \in {"idle", "getRun"} /\ UNCHANGED <<answers, named>>
    BY <1>t, <2>1 DEF EvaluateStarts, Evaluating, Evaluation
  <2>5. IF eval'[w].pc = "idle" THEN req'[w].pc = "idle" ELSE req'[w].pc = "evaluate"
    BY <1>r, <1>g, <2>1
  <2>6. ReqFresh(w)'
    BY <2>5 DEF ReqFresh, Evaluating, At
  <2> QED
    BY <2>1, <2>3, <2>4, <2>6, NothingEvaluated
<1>7. CASE MarkRunAsFinishedWrites(w)
  <2> DEFINE c == req[w].run
             written == MarkedFinished(c)
             due == IF written.exportToBigquery THEN stored ELSE {}
             r == [NoRequest EXCEPT !.pc = "run", !.due = due]
  <2>1. /\ At(w, "markWrites") /\ UNCHANGED <<posted, eval, answers, named>> /\ ~raced'
        /\ doc' = written /\ req' = [req EXCEPT ![w] = r]
    BY <1>7, <1>t DEF MarkRunAsFinishedWrites, WriteFails, ReqFresh, predictionVars
  <2>2. c \in RunDocument /\ Content(c) = Content(doc)
    BY <1>t, <2>1 DEF Request, ReqFresh
  <2>3. doc'.checkpoints = doc.checkpoints
    <3>1. doc'.checkpoints = c.checkpoints
      BY <2>1, <2>2 DEF MarkedFinished, Touched, RunDocument
    <3> QED
      BY <1>t, <2>2, <3>1, SameContent
  <2>4. r.pc = "run"
    BY DEF NoRequest
  <2> HIDE DEF r
  <2>5. req'[w].pc = "run"
    BY <1>t, <2>1, <2>4
  <2> QED
    BY <1>0, <2>1, <2>3, <2>5 DEF At
<1>8. CASE ExportRuns(w)
  <2>1. ~At(w, "evaluate") /\ UNCHANGED <<doc, eval, answers, named, posted, raced>>
    BY <1>8 DEF ExportRuns, At, storeVars, predictionVars
  <2>2. req'[w].pc \in {"idle", "export"}
    BY <1>8, <1>r, <1>g DEF ExportRuns
  <2> QED
    BY <1>0, <1>t, <2>1, <2>2
<1>9. CASE Export(w)
  <2>1. At(w, "export") /\ UNCHANGED <<doc, eval, answers, named, posted, raced>>
    BY <1>9 DEF Export, storeVars, predictionVars
  <2>2. req'[w].pc \in {"idle", "export"}
    BY <1>9, <1>r, <2>1 DEF Export, At
  <2> QED
    BY <1>0, <1>t, <2>1, <2>2 DEF At
<1> QED
  BY <1>1, <1>2, <1>3, <1>4, <1>5, <1>6, <1>7, <1>8, <1>9 DEF Serves

\* How an evaluation goes on with windows that need a prediction, or ends.
LEMMA ProceedFresh ==
  ASSUME Serial, FullInv, NEW w \in Workers, NEW W \in SUBSET Windows, Proceed(w, W),
         \A win \in W : Pends(win)',
         EvaluateContinues(w), At(w, "evaluate")
  PROVE  /\ ReqFresh(w)' /\ EvalFresh(w)'
         /\ \A v \in Workers, win \in Marks : ~HasAnswer(v, win)'
<1>t. /\ req \in [Workers -> Request] /\ eval \in [Workers -> Evaluation]
      /\ NoRequest.pc = "idle" /\ NoEvaluation.pc = "idle" /\ \A v \in Workers : v = w
  BY SerialFacts DEF Serial
<1>1. CASE W = {}
  <2>1. eval'[w].pc = "idle" /\ req'[w].pc = "idle"
    BY <1>1, <1>t DEF Proceed, EvaluateContinues, Respond
  <2> QED
    BY <1>t, <2>1 DEF ReqFresh, EvalFresh, HasAnswer, Evaluating, At
<1>2. CASE W # {}
  <2>1. eval'[w].pc = "predict" /\ eval'[w].todo = W
    BY <1>2, <1>t DEF Proceed, NoEvaluation
  <2>2. req' = req
    BY <2>1 DEF EvaluateContinues
  <2> QED
    BY <1>2, <1>t, <2>1, <2>2 DEF ReqFresh, EvalFresh, HasAnswer, At
<1> QED
  BY <1>1, <1>2

\* An evaluation reads the run, asks for a window, and reads the checkpoints.
LEMMA EvaluatesSerially ==
  ASSUME Serial, FullInv, SamplesInv, SerialInv, NEW w \in Workers, Evaluate(w)
  PROVE  SerialInv' /\ doc'.checkpoints = doc.checkpoints
<1>t. /\ doc \in RunDocument /\ req \in [Workers -> Request] /\ req[w] \in Request
      /\ eval \in [Workers -> Evaluation] /\ eval[w] \in Evaluation
      /\ answers \in [Windows -> 0..2]
      /\ ~raced /\ ReqFresh(w) /\ EvalFresh(w) /\ ~Unreliable /\ At(w, "evaluate")
      /\ \A v \in Workers : v = w
  BY SerialFacts DEF SerialInv, Serial, Unreliable, Evaluate
<1>0. UNCHANGED <<doc, posted, raced>> /\ EvaluateContinues(w)
  BY DEF Evaluate, storeVars, historyVars
<1>1. CASE EvaluateReads(w, doc)
  <2> DEFINE W == IF doc.predictive THEN Pending(doc) ELSE {}
  <2>1. Proceed(w, W) /\ UNCHANGED <<answers, named>> /\ eval[w].pc = "getRun"
    BY <1>1 DEF EvaluateReads
  <2>2. ASSUME NEW win \in W PROVE Pends(win)'
    <3>1. PICK s \in Range(doc.samples) : Elapsed[s] >= win
      BY DEF Pending
    <3>2. s \in posted
      BY <1>t, <3>1 DEF SamplesInv
    <3> QED
      BY <1>0, <3>1, <3>2 DEF Pending, Pends, Reached
  <2>3. W \in SUBSET Windows
    BY DEF Pending
  <2> HIDE DEF W
  <2>4. /\ ReqFresh(w)' /\ EvalFresh(w)'
        /\ \A v \in Workers, win \in Marks : ~HasAnswer(v, win)'
    BY <1>0, <1>t, <2>1, <2>2, <2>3, ProceedFresh
  <2>5. ASSUME NEW win \in Marks \ named' PROVE Answered(win)'
    <3>1. Answered(win) /\ \A v \in Workers : ~HasAnswer(v, win)
      BY <1>t, <2>1 DEF SerialInv, HasAnswer
    <3> QED
      BY <1>0, <2>1, <3>1 DEF Answered, Reached
  <2> QED
    BY <1>0, <1>t, <2>4, <2>5 DEF SerialInv
<1>2. CASE Predicts(w)
  <2>0. eval[w].pc = "predict" /\ Window(w) \in eval[w].todo /\ Window(w) \in Windows
    BY <1>2, <1>t, SerialFacts, WindowIsLeft DEF Predicts, EvalFresh
  <2>1. PICK o \in {Window(w)} \cup Observed, st \in {"ready", "fallback"} : Answers(w, o, st)
    BY <1>2 DEF Predicts
  <2>2. /\ eval'[w].pc = "storeReads" /\ eval'[w].status = st
        /\ eval'[w].observed = o /\ eval'[w].todo = eval[w].todo
    BY <1>t, <2>1 DEF Evaluation, Answers
  <2>3. Window(w)' = Window(w) /\ named \subseteq named' /\ (o = Window(w) \/ o \in named')
    BY <2>1, <2>2 DEF Window, Answers
  <2>4. req' = req
    BY <1>0, <2>2 DEF EvaluateContinues
  <2>5. ReqFresh(w)'
    BY <1>t, <2>4 DEF ReqFresh, At
  <2>6. EvalFresh(w)'
    BY <1>0, <1>t, <2>0, <2>2, <2>3 DEF EvalFresh, Pends, Reached
  <2>7. ASSUME NEW win \in Marks \ named' PROVE Answered(win)'
    <3>1. Answered(win) /\ (\A v \in Workers : ~HasAnswer(v, win)) /\ win \notin named
      BY <1>t, <2>0, <2>3 DEF SerialInv, HasAnswer
    <3>2. CASE st = "ready" /\ o = Window(w) /\ win = o
      <4>1. answers[win] = 0
        BY <1>t, <2>0, <3>1, <3>2 DEF Answered, EvalFresh, Pends
      <4>2. answers'[win] = 1
        BY <1>t, <2>0, <2>1, <3>2, <4>1 DEF Answers
      <4>3. HasAnswer(w, win)'
        BY <2>2, <3>2 DEF HasAnswer
      <4> QED
        BY <1>0, <3>1, <4>2, <4>3 DEF Answered, Reached
    <3>3. CASE ~(st = "ready" /\ o = Window(w) /\ win = o)
      <4>1. win \in Windows => answers'[win] = answers[win]
        BY <1>t, <2>1, <3>3 DEF Answers
      <4> QED
        BY <1>0, <3>1, <4>1 DEF Answered, Reached
    <3> QED
      BY <3>2, <3>3
  <2> QED
    BY <1>0, <1>t, <2>5, <2>6, <2>7 DEF SerialInv
<1>3. CASE StoreCheckpointReads(w, doc)
  <2>1. /\ eval' = [eval EXCEPT ![w].pc = "storeWrites", ![w].snapshot = doc.checkpoints]
        /\ UNCHANGED <<answers, named>> /\ eval[w].pc = "storeReads"
    BY <1>3 DEF StoreCheckpointReads
  <2>2. /\ eval'[w].pc = "storeWrites" /\ eval'[w].snapshot = doc.checkpoints
        /\ eval'[w].todo = eval[w].todo /\ eval'[w].status = eval[w].status
        /\ eval'[w].observed = eval[w].observed
    BY <1>t, <2>1 DEF Evaluation
  <2>3. Window(w)' = Window(w)
    BY <2>2 DEF Window
  <2>4. req' = req
    BY <1>0, <2>2 DEF EvaluateContinues
  <2>5. ReqFresh(w)'
    BY <1>t, <2>4 DEF ReqFresh, At
  <2>6. EvalFresh(w)'
    BY <1>0, <1>t, <2>1, <2>2, <2>3 DEF EvalFresh, Pends, Reached
  <2>7. ASSUME NEW win \in Marks \ named' PROVE Answered(win)'
    <3>1. HasAnswer(w, win)' <=> HasAnswer(w, win)
      BY <2>1, <2>2, <2>3 DEF HasAnswer
    <3>2. Answered(win)
      BY <2>1 DEF SerialInv
    <3> QED
      BY <1>0, <1>t, <2>1, <3>1, <3>2 DEF Answered, Reached
  <2> QED
    BY <1>0, <1>t, <2>5, <2>6, <2>7 DEF SerialInv
<1> QED
  BY <1>0, <1>1, <1>2, <1>3, <1>t DEF Evaluate

\* The record of a window is merged into the checkpoints of the document.
LEMMA StoresSerially ==
  ASSUME Serial, FullInv, SerialInv, NEW w \in Workers, StorePredictionCheckpoint(w)
  PROVE  /\ SerialInv'
         /\ \A win \in Marks \ named :
              doc.checkpoints[win] = "ready" => doc'.checkpoints[win] = "ready"
<1> DEFINE new == CheckpointsToStore(w)
           W == eval[w].todo \ {Window(w)}
<1>t. /\ doc \in RunDocument /\ eval[w] \in Evaluation
      /\ answers \in [Windows -> 0..2]
      /\ ~raced /\ EvalFresh(w) /\ ~Unreliable
      /\ \A v \in Workers : v = w
  BY SerialFacts DEF SerialInv, Serial, Unreliable
<1>0. /\ At(w, "evaluate") /\ eval[w].pc = "storeWrites"
      /\ doc' = WithCheckpoints(doc, new) /\ Proceed(w, W) /\ UNCHANGED <<answers, named>>
      /\ EvaluateContinues(w) /\ posted' = posted
      /\ raced' = (raced \/ eval[w].snapshot # doc.checkpoints)
  BY <1>t DEF StorePredictionCheckpoint, StoreCheckpointReturns, WriteFails
<1>1. Window(w) \in eval[w].todo /\ Window(w) \in Windows /\ ~raced'
  BY <1>0, <1>t, SerialFacts, WindowIsLeft DEF EvalFresh
<1>2. doc'.checkpoints = [doc.checkpoints EXCEPT ![eval[w].observed] = eval[w].status]
  <2>1. new = [doc.checkpoints EXCEPT ![eval[w].observed] = eval[w].status]
    BY <1>0, <1>t DEF CheckpointsToStore, Merged, EvalFresh
  <2>2. doc'.checkpoints = new
    BY <1>0, <1>t DEF WithCheckpoints, Touched, RunDocument
  <2> QED
    BY <2>1, <2>2
<1>3. /\ \A win \in Marks : doc'.checkpoints[win] = IF win = eval[w].observed
             THEN eval[w].status ELSE doc.checkpoints[win]
      /\ eval[w].observed = Window(w) \/ eval[w].observed \in named
  <2>1. doc.checkpoints \in [Marks -> Statuses]
    BY <1>t DEF RunDocument
  <2> QED
    BY <1>0, <1>2, <1>t, <2>1 DEF EvalFresh
<1>4. W \in SUBSET Windows /\ \A win \in W : win # Window(w) /\ win \in eval[w].todo /\ win \in Windows
  BY <1>t DEF Evaluation
<1> HIDE DEF W, new
<1>5. /\ ReqFresh(w)' /\ EvalFresh(w)'
      /\ \A v \in Workers, win \in Marks : ~HasAnswer(v, win)'
  <2>1. \A win \in W : Pends(win)'
    BY <1>0, <1>3, <1>4, <1>t DEF EvalFresh, Pends, Reached, Marks
  <2> QED
    BY <1>0, <1>4, <2>1, ProceedFresh
<1>6. ASSUME NEW win \in Marks \ named' PROVE Answered(win)'
  <2>1. Answered(win) /\ win \notin named
    BY <1>0 DEF SerialInv
  <2>2. ASSUME win \in Windows
        PROVE  answers'[win] = 1 => doc'.checkpoints[win] = "ready"
    <3>1. CASE doc.checkpoints[win] = "ready"
      BY <1>0, <1>1, <1>3, <1>t, <2>1, <3>1 DEF EvalFresh, Pends
    <3>2. ASSUME NEW v \in Workers, HasAnswer(v, win)
          PROVE  doc'.checkpoints[win] = "ready"
      BY <1>3, <1>t, <3>2 DEF HasAnswer
    <3> QED
      BY <1>0, <2>1, <2>2, <3>1, <3>2 DEF Answered
  <2>3. doc'.checkpoints[win] # "none" => win \in Windows /\ Reached(win)'
    BY <1>0, <1>1, <1>3, <1>t, <2>1 DEF Answered, EvalFresh, Pends, Reached
  <2> QED
    BY <1>0, <2>1, <2>2, <2>3 DEF Answered
<1>7. ASSUME NEW win \in Marks \ named, doc.checkpoints[win] = "ready"
      PROVE  doc'.checkpoints[win] = "ready"
  BY <1>0, <1>1, <1>3, <1>7, <1>t DEF EvalFresh, Pends
<1> QED
  BY <1>0, <1>1, <1>5, <1>6, <1>7, <1>t DEF SerialInv

LEMMA SerialStep ==
  ASSUME Serial, FullInv, SamplesInv, SerialInv, [Next]_vars
  PROVE  /\ SerialInv'
         /\ \A win \in Marks \ named :
              doc.checkpoints[win] = "ready" => doc'.checkpoints[win] = "ready"
<1>1. ASSUME NEW w \in Workers, Arrives(w) PROVE SerialInv' /\ doc'.checkpoints = doc.checkpoints
  BY <1>1, ArrivesSerially
<1>2. ASSUME NEW w \in Workers, Serves(w)
      PROVE  \/ SerialInv' /\ doc'.checkpoints = doc.checkpoints
             \/ StorePredictionCheckpoint(w)
  BY <1>2, ServesSerially, EvaluatesSerially
<1>3. CASE TimeoutElapses
  <2>1. /\ doc' = [doc EXCEPT !.quiet = TRUE]
        /\ UNCHANGED <<procDoc, req, eval, answers, named, posted, raced>>
    BY <1>3 DEF TimeoutElapses, predictionVars, historyVars
  <2>2. doc'.checkpoints = doc.checkpoints /\ Content(doc') = Content(doc)
    BY <2>1 DEF FullInv, BackendInv, RequestsTypeOK, RunDocument, Content
  <2>3. ASSUME NEW w \in Workers PROVE ReqFresh(w)' /\ EvalFresh(w)'
    BY <2>1, <2>2 DEF SerialInv, ReqFresh, EvalFresh, At, Evaluating, Pends, Reached, Window
  <2>4. ASSUME NEW win \in Marks \ named' PROVE Answered(win)'
    BY <2>1, <2>2 DEF SerialInv, Answered, HasAnswer, Window, Reached
  <2> QED
    BY <2>1, <2>2, <2>3, <2>4 DEF SerialInv
<1>4. CASE UNCHANGED vars
  <2>1. UNCHANGED <<doc, procDoc, req, eval, answers, named, posted, raced>>
    BY <1>4 DEF vars, storeVars, predictionVars, historyVars
  <2> QED
    BY <2>1 DEF SerialInv, ReqFresh, EvalFresh, At, Evaluating, Answered, HasAnswer, Window,
                Pends, Reached
<1>5. ASSUME NEW i \in Instances, Restart(i) PROVE FALSE
  BY <1>5 DEF Restart, Serial
<1> QED
  BY <1>1, <1>2, <1>3, <1>4, <1>5, StoresSerially DEF Next

LEMMA SerialInit ==
  Init => SamplesInv /\ SerialInv
<1> SUFFICES ASSUME Init PROVE SamplesInv /\ SerialInv
  OBVIOUS
<1>1. /\ doc = NoRun /\ posted = {} /\ ~raced
      /\ \A w \in Workers : req[w].pc = "idle" /\ eval[w].pc = "idle"
  BY DEF Init, PredictionInit, NoRequest, NoEvaluation
<1>2. SamplesInv
  BY <1>1 DEF SamplesInv, NoRun, Range, Carries, Storing
<1>3. \A w \in Workers : ReqFresh(w) /\ EvalFresh(w)
  BY <1>1 DEF ReqFresh, EvalFresh, At, Evaluating
<1>4. ASSUME NEW win \in Marks \ named PROVE Answered(win)
  BY <1>1 DEF Init, PredictionInit, Answered, NoRun
<1> QED
  BY <1>1, <1>2, <1>3, <1>4 DEF SerialInv

OneAtATimeInv == FullInv /\ SamplesInv /\ SerialInv

\* Without overlap nothing is written from an outdated read, and a window the
\* provider names only when asked for it is not asked for again once answered
\* and has no record before a payload has reached it.
THEOREM RequestsInTurn ==
  ASSUME Serial
  PROVE  Spec => []ServedInTurn
<1>1. Init => OneAtATimeInv
  BY InitInv, SerialInit DEF OneAtATimeInv
<1>2. OneAtATimeInv /\ [Next]_vars => OneAtATimeInv'
  BY StepInv, SamplesKept, SerialStep DEF OneAtATimeInv, FullInv
<1>3. OneAtATimeInv => ServedInTurn
  BY DEF OneAtATimeInv, SerialInv, Answered, Reached, ServedInTurn
<1> QED
  BY <1>1, <1>2, <1>3, PTL DEF Spec

\* ReadyIsKept: no failure of the provider, later ingest or finish takes a ready
\* prediction away, unless the provider named its window when asked for another.
THEOREM PredictionsAreKept ==
  ASSUME Serial
  PROVE  Spec => ReadyIsKept
<1>1. Init => OneAtATimeInv
  BY InitInv, SerialInit DEF OneAtATimeInv
<1>2. OneAtATimeInv /\ [Next]_vars => OneAtATimeInv'
  BY StepInv, SamplesKept, SerialStep DEF OneAtATimeInv, FullInv
<1>3. OneAtATimeInv /\ [Next]_vars
        => [\A win \in Marks \ named :
              doc.checkpoints[win] = "ready" => doc'.checkpoints[win] = "ready"]_vars
  BY SerialStep DEF OneAtATimeInv
<1> QED
  BY <1>1, <1>2, <1>3, PTL DEF Spec, ReadyIsKept
=============================================================================
