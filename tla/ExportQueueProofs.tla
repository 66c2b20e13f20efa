------------------------- MODULE ExportQueueProofs -------------------------
(***************************************************************************)
(* Proofs about the export scheduler, for any number of instances,         *)
(* goroutines, samples and processes.                                      *)
(*                                                                         *)
(* The argument.  A goroutine claims the mark of its instance only when it *)
(* is free, and an exporting one holds it; so when a call ends, no other   *)
(* call on the instance is exporting, and the mark is freed or accounted   *)
(* for.  An attempt that fails remembers whether the samples are in.       *)
(***************************************************************************)
EXTENDS ExportQueue, TLAPS

\* The inductive invariant: the mark of an instance is held by at most one of
\* its goroutines, and a mark without a holder was left by a call that
\* returned true.
ExportInv == ExportTypeOK /\ OneExportPerInstance /\ MarkIsAccountedFor

USE DEF MaxAttempts

\* The alternatives of a step: a goroutine claims the mark, ends its call, or
\* goes on with it; or the instance restarts.  Everything below distinguishes
\* only these.
Claims(w) ==
  /\ ~Exporting(w) /\ ~scheduled[InstanceOf[w]]
  /\ scheduled' = [scheduled EXCEPT ![InstanceOf[w]] = TRUE]
  /\ call' = [call EXCEPT ![w] = [NoCall EXCEPT !.pc = "getRun"]]
  /\ UNCHANGED <<sampleRows, processRows, result>>

GoesOn(w) ==
  /\ Exporting(w)
  /\ UNCHANGED <<scheduled, result>>
  /\ \E c \in Call : c.pc # "idle" /\ call' = [call EXCEPT ![w] = c]

EndsTrue(w) ==
  /\ Exporting(w)
  /\ \/ ReturnTrue(w, "exported")
     \/ ReturnTrue(w, "skipped") /\ UNCHANGED <<sampleRows, processRows>>

EndsFalse(w) == Exporting(w) /\ ReturnFalse(w)

RowsGrow ==
  /\ sampleRows \subseteq sampleRows' /\ processRows \subseteq processRows'
  /\ sampleRows' \subseteq (Nat \X Samples) /\ processRows' \subseteq Procs

\* A failed attempt goes on with a backoff or ends the call.
LEMMA AttemptFailsCases ==
  ASSUME ExportTypeOK, NEW w \in Workers, Exporting(w), AttemptFails(w)
  PROVE  GoesOn(w) \/ EndsFalse(w)
<1>1. CASE ReturnFalse(w)
  BY <1>1 DEF EndsFalse
<1>2. CASE /\ call[w].attempt + 1 < MaxAttempts
           /\ call' = [call EXCEPT ![w].pc = "backoff", ![w].attempt = @ + 1]
           /\ UNCHANGED <<scheduled, result>>
  <2> DEFINE c == [call[w] EXCEPT !.pc = "backoff", !.attempt = @ + 1]
  <2>0. call[w] \in Call
    BY DEF ExportTypeOK
  <2>1. c \in Call /\ c.pc # "idle"
    <3>1. call[w].attempt + 1 \in 0..MaxAttempts - 1
      BY <1>2, <2>0 DEF Call
    <3> QED
      BY <2>0, <3>1 DEF Call, CallPcs
  <2>2. call' = [call EXCEPT ![w] = c]
    BY <1>2 DEF ExportTypeOK
  <2> QED
    BY <1>2, <2>1, <2>2 DEF GoesOn
<1> QED
  BY <1>1, <1>2 DEF AttemptFails

\* After the samples a call goes on with the process rows or completes.
LEMMA AfterSamplesCases ==
  ASSUME ExportTypeOK, NEW w \in Workers, Exporting(w),
         NEW c \in Call, AfterSamples(w, c)
  PROVE  GoesOn(w) \/ EndsTrue(w)
<1>1. CASE ReturnTrue(w, "exported")
  BY <1>1 DEF EndsTrue
<1>2. CASE /\ call' = [call EXCEPT ![w] = [c EXCEPT !.pc = "exportProcesses"]]
           /\ UNCHANGED <<scheduled, result>>
  <2>1. [c EXCEPT !.pc = "exportProcesses"] \in Call
    BY DEF Call, CallPcs
  <2>2. [c EXCEPT !.pc = "exportProcesses"].pc # "idle"
    BY DEF Call
  <2> QED
    BY <1>2, <2>1, <2>2 DEF GoesOn
<1> QED
  BY <1>1, <1>2 DEF AfterSamples

\* The rows of a sample list are rows of the samples table.
LEMMA RowsOfType ==
  ASSUME NEW list \in Seq(Samples)
  PROVE  RowsOf(list) \subseteq (Nat \X Samples)
BY DEF RowsOf

\* A read of the run document goes on with its samples or skips the run.
LEMMA GetRunCases ==
  ASSUME ExportTypeOK, NEW w \in Workers,
         NEW d, d.samples \in Seq(Samples), GetRunReturns(w, d)
  PROVE  (GoesOn(w) \/ EndsTrue(w)) /\ RowsGrow
<1>0. Exporting(w) /\ RowsGrow
  BY DEF GetRunReturns, ExportTypeOK, Exporting, RowsGrow
<1>1. CASE ReturnTrue(w, "skipped")
  BY <1>0, <1>1 DEF EndsTrue, GetRunReturns
<1>2. CASE /\ call' = [call EXCEPT ![w].pc = "getProcesses", ![w].samples = d.samples]
           /\ UNCHANGED <<scheduled, result>>
  <2> DEFINE c == [call[w] EXCEPT !.pc = "getProcesses", !.samples = d.samples]
  <2>0. call[w] \in Call
    BY DEF ExportTypeOK
  <2>1. c \in Call /\ c.pc # "idle"
    BY <2>0 DEF Call, CallPcs
  <2>2. call' = [call EXCEPT ![w] = c]
    BY <1>2 DEF ExportTypeOK
  <2> QED
    BY <1>0, <1>2, <2>1, <2>2 DEF GoesOn
<1> QED
  BY <1>0, <1>1, <1>2 DEF GetRunReturns

\* A read of the process document goes on with an insert, completes or skips.
LEMMA GetProcessesCases ==
  ASSUME ExportTypeOK, NEW w \in Workers,
         NEW P \in SUBSET Procs, GetProcessesReturns(w, P)
  PROVE  (GoesOn(w) \/ EndsTrue(w)) /\ RowsGrow
<1> DEFINE c == [call[w] EXCEPT !.procs = P]
<1>t. call[w] \in Call
  BY DEF ExportTypeOK
<1>0. Exporting(w) /\ RowsGrow /\ c \in Call
  BY <1>t DEF GetProcessesReturns, ExportTypeOK, Exporting, RowsGrow, Call
<1>1. CASE ReturnTrue(w, "skipped")
  BY <1>0, <1>1 DEF EndsTrue, GetProcessesReturns
<1>2. CASE /\ call' = [call EXCEPT ![w] = [c EXCEPT !.pc = "exportRun"]]
           /\ UNCHANGED <<scheduled, result>>
  <2>1. [c EXCEPT !.pc = "exportRun"] \in Call /\ [c EXCEPT !.pc = "exportRun"].pc # "idle"
    BY <1>0 DEF Call, CallPcs
  <2> QED
    BY <1>0, <1>2, <2>1 DEF GoesOn
<1>3. CASE AfterSamples(w, c)
  BY <1>0, <1>3, AfterSamplesCases
<1> QED
  BY <1>0, <1>1, <1>2, <1>3 DEF GetProcessesReturns

\* Every step of a call that does not depend on a document ends it or goes on.
LEMMA OtherStepCases ==
  ASSUME ExportTypeOK, NEW w \in Workers,
         \/ GetRunFails(w) \/ GetProcessesFails(w)
         \/ ExportRunReturns(w) \/ ExportRunFails(w)
         \/ ExportProcessesReturns(w) \/ ExportProcessesFails(w)
         \/ BackoffElapses(w) \/ ContextDone(w)
  PROVE  /\ GoesOn(w) \/ EndsTrue(w) \/ EndsFalse(w)
         /\ RowsGrow
<1>t. call[w] \in Call /\ sampleRows \subseteq (Nat \X Samples) /\ processRows \subseteq Procs
  BY DEF ExportTypeOK
<1>1. CASE GetRunFails(w)
  BY <1>1, <1>t, AttemptFailsCases DEF GetRunFails, Exporting, RowsGrow
<1>2. CASE GetProcessesFails(w)
  BY <1>2, <1>t, AttemptFailsCases DEF GetProcessesFails, Exporting, RowsGrow
<1>3. CASE ExportRunReturns(w)
  <2>0. Exporting(w)
    BY <1>3 DEF ExportRunReturns, Exporting
  <2>1. RowsGrow
    BY <1>3, <1>t, RowsOfType DEF ExportRunReturns, RowsGrow, Call
  <2>2. [call[w] EXCEPT !.samplesExported = TRUE] \in Call
    BY <1>t DEF Call
  <2> QED
    BY <1>3, <2>0, <2>1, <2>2, AfterSamplesCases DEF ExportRunReturns
<1>4. CASE ExportRunFails(w)
  <2>0. Exporting(w)
    BY <1>4 DEF ExportRunFails, Exporting
  <2>1. RowsGrow
    BY <1>4, <1>t, RowsOfType DEF ExportRunFails, RowsGrow, Call
  <2> QED
    BY <1>4, <2>0, <2>1, AttemptFailsCases DEF ExportRunFails
<1>5. CASE ExportProcessesReturns(w)
  <2>0. Exporting(w)
    BY <1>5 DEF ExportProcessesReturns, Exporting
  <2>1. RowsGrow
    BY <1>5, <1>t DEF ExportProcessesReturns, RowsGrow, Call
  <2> QED
    BY <1>5, <2>0, <2>1 DEF ExportProcessesReturns, EndsTrue
<1>6. CASE ExportProcessesFails(w)
  <2>0. Exporting(w)
    BY <1>6 DEF ExportProcessesFails, Exporting
  <2>1. RowsGrow
    BY <1>6, <1>t DEF ExportProcessesFails, RowsGrow, Call
  <2> QED
    BY <1>6, <2>0, <2>1, AttemptFailsCases DEF ExportProcessesFails
<1>7. CASE BackoffElapses(w)
  <2> DEFINE c == [call[w] EXCEPT !.pc = "getRun"]
  <2>1. c \in Call /\ c.pc # "idle"
    BY <1>t DEF Call, CallPcs
  <2>2. call' = [call EXCEPT ![w] = c]
    BY <1>7 DEF BackoffElapses, ExportTypeOK
  <2> QED
    BY <1>7, <1>t, <2>1, <2>2 DEF BackoffElapses, Exporting, RowsGrow, GoesOn
<1>8. CASE ContextDone(w)
  BY <1>8, <1>t DEF ContextDone, EndsFalse, Exporting, RowsGrow
<1> QED
  BY <1>1, <1>2, <1>3, <1>4, <1>5, <1>6, <1>7, <1>8

\* Every step of a call ends it or goes on with it, and only adds rows.
LEMMA CallStepCases ==
  ASSUME ExportTypeOK, NEW w \in Workers, CallStep(w)
  PROVE  /\ GoesOn(w) \/ EndsTrue(w) \/ EndsFalse(w)
         /\ RowsGrow
<1>1. ASSUME NEW d \in RunView, GetRunReturns(w, d)
      PROVE  (GoesOn(w) \/ EndsTrue(w)) /\ RowsGrow
  <2>1. d.samples \in Seq(Samples)
    BY SampleListsAssumption DEF RunView
  <2> QED
    BY <1>1, <2>1, GetRunCases
<1> QED
  BY <1>1, GetProcessesCases, OtherStepCases DEF CallStep

----------------------------------------------------------------------------
\* The invariant holds initially.
LEMMA ExportInitInv == ExportInit => ExportInv
<1> SUFFICES ASSUME ExportInit PROVE ExportInv
  OBVIOUS
<1>1. NoCall \in Call
  <2>1. <<>> \in Seq(Samples)
    OBVIOUS
  <2> QED
    BY <2>1 DEF NoCall, Call, CallPcs
<1>2. ExportTypeOK
  BY <1>1 DEF ExportInit, ExportTypeOK, Results
<1>3. OneExportPerInstance /\ MarkIsAccountedFor
  BY InstanceAssumption
  DEF ExportInit, OneExportPerInstance, MarkIsAccountedFor, Exporting, NoCall
<1> QED
  BY <1>2, <1>3 DEF ExportInv

\* The empty call is a call.
LEMMA NoCallType == NoCall \in Call /\ NoCall.pc = "idle"
<1>1. <<>> \in Seq(Samples)
  OBVIOUS
<1> QED
  BY <1>1 DEF NoCall, Call, CallPcs

\* Claiming the mark keeps the invariant: nobody else of the instance exports.
LEMMA ClaimsKeepsInv ==
  ASSUME ExportInv, NEW w \in Workers, Claims(w)
  PROVE  ExportInv'
<1> DEFINE c == [NoCall EXCEPT !.pc = "getRun"]
<1>1. c \in Call /\ c.pc = "getRun"
  BY NoCallType DEF Call, CallPcs
<1>2. ExportTypeOK'
  BY <1>1, InstanceAssumption DEF ExportInv, ExportTypeOK, Claims
<1>3. \A v \in Workers : Exporting(v)' <=> (Exporting(v) \/ v = w)
  BY <1>1 DEF ExportInv, ExportTypeOK, Claims, Exporting
<1>4. \A i \in Instances : scheduled'[i] = (scheduled[i] \/ i = InstanceOf[w])
  BY InstanceAssumption DEF ExportInv, ExportTypeOK, Claims
<1>5. OneExportPerInstance'
  BY <1>3, <1>4, InstanceAssumption DEF ExportInv, OneExportPerInstance, Claims
<1>6. MarkIsAccountedFor'
  BY <1>3, <1>4, InstanceAssumption DEF ExportInv, MarkIsAccountedFor, Claims
<1> QED
  BY <1>2, <1>5, <1>6 DEF ExportInv

\* A call that goes on keeps its mark.
LEMMA GoesOnKeepsInv ==
  ASSUME ExportInv, NEW w \in Workers, GoesOn(w), RowsGrow
  PROVE  ExportInv'
<1> PICK c \in Call : c.pc # "idle" /\ call' = [call EXCEPT ![w] = c]
  BY DEF GoesOn
<1>2. ExportTypeOK'
  BY DEF ExportInv, ExportTypeOK, GoesOn, RowsGrow
<1>3. \A v \in Workers : Exporting(v)' <=> Exporting(v)
  BY DEF ExportInv, ExportTypeOK, GoesOn, Exporting
<1> QED
  BY <1>2, <1>3
  DEF ExportInv, OneExportPerInstance, MarkIsAccountedFor, GoesOn

\* A call that returns true leaves the mark, and says so in result.
LEMMA EndsTrueKeepsInv ==
  ASSUME ExportInv, NEW w \in Workers, EndsTrue(w), RowsGrow
  PROVE  ExportInv'
<1> PICK how \in {"exported", "skipped"} : ReturnTrue(w, how)
  BY DEF EndsTrue
<1>2. ExportTypeOK'
  BY NoCallType, InstanceAssumption
  DEF ExportInv, ExportTypeOK, ReturnTrue, RowsGrow, Results
<1>3. \A v \in Workers : Exporting(v)' <=> (Exporting(v) /\ v # w)
  BY NoCallType DEF ExportInv, ExportTypeOK, ReturnTrue, Exporting
<1>4. OneExportPerInstance'
  BY <1>3 DEF ExportInv, OneExportPerInstance, ReturnTrue
<1>5. ASSUME NEW i \in Instances, scheduled'[i]
      PROVE  \/ \E v \in Workers : InstanceOf[v] = i /\ Exporting(v)'
             \/ result'[i] \in {"exported", "skipped"}
  <2>1. CASE i = InstanceOf[w]
    BY <2>1 DEF ExportInv, ExportTypeOK, ReturnTrue
  <2>2. CASE i # InstanceOf[w]
    BY <1>3, <1>5, <2>2 DEF ExportInv, ExportTypeOK, MarkIsAccountedFor, ReturnTrue
  <2> QED
    BY <2>1, <2>2
<1> QED
  BY <1>2, <1>4, <1>5 DEF ExportInv, MarkIsAccountedFor

\* A call that returns false clears the mark: being the only one exporting on
\* its instance it takes nobody else's.
LEMMA EndsFalseKeepsInv ==
  ASSUME ExportInv, NEW w \in Workers, EndsFalse(w), RowsGrow
  PROVE  ExportInv'
<1>2. ExportTypeOK'
  BY NoCallType, InstanceAssumption
  DEF ExportInv, ExportTypeOK, EndsFalse, ReturnFalse, RowsGrow, Results
<1>3. \A v \in Workers : Exporting(v)' <=> (Exporting(v) /\ v # w)
  BY NoCallType DEF ExportInv, ExportTypeOK, EndsFalse, ReturnFalse, Exporting
<1>4. \A i \in Instances : scheduled'[i] = (scheduled[i] /\ i # InstanceOf[w])
  BY InstanceAssumption DEF ExportInv, ExportTypeOK, EndsFalse, ReturnFalse
<1>5. ASSUME NEW u \in Workers, NEW v \in Workers, Exporting(u)'
      PROVE  /\ scheduled'[InstanceOf[u]]
             /\ (Exporting(v)' /\ InstanceOf[u] = InstanceOf[v]) => u = v
  <2>1. Exporting(u) /\ u # w /\ Exporting(w)
    BY <1>3, <1>5 DEF EndsFalse
  <2>2. scheduled[InstanceOf[u]] /\ InstanceOf[u] # InstanceOf[w]
    BY <2>1 DEF ExportInv, OneExportPerInstance
  <2>3. scheduled'[InstanceOf[u]]
    BY <1>4, <2>2, InstanceAssumption
  <2> QED
    BY <1>3, <2>1, <2>3 DEF ExportInv, OneExportPerInstance
<1>6. ASSUME NEW i \in Instances, scheduled'[i]
      PROVE  \/ \E v \in Workers : InstanceOf[v] = i /\ Exporting(v)'
             \/ result'[i] \in {"exported", "skipped"}
  <2>1. scheduled[i] /\ i # InstanceOf[w]
    BY <1>4, <1>6 DEF ExportInv, ExportTypeOK
  <2>2. result'[i] = result[i]
    BY <2>1 DEF ExportInv, ExportTypeOK, EndsFalse, ReturnFalse
  <2> QED
    BY <1>3, <2>1, <2>2 DEF ExportInv, MarkIsAccountedFor
<1> QED
  BY <1>2, <1>5, <1>6 DEF ExportInv, OneExportPerInstance, MarkIsAccountedFor

\* A restart drops the mark together with every goroutine that could hold it.
LEMMA RestartKeepsInv ==
  ASSUME ExportInv, NEW i \in Instances, InstanceRestarts(i)
  PROVE  ExportInv'
<1>2. ExportTypeOK'
  <2>1. scheduled' \in [Instances -> BOOLEAN] /\ result' \in [Instances -> Results]
    BY DEF ExportInv, ExportTypeOK, InstanceRestarts, Results
  <2>2. call' \in [Workers -> Call]
    BY NoCallType DEF ExportInv, ExportTypeOK, InstanceRestarts
  <2> QED
    BY <2>1, <2>2 DEF ExportInv, ExportTypeOK, InstanceRestarts
<1>3. \A v \in Workers : Exporting(v)' <=> (Exporting(v) /\ InstanceOf[v] # i)
  BY NoCallType DEF ExportInv, ExportTypeOK, InstanceRestarts, Exporting
<1>4. \A j \in Instances : scheduled'[j] = (scheduled[j] /\ j # i)
  BY DEF ExportInv, ExportTypeOK, InstanceRestarts
<1>5. OneExportPerInstance'
  BY <1>3, <1>4, InstanceAssumption DEF ExportInv, OneExportPerInstance
<1>6. MarkIsAccountedFor'
  BY <1>3, <1>4
  DEF ExportInv, ExportTypeOK, MarkIsAccountedFor, InstanceRestarts
<1> QED
  BY <1>2, <1>5, <1>6 DEF ExportInv

\* The invariant is inductive.
LEMMA ExportStepInv == ExportInv /\ [ExportNext]_exportVars => ExportInv'
<1> SUFFICES ASSUME ExportInv, [ExportNext]_exportVars PROVE ExportInv'
  OBVIOUS
<1>1. ASSUME NEW w \in Workers, RunMarks(w) PROVE ExportInv'
  BY <1>1, ClaimsKeepsInv DEF RunMarks, Claims
<1>2. ASSUME NEW w \in Workers, CallStep(w) PROVE ExportInv'
  BY <1>2, CallStepCases, GoesOnKeepsInv, EndsTrueKeepsInv, EndsFalseKeepsInv
  DEF ExportInv
<1>3. ASSUME NEW i \in Instances, InstanceRestarts(i) PROVE ExportInv'
  BY <1>3, RestartKeepsInv
<1>4. ASSUME UNCHANGED exportVars PROVE ExportInv'
  BY <1>4
  DEF exportVars, ExportInv, ExportTypeOK, OneExportPerInstance,
      MarkIsAccountedFor, Exporting
<1>5. ASSUME NEW w \in Workers, RunIsDuplicate(w) PROVE ExportInv'
  BY <1>4, <1>5 DEF RunIsDuplicate
<1> QED
  BY <1>1, <1>2, <1>3, <1>4, <1>5 DEF ExportNext

\* Every reachable state of the scheduler is well typed, has at most one
\* export of the run per backend process, and has a mark only where a
\* goroutine exports or a call returned true.
THEOREM ExportSafety ==
  ExportSpec => [](ExportTypeOK /\ OneExportPerInstance /\ MarkIsAccountedFor)
<1>1. ExportInv => ExportTypeOK /\ OneExportPerInstance /\ MarkIsAccountedFor
  BY DEF ExportInv
<1> QED
  BY <1>1, ExportInitInv, ExportStepInv, PTL DEF ExportSpec

----------------------------------------------------------------------------
(***************************************************************************)
(* Once the samples of a call are in the table, it is never again about to *)
(* insert them, and it ends without taking that for the next call.         *)
(***************************************************************************)
Once(w) == call[w].samplesExported => call[w].pc \notin {"idle", "exportRun"}

\* The steps of a call with any documents, and those of the calls alone.
AnyCallStep(w, d, P) ==
  \/ GetRunReturns(w, d) \/ GetRunFails(w)
  \/ GetProcessesReturns(w, P) \/ GetProcessesFails(w)
  \/ ExportRunReturns(w) \/ ExportRunFails(w)
  \/ ExportProcessesReturns(w) \/ ExportProcessesFails(w)
  \/ BackoffElapses(w) \/ ContextDone(w)

\* How a failed attempt, and a call whose samples are done, leave the call.
LEMMA AttemptFailsCall ==
  ASSUME ExportTypeOK, NEW w \in Workers, AttemptFails(w)
  PROVE  /\ \A v \in Workers : v # w => call'[v] = call[v]
         /\ \/ call'[w] = NoCall /\ ~scheduled'[InstanceOf[w]]
            \/ /\ call'[w].pc = "backoff" /\ UNCHANGED scheduled
               /\ call'[w].samplesExported = call[w].samplesExported
               /\ call'[w].samples = call[w].samples
BY InstanceAssumption DEF AttemptFails, ReturnFalse, ExportTypeOK, Call

LEMMA AfterSamplesCall ==
  ASSUME ExportTypeOK, NEW w \in Workers, NEW c \in Call, AfterSamples(w, c)
  PROVE  /\ \A v \in Workers : v # w => call'[v] = call[v]
         /\ UNCHANGED scheduled
         /\ \/ call'[w] = NoCall
            \/ /\ call'[w].pc = "exportProcesses"
               /\ call'[w].samplesExported = c.samplesExported /\ call'[w].samples = c.samples
BY DEF AfterSamples, ReturnTrue, ExportTypeOK, Call

\* A step of a call leaves the others alone.
LEMMA CallOthers ==
  ASSUME ExportTypeOK, NEW w \in Workers, NEW d, NEW P, AnyCallStep(w, d, P)
  PROVE  \A v \in Workers : v # w => call'[v] = call[v]
BY DEF AnyCallStep, GetRunReturns, GetRunFails, GetProcessesReturns, GetProcessesFails,
       ExportRunReturns, ExportRunFails, ExportProcessesReturns, ExportProcessesFails,
       BackoffElapses, ContextDone, AttemptFails, AfterSamples, ReturnTrue, ReturnFalse,
       ExportTypeOK

\* What a step of a call makes of the samples that are done.
LEMMA CallOnce ==
  ASSUME ExportTypeOK, NEW w \in Workers, Once(w), NEW d, NEW P \in SUBSET Procs, AnyCallStep(w, d, P)
  PROVE  /\ \A v \in Workers : v # w => call'[v] = call[v]
         /\ Once(w)'
         /\ call[w].samplesExported /\ call'[w].pc # "idle" => call'[w].samplesExported
<1>. USE DEF Once
<1>0. call \in [Workers -> Call] /\ call[w] \in Call
      /\ NoCall.pc = "idle" /\ NoCall.samplesExported = FALSE
  BY DEF ExportTypeOK, NoCall
<1>1. CASE GetRunReturns(w, d)
  BY <1>0, <1>1 DEF GetRunReturns, ReturnTrue, Call
<1>2. CASE GetRunFails(w) \/ GetProcessesFails(w) \/ ExportRunFails(w) \/ ExportProcessesFails(w)
  BY <1>0, <1>2, AttemptFailsCall DEF GetRunFails, GetProcessesFails, ExportRunFails, ExportProcessesFails
<1>3. CASE GetProcessesReturns(w, P)
  <2>. DEFINE c == [call[w] EXCEPT !.procs = P]
  <2>1. c \in Call /\ c.samplesExported = call[w].samplesExported
    BY <1>0 DEF Call
  <2>2. CASE AfterSamples(w, c)
    BY <1>0, <2>1, <2>2, AfterSamplesCall
  <2>3. CASE ReturnTrue(w, "skipped")
    BY <1>0, <2>3 DEF ReturnTrue
  <2>4. CASE ~c.samplesExported /\ call' = [call EXCEPT ![w] = [c EXCEPT !.pc = "exportRun"]]
    <3>1. [c EXCEPT !.pc = "exportRun"].samplesExported = c.samplesExported
      BY <2>1 DEF Call
    <3>. QED  BY <1>0, <2>1, <2>4, <3>1
  <2>. QED  BY <1>3, <2>2, <2>3, <2>4 DEF GetProcessesReturns
<1>4. CASE ExportRunReturns(w)
  <2>1. [call[w] EXCEPT !.samplesExported = TRUE] \in Call
        /\ [call[w] EXCEPT !.samplesExported = TRUE].samplesExported
    BY <1>0 DEF Call
  <2>. QED  BY <1>0, <1>4, <2>1, AfterSamplesCall DEF ExportRunReturns
<1>5. CASE ExportProcessesReturns(w) \/ ContextDone(w)
  BY <1>0, <1>5 DEF ExportProcessesReturns, ContextDone, ReturnTrue, ReturnFalse
<1>6. CASE BackoffElapses(w)
  BY <1>0, <1>6 DEF BackoffElapses, Call
<1>. QED  BY <1>1, <1>2, <1>3, <1>4, <1>5, <1>6 DEF AnyCallStep

OnceInv == ExportInv /\ \A w \in Workers : Once(w)

LEMMA OnceStep ==
  ASSUME OnceInv, [ExportNext]_exportVars
  PROVE  /\ OnceInv'
         /\ \A w \in Workers :
              (call[w].samplesExported /\ Exporting(w)')
                => call'[w].samplesExported /\ call'[w].pc # "exportRun"
<1>. USE DEF Once
<1>0. ExportInv' /\ ExportTypeOK /\ call \in [Workers -> Call]
      /\ NoCall.pc = "idle" /\ NoCall.samplesExported = FALSE
  BY ExportStepInv DEF OnceInv, ExportInv, ExportTypeOK, NoCall
<1>1. ASSUME \A w \in Workers :
                /\ Once(w)'
                /\ call[w].samplesExported /\ call'[w].pc # "idle" => call'[w].samplesExported
      PROVE  /\ OnceInv'
             /\ \A w \in Workers :
                  (call[w].samplesExported /\ Exporting(w)')
                    => call'[w].samplesExported /\ call'[w].pc # "exportRun"
  BY <1>0, <1>1 DEF OnceInv, Exporting
<1>2. ASSUME NEW w \in Workers, NEW d, NEW P \in SUBSET Procs, AnyCallStep(w, d, P),
             NEW v \in Workers
      PROVE  /\ Once(v)'
             /\ call[v].samplesExported /\ call'[v].pc # "idle" => call'[v].samplesExported
  BY <1>0, <1>2, CallOnce DEF OnceInv
<1>3. ASSUME NEW w \in Workers, CallStep(w)
      PROVE  \E d : \E P \in SUBSET Procs : AnyCallStep(w, d, P)
  BY <1>3 DEF CallStep, AnyCallStep
<1>4. ASSUME NEW w \in Workers, RunMarks(w), NEW v \in Workers
      PROVE  /\ Once(v)'
             /\ call[v].samplesExported /\ call'[v].pc # "idle" => call'[v].samplesExported
  <2>1. ~call[w].samplesExported
    BY <1>4 DEF RunMarks, Exporting, OnceInv
  <2>2. [NoCall EXCEPT !.pc = "getRun"].samplesExported = FALSE
    BY DEF NoCall
  <2>. QED  BY <1>0, <1>4, <2>1, <2>2 DEF RunMarks, OnceInv
<1>5. ASSUME NEW i \in Instances, InstanceRestarts(i), NEW v \in Workers
      PROVE  /\ Once(v)'
             /\ call[v].samplesExported /\ call'[v].pc # "idle" => call'[v].samplesExported
  BY <1>0, <1>5 DEF InstanceRestarts, OnceInv
<1>6. ASSUME UNCHANGED call, NEW v \in Workers
      PROVE  /\ Once(v)'
             /\ call[v].samplesExported /\ call'[v].pc # "idle" => call'[v].samplesExported
  BY <1>6 DEF OnceInv
<1>. QED
  BY <1>1, <1>2, <1>3, <1>4, <1>5, <1>6 DEF ExportNext, RunIsDuplicate, exportVars

\* SamplesInsertedOncePerCall: a retry repeats only the insert that failed.
THEOREM RetriesSkipSamples == ExportSpec => SamplesInsertedOncePerCall
<1>1. ExportInit => OnceInv
  BY ExportInitInv DEF ExportInit, OnceInv, Once, NoCall
<1>2. OnceInv /\ [ExportNext]_exportVars => OnceInv'
  BY OnceStep
<1>3. OnceInv /\ [ExportNext]_exportVars
        => [\A w \in Workers :
              (call[w].samplesExported /\ Exporting(w)')
                => call'[w].samplesExported /\ call'[w].pc # "exportRun"]_exportVars
  BY OnceStep
<1>. QED  BY <1>1, <1>2, <1>3, PTL DEF ExportSpec, SamplesInsertedOncePerCall

----------------------------------------------------------------------------
(***************************************************************************)
(* What a call is about to insert comes from a run document that opted in  *)
(* and was finished, and a call that leaves its mark behind has inserted   *)
(* it, or found nothing to insert.                                         *)
(***************************************************************************)
Reading == {"getProcesses", "exportRun", "exportProcesses"}

\* The samples of the call are in the table.
Inserted(w) == call[w].samplesExported \/ call[w].pc = "exportProcesses"

CallGoesOn(w, d) ==
  /\ call'[w].pc # "idle"
  /\ call'[w].pc \in Reading
       => \/ /\ call[w].pc = "getRun" /\ call'[w].samples = d.samples
             /\ d.finished /\ d.exportToBigquery
          \/ call[w].pc \in Reading /\ call'[w].samples = call[w].samples
  /\ call'[w].samples \in {call[w].samples, d.samples}
  /\ Inserted(w)' => Inserted(w) \/ (call[w].pc \in Reading /\ RowsOf(call[w].samples) \subseteq sampleRows')

CallEnds(w, d) ==
  /\ call'[w] = NoCall
  /\ scheduled'[InstanceOf[w]]
       => \/ call[w].pc = "getRun" /\ ~(d.finished /\ d.exportToBigquery)
          \/ call[w].pc \in Reading /\ RowsOf(call[w].samples) \subseteq sampleRows'
          \/ Inserted(w)

LEMMA CallAdvances ==
  ASSUME ExportTypeOK, NEW w \in Workers, NEW d, d.samples \in Seq(Samples),
         NEW P \in SUBSET Procs, AnyCallStep(w, d, P)
  PROVE  CallGoesOn(w, d) \/ CallEnds(w, d)
<1>0. call \in [Workers -> Call] /\ call[w] \in Call
      /\ NoCall.pc = "idle" /\ NoCall.samplesExported = FALSE
  BY DEF ExportTypeOK, NoCall
<1>a. ASSUME AttemptFails(w) PROVE CallGoesOn(w, d) \/ CallEnds(w, d)
  <2>1. CASE call'[w] = NoCall /\ ~scheduled'[InstanceOf[w]]
    BY <2>1 DEF CallEnds
  <2>2. CASE /\ call'[w].pc = "backoff"
             /\ call'[w].samplesExported = call[w].samplesExported
             /\ call'[w].samples = call[w].samples
    BY <2>2 DEF CallGoesOn, Reading, Inserted
  <2>. QED  BY <1>a, <2>1, <2>2, AttemptFailsCall
<1>b. ASSUME NEW c \in Call, AfterSamples(w, c), c.samples = call[w].samples,
             call[w].pc \in Reading,
             Inserted(w) \/ RowsOf(call[w].samples) \subseteq sampleRows'
      PROVE  CallGoesOn(w, d) \/ CallEnds(w, d)
  <2>1. CASE call'[w] = NoCall
    BY <1>b, <2>1 DEF CallEnds
  <2>2. CASE /\ call'[w].pc = "exportProcesses" /\ call'[w].samples = c.samples
    BY <1>b, <2>2 DEF CallGoesOn, Reading
  <2>. QED  BY <1>b, <2>1, <2>2, AfterSamplesCall
<1>1. CASE GetRunReturns(w, d)
  <2>1. CASE ReturnTrue(w, "skipped") /\ ~(d.exportToBigquery /\ d.finished)
    BY <1>0, <1>1, <2>1 DEF GetRunReturns, ReturnTrue, CallEnds
  <2>2. CASE /\ d.exportToBigquery /\ d.finished
             /\ call' = [call EXCEPT ![w].pc = "getProcesses", ![w].samples = d.samples]
    <3>1. call[w].pc = "getRun"
      BY <1>1 DEF GetRunReturns
    <3>2. /\ call'[w].pc = "getProcesses" /\ call'[w].samples = d.samples
          /\ call'[w].samplesExported = call[w].samplesExported
      BY <1>0, <2>2 DEF Call
    <3>. QED  BY <2>2, <3>1, <3>2 DEF CallGoesOn, Reading, Inserted
  <2>. QED  BY <1>1, <2>1, <2>2 DEF GetRunReturns
<1>2. CASE GetRunFails(w) \/ GetProcessesFails(w) \/ ExportRunFails(w) \/ ExportProcessesFails(w)
  BY <1>2, <1>a DEF GetRunFails, GetProcessesFails, ExportRunFails, ExportProcessesFails
<1>3. CASE GetProcessesReturns(w, P)
  <2>. DEFINE c == [call[w] EXCEPT !.procs = P]
  <2>1. /\ c \in Call /\ c.samplesExported = call[w].samplesExported
        /\ c.samples = call[w].samples /\ call[w].pc = "getProcesses"
    BY <1>0, <1>3 DEF Call, GetProcessesReturns
  <2>e. call[w].samples = <<>> => RowsOf(call[w].samples) \subseteq sampleRows'
    BY DEF RowsOf
  <2>2. CASE AfterSamples(w, c) /\ (c.samples = <<>> \/ c.samplesExported)
    <3>1. Inserted(w) \/ RowsOf(call[w].samples) \subseteq sampleRows'
      BY <2>1, <2>2, <2>e DEF Inserted
    <3>. HIDE DEF c
    <3>. QED  BY <1>b, <2>1, <2>2, <3>1 DEF Reading
  <2>3. CASE ReturnTrue(w, "skipped") /\ c.samples = <<>>
    BY <1>0, <2>1, <2>3, <2>e DEF ReturnTrue, CallEnds, Reading
  <2>4. CASE ~c.samplesExported /\ call' = [call EXCEPT ![w] = [c EXCEPT !.pc = "exportRun"]]
    <3>1. /\ [c EXCEPT !.pc = "exportRun"].samplesExported = FALSE
          /\ [c EXCEPT !.pc = "exportRun"].samples = call[w].samples
          /\ [c EXCEPT !.pc = "exportRun"].pc = "exportRun"
      BY <2>1, <2>4 DEF Call
    <3>. QED  BY <1>0, <2>1, <2>4, <3>1 DEF CallGoesOn, Reading, Inserted
  <2>. QED  BY <1>3, <2>2, <2>3, <2>4 DEF GetProcessesReturns
<1>4. CASE ExportRunReturns(w)
  <2>. DEFINE c == [call[w] EXCEPT !.samplesExported = TRUE]
  <2>1. c \in Call /\ c.samples = call[w].samples
    BY <1>0 DEF Call
  <2>2. /\ AfterSamples(w, c) /\ call[w].pc = "exportRun"
        /\ RowsOf(call[w].samples) \subseteq sampleRows'
    BY <1>4 DEF ExportRunReturns
  <2>. HIDE DEF c
  <2>. QED  BY <1>b, <2>1, <2>2 DEF Reading
<1>5. CASE ExportProcessesReturns(w)
  BY <1>0, <1>5 DEF ExportProcessesReturns, ReturnTrue, CallEnds, Inserted
<1>6. CASE ContextDone(w)
  BY <1>0, <1>6, InstanceAssumption DEF ContextDone, ReturnFalse, CallEnds, ExportTypeOK
<1>7. CASE BackoffElapses(w)
  <2>1. /\ call'[w].pc = "getRun" /\ call'[w].samples = call[w].samples
        /\ call'[w].samplesExported = call[w].samplesExported
    BY <1>0, <1>7 DEF BackoffElapses, Call
  <2>. QED  BY <2>1 DEF CallGoesOn, Reading, Inserted
<1>. QED  BY <1>1, <1>2, <1>3, <1>4, <1>5, <1>6, <1>7 DEF AnyCallStep

\* The only rows a call inserts are those of the samples it has read.
LEMMA CallRows ==
  ASSUME ExportTypeOK, NEW w \in Workers, NEW d, NEW P, AnyCallStep(w, d, P)
  PROVE  /\ sampleRows \subseteq sampleRows'
         /\ sampleRows' \subseteq sampleRows \cup RowsOf(call[w].samples)
         /\ sampleRows' # sampleRows \/ processRows' # processRows => call[w].pc \in Reading
BY DEF AnyCallStep, GetRunReturns, GetRunFails, GetProcessesReturns, GetProcessesFails,
       ExportRunReturns, ExportRunFails, ExportProcessesReturns, ExportProcessesFails,
       BackoffElapses, ContextDone, Reading

----------------------------------------------------------------------------
\* The abstract rows of a step that inserts or leaves the tables alone.
LEMMA RowsGrowAbstractly ==
  ASSUME RowsGrow
  PROVE  Mark!RowsAdded
BY DEF RowsGrow, Mark!RowsAdded

\* An instance with a goroutine in a call is seen exporting.
LEMMA ExportingPhase ==
  ASSUME ExportInv, NEW w \in Workers, Exporting(w)
  PROVE  InstanceOf[w] \in Instances /\ PhaseOf(InstanceOf[w]) = "exporting"
BY InstanceAssumption DEF ExportInv, OneExportPerInstance, PhaseOf

\* A claim of the mark is a Claim.
LEMMA ClaimsRefines ==
  ASSUME ExportInv, NEW w \in Workers, Claims(w)
  PROVE  Mark!Claim(InstanceOf[w])
<1> DEFINE c == [NoCall EXCEPT !.pc = "getRun"]
<1>1. c.pc = "getRun"
  BY NoCallType DEF Call, CallPcs
<1>2. \A v \in Workers : Exporting(v)' <=> (Exporting(v) \/ v = w)
  BY <1>1 DEF ExportInv, ExportTypeOK, Claims, Exporting
<1>3. InstanceOf[w] \in Instances /\ scheduled'[InstanceOf[w]]
  BY InstanceAssumption DEF ExportInv, ExportTypeOK, Claims
<1>4. \A i \in Instances : i # InstanceOf[w] => scheduled'[i] = scheduled[i]
  BY DEF ExportInv, ExportTypeOK, Claims
<1>5. PhaseOf(InstanceOf[w]) = "free"
  BY DEF PhaseOf, Claims
<1>6. PhaseOf(InstanceOf[w])' = "exporting"
  BY <1>2, <1>3 DEF PhaseOf
<1>7. ASSUME NEW i \in Instances, i # InstanceOf[w]
      PROVE  PhaseOf(i)' = PhaseOf(i)
  BY <1>2, <1>4, <1>7 DEF PhaseOf
<1>8. [i \in Instances |-> PhaseOf(i)]'
        = [[i \in Instances |-> PhaseOf(i)] EXCEPT ![InstanceOf[w]] = "exporting"]
  BY <1>6, <1>7
<1>9. UNCHANGED <<result, [samples |-> sampleRows, processes |-> processRows]>>
  BY DEF Claims
<1> QED
  BY <1>3, <1>5, <1>8, <1>9 DEF Mark!Claim

\* Going on with an export is an Insert that leaves the phase alone.
LEMMA GoesOnRefines ==
  ASSUME ExportInv, NEW w \in Workers, GoesOn(w), RowsGrow
  PROVE  Mark!Insert(InstanceOf[w])
<1>1. \A v \in Workers : Exporting(v)' <=> Exporting(v)
  BY DEF ExportInv, ExportTypeOK, GoesOn, Exporting
<1>2. ASSUME NEW i \in Instances PROVE PhaseOf(i)' = PhaseOf(i)
  BY <1>1 DEF PhaseOf, GoesOn
<1>3. InstanceOf[w] \in Instances /\ PhaseOf(InstanceOf[w]) = "exporting"
  BY ExportingPhase DEF GoesOn
<1>4. UNCHANGED <<[i \in Instances |-> PhaseOf(i)], result>>
  BY <1>2 DEF GoesOn
<1> QED
  BY <1>3, <1>4, RowsGrowAbstractly DEF Mark!Insert

\* A call that returns true settles the run on its instance.
LEMMA EndsTrueRefines ==
  ASSUME ExportInv, NEW w \in Workers, EndsTrue(w), RowsGrow
  PROVE  \E how \in {"exported", "skipped"} : Mark!Settle(InstanceOf[w], how)
<1>0. PICK how \in {"exported", "skipped"} :
        /\ ReturnTrue(w, how)
        /\ how = "skipped" => UNCHANGED <<sampleRows, processRows>>
  BY DEF EndsTrue
<1>a. /\ scheduled' = scheduled /\ call' = [call EXCEPT ![w] = NoCall]
      /\ result' = [result EXCEPT ![InstanceOf[w]] = how]
  BY <1>0 DEF ReturnTrue
<1>1. \A v \in Workers : Exporting(v)' <=> (Exporting(v) /\ v # w)
  BY <1>a, NoCallType DEF ExportInv, ExportTypeOK, Exporting
<1>2. InstanceOf[w] \in Instances /\ PhaseOf(InstanceOf[w]) = "exporting"
  BY ExportingPhase DEF EndsTrue
<1>3. scheduled'[InstanceOf[w]]
  BY <1>a DEF ExportInv, OneExportPerInstance, EndsTrue
<1>4. \A v \in Workers : InstanceOf[v] = InstanceOf[w] => ~Exporting(v)'
  BY <1>1 DEF ExportInv, OneExportPerInstance, EndsTrue
<1>5. PhaseOf(InstanceOf[w])' = "settled"
  BY <1>3, <1>4 DEF PhaseOf
<1>6. ASSUME NEW i \in Instances, i # InstanceOf[w]
      PROVE  PhaseOf(i)' = PhaseOf(i)
  BY <1>1, <1>6, <1>a DEF PhaseOf
<1>7. [i \in Instances |-> PhaseOf(i)]'
        = [[i \in Instances |-> PhaseOf(i)] EXCEPT ![InstanceOf[w]] = "settled"]
  BY <1>5, <1>6
<1> QED
  BY <1>0, <1>a, <1>2, <1>7, RowsGrowAbstractly DEF Mark!Settle

\* A call that returns false frees the run on its instance.
LEMMA EndsFalseRefines ==
  ASSUME ExportInv, NEW w \in Workers, EndsFalse(w), RowsGrow
  PROVE  Mark!Fail(InstanceOf[w])
<1>1. \A v \in Workers : Exporting(v)' <=> (Exporting(v) /\ v # w)
  BY NoCallType DEF ExportInv, ExportTypeOK, EndsFalse, ReturnFalse, Exporting
<1>2. InstanceOf[w] \in Instances /\ PhaseOf(InstanceOf[w]) = "exporting"
  BY ExportingPhase DEF EndsFalse
<1>3. ~scheduled'[InstanceOf[w]]
  BY <1>2 DEF ExportInv, ExportTypeOK, EndsFalse, ReturnFalse
<1>4. PhaseOf(InstanceOf[w])' = "free"
  BY <1>3 DEF PhaseOf
<1>5. ASSUME NEW i \in Instances, i # InstanceOf[w]
      PROVE  PhaseOf(i)' = PhaseOf(i)
  <2>1. scheduled'[i] = scheduled[i]
    BY <1>5 DEF ExportInv, ExportTypeOK, EndsFalse, ReturnFalse
  <2> QED
    BY <1>1, <1>5, <2>1 DEF PhaseOf
<1>6. [i \in Instances |-> PhaseOf(i)]'
        = [[i \in Instances |-> PhaseOf(i)] EXCEPT ![InstanceOf[w]] = "free"]
  BY <1>4, <1>5
<1> QED
  BY <1>2, <1>6, RowsGrowAbstractly DEF Mark!Fail, EndsFalse, ReturnFalse

\* A restart of an instance is a Restart.
LEMMA RestartRefines ==
  ASSUME ExportInv, NEW i \in Instances, InstanceRestarts(i)
  PROVE  Mark!Restart(i)
<1>1. \A v \in Workers : Exporting(v)' <=> (Exporting(v) /\ InstanceOf[v] # i)
  BY NoCallType DEF ExportInv, ExportTypeOK, InstanceRestarts, Exporting
<1>2. PhaseOf(i)' = "free"
  BY DEF ExportInv, ExportTypeOK, InstanceRestarts, PhaseOf
<1>3. ASSUME NEW j \in Instances, j # i PROVE PhaseOf(j)' = PhaseOf(j)
  <2>1. scheduled'[j] = scheduled[j]
    BY <1>3 DEF ExportInv, ExportTypeOK, InstanceRestarts
  <2> QED
    BY <1>1, <1>3, <2>1 DEF PhaseOf
<1>4. [j \in Instances |-> PhaseOf(j)]'
        = [[j \in Instances |-> PhaseOf(j)] EXCEPT ![i] = "free"]
  BY <1>2, <1>3
<1>5. /\ result' = [result EXCEPT ![i] = "none"]
      /\ UNCHANGED [samples |-> sampleRows, processes |-> processRows]
  BY DEF InstanceRestarts
<1> QED
  BY <1>4, <1>5 DEF Mark!Restart

\* Every step of the scheduler is a step of ExportMark or stutters.
LEMMA ExportStepRefines ==
  ExportInv /\ [ExportNext]_exportVars => [Mark!MarkNext]_Mark!markVars
<1> SUFFICES ASSUME ExportInv, [ExportNext]_exportVars
             PROVE  [Mark!MarkNext]_Mark!markVars
  OBVIOUS
<1>0. ASSUME NEW i \in Instances,
             \/ Mark!Claim(i) \/ Mark!Insert(i) \/ Mark!Fail(i) \/ Mark!Restart(i)
             \/ \E how \in {"exported", "skipped"} : Mark!Settle(i, how)
      PROVE  [Mark!MarkNext]_Mark!markVars
  BY <1>0 DEF Mark!MarkNext
<1>1. ASSUME NEW w \in Workers, RunMarks(w)
      PROVE  [Mark!MarkNext]_Mark!markVars
  BY <1>0, <1>1, ClaimsRefines, InstanceAssumption DEF RunMarks, Claims
<1>2. ASSUME NEW w \in Workers, CallStep(w)
      PROVE  [Mark!MarkNext]_Mark!markVars
  BY <1>0, <1>2, CallStepCases, GoesOnRefines, EndsTrueRefines,
     EndsFalseRefines, InstanceAssumption DEF ExportInv
<1>3. ASSUME NEW i \in Instances, InstanceRestarts(i)
      PROVE  [Mark!MarkNext]_Mark!markVars
  BY <1>0, <1>3, RestartRefines
<1>4. ASSUME UNCHANGED exportVars
      PROVE  [Mark!MarkNext]_Mark!markVars
  BY <1>4 DEF exportVars, Mark!markVars, PhaseOf, Exporting
<1>5. ASSUME NEW w \in Workers, RunIsDuplicate(w)
      PROVE  [Mark!MarkNext]_Mark!markVars
  BY <1>4, <1>5 DEF RunIsDuplicate
<1> QED
  BY <1>1, <1>2, <1>3, <1>4, <1>5 DEF ExportNext

\* The initial states of the scheduler are initial states of ExportMark.
LEMMA ExportInitRefines == ExportInit => Mark!MarkInit
BY DEF ExportInit, Mark!MarkInit, PhaseOf

\* The scheduler implements ExportMark: rows are inserted only by an instance
\* that holds the mark, a call that exported or skipped leaves the run settled
\* for the life of the process, and a call that failed leaves it free.
THEOREM ExportRefinesMark == ExportSpec => ImplementsExportMark
BY ExportInitInv, ExportStepInv, ExportInitRefines, ExportStepRefines, PTL
DEF ExportSpec, ImplementsExportMark, Mark!MarkSpec
=============================================================================
