------------------------------ MODULE Monitor ------------------------------
(***************************************************************************)
(* monitor_with_backend.sh: the script that samples the build processes of *)
(* a job every few seconds, writes the samples to the log file and posts   *)
(* them to the backend, with the authentication token, the one retry after *)
(* a refused token, the call counters and the handling of a signal.        *)
(*                                                                         *)
(* Calls that leave the script are steps of their own: jps, jinfo and ps   *)
(* tell what the build does, and a request may be refused, fail, or be     *)
(* accepted although its answer is lost.  A signal is handled between two  *)
(* commands, so the answer of curl and its evaluation are separate steps.  *)
(***************************************************************************)
EXTENDS Naturals, Sequences, FiniteSets

CONSTANTS
  Pids,           \* the build processes that match PATTERNS
  NoPid,          \* no process
  MaxIterations,  \* bound on the iterations of the loop
  Signals         \* may the script be terminated?

ASSUME MonitorAssumption ==
  NoPid \notin Pids /\ MaxIterations \in Nat /\ Signals \in BOOLEAN

VARIABLES
  outages,    \* may a request fail, or its answer be lost, during this job?
  pc,         \* where the script is
  token,      \* AUTH_TOKEN, as the backend sees it
  available,  \* BACKEND_AVAILABLE
  iteration,  \* ITERATION
  todo,       \* processes of the jps output that are not sampled yet
  current,    \* the process being sampled
  seen,       \* seen_pids
  infoFile,   \* the process_info file
  log,        \* the log file
  batch,      \* process_data: the samples of this iteration still to send
  answer,     \* curl's view of the last request
  calls,      \* TOTAL_SUCCESSFUL_CALLS and TOTAL_FAILED_CALLS
  summary,    \* the two call count files
  received,   \* the backend: samples it accepted
  infos       \* the backend: process info it accepted

network == <<received, infos, outages>>
files == <<infoFile, log, summary>>
sampling == <<todo, current, seen, iteration>>
sending == <<batch, answer, calls>>
vars == <<pc, token, available, sampling, files, sending, network>>

Samples == (1..MaxIterations) \X Pids

Pcs == {"start", "health", "iterate", "scan", "info", "infoPost", "infoAnswer",
        "measure", "send", "post", "answer", "refresh", "repost", "reanswer",
        "sleep", "trap", "exit", "ended"}

Answers == {"none", "ok", "unauthorized", "error"}

MonitorTypeOK ==
  /\ outages \in BOOLEAN
  /\ pc \in Pcs
  /\ token \in {"none", "valid", "expired"}
  /\ available \in BOOLEAN
  /\ iteration \in 0..MaxIterations
  /\ todo \subseteq Pids /\ seen \subseteq Pids /\ infoFile \subseteq Pids
  /\ current \in Pids \cup {NoPid}
  /\ log \in Seq(Samples) /\ batch \in Seq(Samples) /\ received \in Seq(Samples)
  /\ infos \in Seq(Pids)
  /\ answer \in Answers
  /\ calls \in [successful: Nat, failed: Nat]
  /\ summary \in {<<>>} \cup [successful: Nat, failed: Nat]

Init ==
  /\ outages \in BOOLEAN
  /\ pc = "start" /\ token = "none" /\ available = FALSE
  /\ iteration = 0 /\ todo = {} /\ current = NoPid /\ seen = {}
  /\ infoFile = {} /\ log = <<>> /\ summary = <<>>
  /\ batch = <<>> /\ answer = "none"
  /\ calls = [successful |-> 0, failed |-> 0]
  /\ received = <<>> /\ infos = <<>>

----------------------------------------------------------------------------
(***************************************************************************)
(* Requests                                                                *)
(***************************************************************************)

\* get_auth_token: a failure leaves the old token in place.
GetToken(onSuccess, onFailure) ==
  \/ token' = "valid" /\ pc' = onSuccess
  \/ outages /\ UNCHANGED token /\ pc' = onFailure

\* POST /ingest.  The backend refuses an expired token before it stores
\* anything; accept is what it does otherwise, and the answer may be lost.
Post(accept, refuse) ==
  \/ token = "valid" /\ accept /\ answer' = "ok"
  \/ token = "valid" /\ accept /\ outages /\ answer' = "error"
  \/ token = "expired" /\ refuse /\ answer' = "unauthorized"
  \/ outages /\ refuse /\ answer' = "error"

CountSuccess == calls' = [calls EXCEPT !.successful = @ + 1]
CountFailure == calls' = [calls EXCEPT !.failed = @ + 1]

----------------------------------------------------------------------------
(***************************************************************************)
(* Start: a first token, and the only test whether the backend is there.   *)
(***************************************************************************)
RequestInitialToken ==
  /\ pc = "start"
  /\ \/ GetToken("health", "health")
     \/ pc' = "iterate" /\ UNCHANGED token  \* REMOTE_MONITORING is not true
  /\ UNCHANGED <<available, sampling, files, sending, network>>

TestConnectivity ==
  /\ pc = "health"
  /\ available' \in IF outages THEN BOOLEAN ELSE {TRUE}
  /\ pc' = "iterate"
  /\ UNCHANGED <<token, sampling, files, sending, network>>

----------------------------------------------------------------------------
(***************************************************************************)
(* Sampling                                                                *)
(***************************************************************************)

\* An iteration starts; jps lists the processes P.
Iterate ==
  /\ pc = "iterate"
  /\ iteration < MaxIterations
  /\ iteration' = iteration + 1
  /\ todo' \in SUBSET Pids
  /\ batch' = <<>>
  /\ pc' = "scan"
  /\ UNCHANGED <<token, available, current, seen, files, answer, calls, network>>

\* Mutant: a process is taken for seen only when its info was sent.
TakeProcessUnmarked(p) ==
  /\ pc = "scan" /\ p \in todo
  /\ todo' = todo \ {p} /\ current' = p
  /\ pc' \in {"measure", "info"}
  /\ seen' = IF p \in infoFile THEN seen ELSE seen \cup {p}
  /\ infoFile' = infoFile \cup {p}
  /\ UNCHANGED <<token, available, log, summary, iteration, sending, network>>

\* The next process p.  One seen for the first time is marked before its flags
\* are read, and its info is written and sent only when there are flags.
TakeProcess(p) ==
  /\ pc = "scan" /\ p \in todo
  /\ todo' = todo \ {p} /\ current' = p
  /\ \/ /\ p \notin seen
        /\ seen' = seen \cup {p}
        /\ infoFile' = infoFile \cup {p}
        /\ pc' = IF available THEN "info" ELSE "measure"
     \/ /\ seen' = seen \cup {p}
        /\ pc' = "measure"
        /\ UNCHANGED infoFile
  /\ UNCHANGED <<token, available, log, summary, iteration, sending, network>>

\* The process has ended since jps listed it.
SkipProcess(p) ==
  /\ pc = "scan" /\ p \in todo
  /\ todo' = todo \ {p}
  /\ UNCHANGED <<pc, token, available, current, seen, iteration, files, sending, network>>

\* send_process_info_to_backend gives up without a token, uncounted.
SendProcessInfo ==
  /\ pc = "info"
  /\ IF token = "none" THEN GetToken("infoPost", "measure")
     ELSE pc' = "infoPost" /\ UNCHANGED token
  /\ UNCHANGED <<available, sampling, files, sending, network>>

PostProcessInfo ==
  /\ pc = "infoPost"
  /\ Post(infos' = Append(infos, current), UNCHANGED infos)
  /\ pc' = "infoAnswer"
  /\ UNCHANGED <<token, available, sampling, files, batch, calls, received, outages>>

\* Any answer but success counts as a failure; a refused token is kept.
ProcessInfoAnswered ==
  /\ pc = "infoAnswer"
  /\ IF answer = "ok" THEN CountSuccess ELSE CountFailure
  /\ pc' = "measure"
  /\ UNCHANGED <<token, available, sampling, files, batch, answer, network>>

\* Memory and GC data of the process, unless ps does not find it any more.
Measure ==
  /\ pc = "measure"
  /\ \/ /\ log' = Append(log, <<iteration, current>>)
        /\ batch' = Append(batch, <<iteration, current>>)
     \/ UNCHANGED <<log, batch>>
  /\ pc' = "scan"
  /\ UNCHANGED <<token, available, sampling, infoFile, summary, answer, calls, network>>

\* All processes are sampled; without a backend the batch stays local.
StartSending ==
  /\ pc = "scan" /\ todo = {}
  /\ batch' = IF available THEN batch ELSE <<>>
  /\ pc' = "send"
  /\ UNCHANGED <<token, available, sampling, files, answer, calls, network>>

----------------------------------------------------------------------------
(***************************************************************************)
(* Sending the batch, one request per sample                               *)
(***************************************************************************)

\* send_to_backend returns, and the loop goes on whatever it says.
Sent == batch' = Tail(batch) /\ pc' = "send"

\* send_to_backend without a token asks for one, and fails without.
SendToBackend ==
  /\ pc = "send" /\ batch # <<>>
  /\ \/ /\ token' = IF token = "none" THEN "valid" ELSE token
        /\ pc' = "post"
        /\ UNCHANGED batch
     \/ /\ token = "none" /\ outages
        /\ Sent
        /\ UNCHANGED token
  /\ UNCHANGED <<available, sampling, files, answer, calls, network>>

PostSample ==
  /\ \/ pc = "post" /\ pc' = "answer"
     \/ pc = "repost" /\ pc' = "reanswer"
  /\ Post(received' = Append(received, Head(batch)), UNCHANGED received)
  /\ UNCHANGED <<token, available, sampling, files, batch, calls, infos, outages>>

\* Mutants: every failed request is tried again; a refused one is not.
SampleAnsweredRetries ==
  /\ pc = "answer"
  /\ \/ answer = "ok" /\ CountSuccess /\ Sent
     \/ answer # "ok" /\ pc' = "refresh" /\ UNCHANGED <<calls, batch>>
  /\ UNCHANGED <<token, available, sampling, files, answer, network>>
SampleAnsweredGivesUp ==
  /\ pc = "answer"
  /\ IF answer = "ok" THEN CountSuccess ELSE CountFailure
  /\ Sent
  /\ UNCHANGED <<token, available, sampling, files, answer, network>>

\* The call is counted by its answer; only a refused token is worth a retry.
SampleAnswered ==
  /\ pc = "answer"
  /\ \/ answer = "ok" /\ CountSuccess /\ Sent
     \/ answer = "error" /\ CountFailure /\ Sent
     \/ answer = "unauthorized" /\ pc' = "refresh" /\ UNCHANGED <<calls, batch>>
  /\ UNCHANGED <<token, available, sampling, files, answer, network>>

\* A refused token is replaced, or the sample dropped without counting it.
RefreshToken ==
  /\ pc = "refresh"
  /\ \/ token' = "valid" /\ pc' = "repost" /\ UNCHANGED batch
     \/ outages /\ UNCHANGED token /\ Sent
  /\ UNCHANGED <<available, sampling, files, answer, calls, network>>

\* Mutant: the success of the retry is not counted.
RetryAnsweredUncounted ==
  /\ pc = "reanswer"
  /\ IF answer = "ok" THEN UNCHANGED calls ELSE CountFailure
  /\ Sent
  /\ UNCHANGED <<token, available, sampling, files, answer, network>>

\* The retry is the last one, whatever its answer.
RetryAnswered ==
  /\ pc = "reanswer"
  /\ IF answer = "ok" THEN CountSuccess ELSE CountFailure
  /\ Sent
  /\ UNCHANGED <<token, available, sampling, files, answer, network>>

FinishIteration ==
  /\ pc = "send" /\ batch = <<>>
  /\ pc' = "sleep"
  /\ UNCHANGED <<token, available, sampling, files, sending, network>>

WakeUp ==
  /\ pc = "sleep"
  /\ pc' = "iterate"
  /\ UNCHANGED <<token, available, sampling, files, sending, network>>

----------------------------------------------------------------------------
(***************************************************************************)
(* The end: SIGTERM or SIGINT run the trap, whose exit runs the EXIT trap. *)
(* Each of the two saves the counters and runs the cleanup.                *)
(***************************************************************************)
SaveSummary == summary' = calls

Terminate ==
  /\ Signals
  /\ pc \notin {"start", "ended"}
  /\ SaveSummary
  /\ pc' = "trap"
  /\ UNCHANGED <<token, available, sampling, infoFile, log, sending, network>>

Exit ==
  /\ pc \in {"trap", "exit"}
  /\ SaveSummary
  /\ pc' = IF pc = "trap" THEN "exit" ELSE "ended"
  /\ UNCHANGED <<token, available, sampling, infoFile, log, sending, network>>

\* The runner kills what is left of a job: nothing is saved.
Killed ==
  /\ Signals
  /\ pc # "ended"
  /\ pc' = "ended"
  /\ UNCHANGED <<token, available, sampling, files, sending, network>>

\* Two hours after it was issued.  That a request is under way makes no
\* difference to when; a token just issued outlives the request it is for.
TokenExpires ==
  /\ token = "valid"
  /\ pc \notin {"infoPost", "post", "repost"}
  /\ token' = "expired"
  /\ UNCHANGED <<pc, available, sampling, files, sending, network>>

Script ==
  \/ RequestInitialToken
  \/ TestConnectivity
  \/ Iterate
  \/ \E p \in Pids : TakeProcess(p) \/ SkipProcess(p)
  \/ SendProcessInfo
  \/ PostProcessInfo
  \/ ProcessInfoAnswered
  \/ Measure
  \/ StartSending
  \/ SendToBackend
  \/ PostSample
  \/ SampleAnswered
  \/ RefreshToken
  \/ RetryAnswered
  \/ FinishIteration
  \/ WakeUp
  \/ Exit

Next == Script \/ Terminate \/ Killed \/ TokenExpires

Spec == Init /\ [][Next]_vars

\* The script runs, every request ends (curl has a time limit) and sleep ends.
FairSpec == Spec /\ WF_vars(Script)

----------------------------------------------------------------------------
(***************************************************************************)
(* Properties                                                              *)
(***************************************************************************)
Uncounted ==
  IF pc \in {"infoAnswer", "answer", "reanswer", "trap", "exit", "ended"} THEN 1 ELSE 0

\* The counters the summary is made of account for the calls: what they call
\* successful the backend has accepted, and the backend has accepted nothing
\* that was not counted, but for the one call whose answer is being evaluated,
\* or was when a signal came.  The rest of the script's state has its types.
CallsAccountedFor ==
  LET accepted == Len(received) + Len(infos)
  IN /\ MonitorTypeOK
     /\ calls.successful <= accepted
     /\ accepted <= calls.successful + calls.failed + Uncounted

\* The feed of samples: the backend receives samples of the log in its order
\* and none twice, although a refused request is sent again.
Feed == INSTANCE SampleFeed WITH Items <- Samples

ImplementsFeed == Feed!FeedSpec

\* A process is introduced to the backend once, and before its first sample.
InfoPrecedesSamples ==
  [][infos' # infos
       => /\ \A i \in DOMAIN infos : infos[i] # current
          /\ \A i \in DOMAIN received : received[i][2] # current]_vars

\* While no request fails, every sample written while the backend was found
\* available reaches it, unless a signal ends the script before: a token that
\* expires is replaced in time.
SamplesReachBackend ==
  \A s \in Samples :
    (~outages /\ available /\ \E i \in DOMAIN batch : batch[i] = s)
      ~> \/ \E i \in DOMAIN received : received[i] = s
         \/ pc \in {"trap", "exit", "ended"}
=============================================================================
