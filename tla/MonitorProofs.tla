--------------------------- MODULE MonitorProofs ---------------------------
(***************************************************************************)
(* Proofs about the monitor, for any processes, any number of iterations   *)
(* and any interplay of refused tokens, lost answers and signals.          *)
(*                                                                         *)
(* The argument.  What the counters miss is the one call whose answer is   *)
(* not evaluated yet, and an answer says what the backend did with it.     *)
(* The batch is always the end of the log, so a sample is sent from the    *)
(* place in the log up to which the backend has seen it; an answer other   *)
(* than a refusal moves that place past the sample, whatever became of it. *)
(***************************************************************************)
EXTENDS Monitor, TLAPS

----------------------------------------------------------------------------
(***************************************************************************)
(* The calls                                                               *)
(***************************************************************************)

Sampled == {"info", "infoPost", "infoAnswer", "measure"}
Sending == {"post", "answer", "refresh", "repost", "reanswer"}
Answered == {"infoAnswer", "answer", "reanswer"}

\* What the place of the script says of the process and the batch it works on.
ScriptAt ==
  /\ pc \in Sampled => current \in seen /\ current \notin todo
  /\ pc \in Sampled \cup {"scan"} => iteration \in 1..MaxIterations
  /\ pc \in Sending => batch # <<>>

Accepted == Len(received) + Len(infos)
Counted == calls.successful + calls.failed

CallsSound ==
  /\ calls.successful <= Accepted
  /\ Accepted <= Counted + Uncounted
  /\ pc \in Answered /\ answer = "ok" => calls.successful + 1 <= Accepted
  /\ pc \in Answered /\ answer = "unauthorized" => Accepted <= Counted

TypeInv == MonitorTypeOK /\ ScriptAt

\* What is appended to a sequence, and what is taken from its front.
LEMMA AppendType ==
  ASSUME NEW S, NEW s \in Seq(S), NEW e \in S
  PROVE  Append(s, e) \in Seq(S)
OBVIOUS

LEMMA FrontTypes ==
  ASSUME NEW S, NEW s \in Seq(S), s # <<>>
  PROVE  Head(s) \in S /\ Tail(s) \in Seq(S)
OBVIOUS

LEMMA CountTypes ==
  ASSUME calls \in [successful: Nat, failed: Nat], CountSuccess \/ CountFailure
  PROVE  calls' \in [successful: Nat, failed: Nat]
BY DEF CountSuccess, CountFailure

LEMMA InitType == Init => TypeInv /\ CallsSound
<1>. SUFFICES ASSUME Init PROVE TypeInv /\ CallsSound
  OBVIOUS
<1>. USE MonitorAssumption DEF Init
<1>1. MonitorTypeOK
  <2>1. calls \in [successful: Nat, failed: Nat] /\ iteration \in 0..MaxIterations
    OBVIOUS
  <2>2. log \in Seq(Samples) /\ batch \in Seq(Samples) /\ received \in Seq(Samples)
        /\ infos \in Seq(Pids)
    OBVIOUS
  <2>. QED  BY <2>1, <2>2 DEF MonitorTypeOK, Pcs, Answers
<1>2. ScriptAt
  BY DEF ScriptAt, Sampled, Sending
<1>3. CallsSound
  BY DEF CallsSound, Accepted, Counted, Uncounted, Answered
<1>. QED  BY <1>1, <1>2, <1>3 DEF TypeInv

LEMMA TypeStep == TypeInv /\ [Next]_vars => TypeInv'
<1>. SUFFICES ASSUME TypeInv, [Next]_vars PROVE TypeInv'
  OBVIOUS
<1>. USE MonitorAssumption
     DEF TypeInv, MonitorTypeOK, ScriptAt, Pcs, Answers, Sampled, Sending,
         sampling, files, sending, network
<1>1. CASE RequestInitialToken
  BY <1>1 DEF RequestInitialToken, GetToken
<1>2. CASE TestConnectivity
  BY <1>2 DEF TestConnectivity
<1>3. CASE Iterate
  BY <1>3 DEF Iterate
<1>4. ASSUME NEW p \in Pids, TakeProcess(p) PROVE TypeInv'
  BY <1>4 DEF TakeProcess
<1>5. ASSUME NEW p \in Pids, SkipProcess(p) PROVE TypeInv'
  BY <1>5 DEF SkipProcess
<1>6. CASE SendProcessInfo
  BY <1>6 DEF SendProcessInfo, GetToken
<1>7. CASE PostProcessInfo
  <2>1. current \in Pids
    BY <1>7 DEF PostProcessInfo
  <2>2. Append(infos, current) \in Seq(Pids)
    BY <2>1, AppendType
  <2>. QED  BY <1>7, <2>2 DEF PostProcessInfo, Post
<1>8. CASE ProcessInfoAnswered
  BY <1>8 DEF ProcessInfoAnswered, CountSuccess, CountFailure
<1>9. CASE Measure
  <2>1. <<iteration, current>> \in Samples
    BY <1>9 DEF Measure, Samples
  <2>2. Append(log, <<iteration, current>>) \in Seq(Samples)
        /\ Append(batch, <<iteration, current>>) \in Seq(Samples)
    BY <2>1, AppendType
  <2>. QED  BY <1>9, <2>2 DEF Measure
<1>10. CASE StartSending
  BY <1>10 DEF StartSending
<1>11. CASE SendToBackend
  <2>1. Tail(batch) \in Seq(Samples)
    BY <1>11, FrontTypes DEF SendToBackend
  <2>. QED  BY <1>11, <2>1 DEF SendToBackend, Sent
<1>12. CASE PostSample
  <2>1. Head(batch) \in Samples
    BY <1>12, FrontTypes DEF PostSample
  <2>2. Append(received, Head(batch)) \in Seq(Samples)
    BY <2>1, AppendType
  <2>. QED  BY <1>12, <2>2 DEF PostSample, Post
<1>13. CASE SampleAnswered
  <2>1. Tail(batch) \in Seq(Samples)
    BY <1>13, FrontTypes DEF SampleAnswered
  <2>2. calls' \in [successful: Nat, failed: Nat]
    BY <1>13, CountTypes DEF SampleAnswered
  <2>. QED  BY <1>13, <2>1, <2>2 DEF SampleAnswered, Sent
<1>14. CASE RefreshToken
  <2>1. Tail(batch) \in Seq(Samples)
    BY <1>14, FrontTypes DEF RefreshToken
  <2>. QED  BY <1>14, <2>1 DEF RefreshToken, Sent
<1>15. CASE RetryAnswered
  <2>1. Tail(batch) \in Seq(Samples)
    BY <1>15, FrontTypes DEF RetryAnswered
  <2>2. calls' \in [successful: Nat, failed: Nat]
    BY <1>15, CountTypes DEF RetryAnswered
  <2>. QED  BY <1>15, <2>1, <2>2 DEF RetryAnswered, Sent
<1>16. CASE FinishIteration
  BY <1>16 DEF FinishIteration
<1>17. CASE WakeUp
  BY <1>17 DEF WakeUp
<1>18. CASE Exit
  BY <1>18 DEF Exit, SaveSummary
<1>19. CASE Terminate
  BY <1>19 DEF Terminate, SaveSummary
<1>20. CASE Killed
  BY <1>20 DEF Killed
<1>21. CASE TokenExpires
  BY <1>21 DEF TokenExpires
<1>22. CASE UNCHANGED vars
  BY <1>22 DEF vars
<1>. QED
  BY <1>1, <1>2, <1>3, <1>4, <1>5, <1>6, <1>7, <1>8, <1>9, <1>10, <1>11, <1>12, <1>13,
     <1>14, <1>15, <1>16, <1>17, <1>18, <1>19, <1>20, <1>21, <1>22 DEF Next, Script

\* A request that is accepted is the one call whose answer is being evaluated.
LEMMA PostCounts ==
  ASSUME TypeInv, CallsSound,
         UNCHANGED calls, pc \notin Answered, pc' \in Answered,
         \/ Accepted' = Accepted + 1 /\ answer' # "unauthorized"
         \/ Accepted' = Accepted /\ answer' # "ok",
         pc \notin {"trap", "exit", "ended"}
  PROVE  CallsSound'
BY DEF CallsSound, Accepted, Counted, Uncounted, Answered, TypeInv, MonitorTypeOK

\* Steps that leave the calls alone: no answer is evaluated, or it was a refusal.
LEMMA CallsKept ==
  ASSUME TypeInv, CallsSound,
         UNCHANGED <<calls, received, infos>>,
         (pc' = pc /\ UNCHANGED answer) \/ pc' \notin Answered,
         pc' = pc \/ Uncounted' = 1 \/ Uncounted = 0 \/ (pc \in Answered /\ answer = "unauthorized")
  PROVE  CallsSound'
BY DEF CallsSound, Accepted, Counted, Uncounted, Answered, TypeInv, MonitorTypeOK

LEMMA CallsStep == TypeInv /\ CallsSound /\ [Next]_vars => CallsSound'
<1>. SUFFICES ASSUME TypeInv, CallsSound, [Next]_vars PROVE CallsSound'
  OBVIOUS
<1>. USE DEF Answered, sampling, files, sending, network
<1>1. CASE RequestInitialToken
  BY <1>1, CallsKept DEF RequestInitialToken, GetToken, Uncounted
<1>2. CASE TestConnectivity
  BY <1>2, CallsKept DEF TestConnectivity, Uncounted
<1>3. CASE Iterate
  BY <1>3, CallsKept DEF Iterate, Uncounted
<1>4. ASSUME NEW p \in Pids, TakeProcess(p) PROVE CallsSound'
  BY <1>4, CallsKept DEF TakeProcess, Uncounted
<1>5. ASSUME NEW p \in Pids, SkipProcess(p) PROVE CallsSound'
  BY <1>5, CallsKept DEF SkipProcess
<1>6. CASE SendProcessInfo
  BY <1>6, CallsKept DEF SendProcessInfo, GetToken, Uncounted
<1>7. CASE PostProcessInfo
  <2>1. infos' = Append(infos, current) => Accepted' = Accepted + 1
    BY <1>7 DEF PostProcessInfo, Accepted, TypeInv, MonitorTypeOK
  <2>2. UNCHANGED infos => Accepted' = Accepted
    BY <1>7 DEF PostProcessInfo, Accepted
  <2>. QED  BY <1>7, <2>1, <2>2, PostCounts DEF PostProcessInfo, Post
<1>8. CASE ProcessInfoAnswered
  BY <1>8 DEF ProcessInfoAnswered, CountSuccess, CountFailure, CallsSound, Accepted, Counted,
              Uncounted, TypeInv, MonitorTypeOK
<1>9. CASE Measure
  BY <1>9, CallsKept DEF Measure, Uncounted
<1>10. CASE StartSending
  BY <1>10, CallsKept DEF StartSending, Uncounted
<1>11. CASE SendToBackend
  BY <1>11, CallsKept DEF SendToBackend, Sent, Uncounted
<1>12. CASE PostSample
  <2>1. received' = Append(received, Head(batch)) => Accepted' = Accepted + 1
    BY <1>12 DEF PostSample, Accepted, TypeInv, MonitorTypeOK
  <2>2. UNCHANGED received => Accepted' = Accepted
    BY <1>12 DEF PostSample, Accepted
  <2>. QED  BY <1>12, <2>1, <2>2, PostCounts DEF PostSample, Post
<1>13. CASE SampleAnswered
  <2>1. CASE answer = "unauthorized"
    BY <1>13, <2>1, CallsKept DEF SampleAnswered
  <2>2. CASE answer = "ok" /\ CountSuccess /\ Sent
    BY <1>13, <2>2 DEF SampleAnswered, Sent, CountSuccess, CallsSound, Accepted, Counted,
                       Uncounted, TypeInv, MonitorTypeOK
  <2>3. CASE answer = "error" /\ CountFailure /\ Sent
    BY <1>13, <2>3 DEF SampleAnswered, Sent, CountFailure, CallsSound, Accepted, Counted,
                       Uncounted, TypeInv, MonitorTypeOK
  <2>. QED  BY <1>13, <2>1, <2>2, <2>3 DEF SampleAnswered
<1>14. CASE RefreshToken
  BY <1>14, CallsKept DEF RefreshToken, Sent, Uncounted
<1>15. CASE RetryAnswered
  BY <1>15 DEF RetryAnswered, Sent, CountSuccess, CountFailure, CallsSound, Accepted, Counted,
               Uncounted, TypeInv, MonitorTypeOK
<1>16. CASE FinishIteration
  BY <1>16, CallsKept DEF FinishIteration, Uncounted
<1>17. CASE WakeUp
  BY <1>17, CallsKept DEF WakeUp, Uncounted
<1>18. CASE Exit
  BY <1>18, CallsKept DEF Exit, Uncounted
<1>19. CASE Terminate
  BY <1>19, CallsKept DEF Terminate, Uncounted
<1>20. CASE Killed
  BY <1>20, CallsKept DEF Killed, Uncounted
<1>21. CASE TokenExpires
  BY <1>21, CallsKept DEF TokenExpires
<1>22. CASE UNCHANGED vars
  BY <1>22, CallsKept DEF vars
<1>. QED
  BY <1>1, <1>2, <1>3, <1>4, <1>5, <1>6, <1>7, <1>8, <1>9, <1>10, <1>11, <1>12, <1>13,
     <1>14, <1>15, <1>16, <1>17, <1>18, <1>19, <1>20, <1>21, <1>22 DEF Next, Script

\* CallsAccountedFor, for any processes and any number of iterations.
THEOREM CallsAreAccountedFor == Spec => []CallsAccountedFor
<1>1. TypeInv /\ CallsSound /\ [Next]_vars => (TypeInv /\ CallsSound)'
  BY TypeStep, CallsStep
<1>2. TypeInv /\ CallsSound => CallsAccountedFor
  BY DEF TypeInv, CallsSound, CallsAccountedFor, Accepted, Counted
<1>. QED  BY InitType, <1>1, <1>2, PTL DEF Spec

----------------------------------------------------------------------------
(***************************************************************************)
(* The samples and the feed                                                *)
(***************************************************************************)

\* No sample of this iteration is of a process that is still to be sampled.
LogSound ==
  /\ \A i \in 1..Len(log) :
       /\ log[i][1] <= iteration /\ log[i][2] \in seen
       /\ log[i][1] = iteration => log[i][2] \notin todo
       /\ log[i][1] = iteration /\ pc \in Sampled => log[i][2] # current
  /\ \A i \in 1..Len(infos) : infos[i] \in seen

\* A process whose info is about to be sent is new to the backend.
InfoFresh ==
  pc \in {"info", "infoPost"} =>
    /\ \A i \in 1..Len(infos) : infos[i] # current
    /\ \A i \in 1..Len(log) : log[i][2] # current

\* The batch is the end of the log; the samples behind it are done with.
Behind == Len(log) - Len(batch)

BatchIsTail ==
  /\ Len(batch) <= Len(log)
  /\ \A m \in 1..Len(batch) : batch[m] = log[Behind + m]

\* The first sample of the batch may have been received when its request was answered.
InFlight ==
  IF pc \in {"trap", "exit", "ended"} \/ (pc \in {"answer", "reanswer"} /\ answer # "unauthorized")
  THEN 1 ELSE 0

ReceivedUpTo(n) ==
  \A j \in 1..Len(received) : \E k \in 1..Len(log) : k <= n /\ received[j] = log[k]

FeedInv == LogSound /\ InfoFresh /\ BatchIsTail /\ ReceivedUpTo(Behind + InFlight)

LEMMA InitFeed == Init => FeedInv
BY DEF Init, FeedInv, LogSound, InfoFresh, BatchIsTail, ReceivedUpTo, Sampled

\* Steps that touch neither the log nor the batch, and the set of samples received.
LEMMA FeedKept ==
  ASSUME TypeInv, FeedInv, UNCHANGED <<log, batch, received>>, InFlight' \in {InFlight, 1}
  PROVE  BatchIsTail' /\ ReceivedUpTo(Behind + InFlight)'
<1>1. BatchIsTail'
  BY DEF FeedInv, BatchIsTail, Behind
<1>2. Behind \in Nat /\ InFlight \in {0, 1} /\ Behind' = Behind
  BY DEF FeedInv, BatchIsTail, Behind, InFlight, TypeInv, MonitorTypeOK
<1>3. \A k \in Nat : k <= Behind + InFlight => k <= Behind' + InFlight'
  <2>1. CASE InFlight' = InFlight
    BY <1>2, <2>1
  <2>2. CASE InFlight' = 1
    BY <1>2, <2>2
  <2>. QED  BY <2>1, <2>2
<1>4. ReceivedUpTo(Behind + InFlight)'
  BY <1>3 DEF FeedInv, ReceivedUpTo
<1>. QED  BY <1>1, <1>4

\* Steps that sample nothing and introduce nobody.
LEMMA LogKept ==
  ASSUME FeedInv, UNCHANGED <<log, infos, iteration, todo, current, seen>>,
         pc' \in Sampled => pc \in Sampled,
         pc' \in {"info", "infoPost"} => pc \in {"info", "infoPost"}
  PROVE  LogSound' /\ InfoFresh'
BY DEF FeedInv, LogSound, InfoFresh

\* The batch loses its first sample: what was in flight is behind it now.
LEMMA SentKeeps ==
  ASSUME TypeInv, FeedInv, Sent, batch # <<>>, UNCHANGED <<log, received>>
  PROVE  BatchIsTail' /\ ReceivedUpTo(Behind + InFlight)'
<1>1. /\ Len(batch') = Len(batch) - 1 /\ Len(batch) \in Nat /\ Len(log) \in Nat
      /\ Len(batch') \in Nat
      /\ \A m \in 1..Len(batch') : batch'[m] = batch[m + 1]
  BY DEF Sent, TypeInv, MonitorTypeOK
<1>2. Behind' = Behind + 1 /\ Behind \in Nat
  BY <1>1 DEF Behind, FeedInv, BatchIsTail
<1>3. BatchIsTail'
  <2>1. Len(batch') <= Len(log')
    BY <1>1 DEF FeedInv, BatchIsTail
  <2>2. ASSUME NEW m \in 1..Len(batch') PROVE batch'[m] = log'[Behind' + m]
    <3>1. m + 1 \in 1..Len(batch)
      BY <1>1
    <3>2. batch[m + 1] = log[Behind + (m + 1)]
      BY <3>1 DEF FeedInv, BatchIsTail
    <3>3. Behind + (m + 1) = Behind' + m
      BY <1>2
    <3>. QED  BY <1>1, <3>2, <3>3
  <2>. QED  BY <2>1, <2>2 DEF BatchIsTail
<1>4. ReceivedUpTo(Behind + InFlight)'
  <2>1. InFlight \in {0, 1} /\ InFlight' = 0
    BY DEF InFlight, Sent
  <2>2. \A k \in Nat : k <= Behind + InFlight => k <= Behind' + InFlight'
    BY <1>2, <2>1
  <2>. QED  BY <2>2 DEF FeedInv, ReceivedUpTo
<1>. QED  BY <1>3, <1>4

\* The batch is given up: everything in the log is behind it.
LEMMA BatchDropped ==
  ASSUME TypeInv, FeedInv, batch' = <<>>, UNCHANGED <<log, received>>,
         pc \in {"iterate", "scan"}, pc' \in {"scan", "send"}
  PROVE  BatchIsTail' /\ ReceivedUpTo(Behind + InFlight)'
<1>1. Len(batch') = 0 /\ Len(log) \in Nat
  BY DEF TypeInv, MonitorTypeOK
<1>2. BatchIsTail'
  BY <1>1 DEF BatchIsTail
<1>3. Behind' + InFlight' = Len(log)
  BY <1>1 DEF Behind, InFlight
<1>4. ReceivedUpTo(Behind + InFlight)'
  BY <1>1, <1>3 DEF FeedInv, ReceivedUpTo
<1>. QED  BY <1>2, <1>4

\* The first sample of the batch is in the log, after everything received so far.
LEMMA HeadIsNext ==
  ASSUME TypeInv, FeedInv, pc \in {"post", "repost"}
  PROVE  /\ Behind + 1 \in 1..Len(log) /\ Head(batch) = log[Behind + 1]
         /\ \A j \in 1..Len(received) : \E k \in 1..Behind : received[j] = log[k]
<1>1. /\ batch # <<>> /\ batch \in Seq(Samples)
      /\ Len(log) \in Nat /\ Len(batch) \in Nat /\ Len(batch) <= Len(log)
  BY DEF TypeInv, ScriptAt, Sending, MonitorTypeOK, FeedInv, BatchIsTail
<1>2. Len(batch) >= 1 /\ Head(batch) = batch[1]
  BY <1>1
<1>3. Behind \in Nat /\ Behind + 1 \in 1..Len(log)
  BY <1>1, <1>2 DEF Behind
<1>4. batch[1] = log[Behind + 1]
  BY <1>1, <1>2 DEF FeedInv, BatchIsTail
<1>5. Behind + InFlight = Behind
  BY <1>3 DEF InFlight
<1>6. ReceivedUpTo(Behind)
  BY <1>5 DEF FeedInv
<1>. QED  BY <1>2, <1>3, <1>4, <1>6 DEF ReceivedUpTo

\* A process that is measured adds the same sample to the log and to the batch.
LEMMA MeasureKeeps == TypeInv /\ FeedInv /\ Measure => FeedInv'
<1>. SUFFICES ASSUME TypeInv, FeedInv, Measure PROVE FeedInv'
  OBVIOUS
<1>. DEFINE s == <<iteration, current>>
<1>. USE DEF sampling, network
<1>1. CASE UNCHANGED <<log, batch>>
  <2>1. InFlight' \in {InFlight, 1}
    BY DEF Measure, InFlight
  <2>2. LogSound' /\ InfoFresh'
    BY <1>1, LogKept DEF Measure, Sampled
  <2>. QED  BY <1>1, <2>1, <2>2, FeedKept DEF Measure, FeedInv
<1>2. CASE log' = Append(log, s) /\ batch' = Append(batch, s)
  <2>1. log \in Seq(Samples) /\ batch \in Seq(Samples) /\ s \in Samples
        /\ iteration \in Nat /\ current \in seen /\ current \notin todo
    BY DEF Measure, TypeInv, ScriptAt, MonitorTypeOK, Samples, Sampled
  <2>2. /\ Len(log') = Len(log) + 1 /\ Len(batch') = Len(batch) + 1
        /\ Len(log) \in Nat /\ Len(batch) \in Nat /\ Len(batch) <= Len(log)
        /\ \A i \in 1..Len(log) : log'[i] = log[i]
        /\ \A i \in 1..Len(batch) : batch'[i] = batch[i]
        /\ log'[Len(log) + 1] = s /\ batch'[Len(batch) + 1] = s
    BY <1>2, <2>1 DEF FeedInv, BatchIsTail
  <2>3. Behind' = Behind /\ Behind \in Nat /\ Behind + (Len(batch) + 1) = Len(log) + 1
    BY <2>2 DEF Behind
  <2>4. LogSound'
    <3>1. ASSUME NEW i \in 1..Len(log')
          PROVE  /\ log'[i][1] <= iteration /\ log'[i][2] \in seen
                 /\ log'[i][1] = iteration => log'[i][2] \notin todo
      <4>1. CASE i \in 1..Len(log)
        BY <2>2, <4>1 DEF FeedInv, LogSound
      <4>2. CASE i = Len(log) + 1
        BY <2>1, <2>2, <4>2
      <4>. QED  BY <2>2, <4>1, <4>2
    <3>. QED  BY <3>1 DEF Measure, FeedInv, LogSound, Sampled
  <2>5. InfoFresh'
    BY DEF Measure, InfoFresh
  <2>6. BatchIsTail'
    <3>1. ASSUME NEW m \in 1..Len(batch') PROVE batch'[m] = log'[Behind + m]
      <4>1. CASE m \in 1..Len(batch)
        <5>1. batch[m] = log[Behind + m] /\ Behind + m \in 1..Len(log)
          BY <2>2, <4>1 DEF FeedInv, BatchIsTail, Behind
        <5>. QED  BY <2>2, <4>1, <5>1
      <4>2. CASE m = Len(batch) + 1
        BY <2>2, <2>3, <4>2
      <4>. QED  BY <2>2, <4>1, <4>2
    <3>. QED  BY <2>2, <2>3, <3>1 DEF BatchIsTail
  <2>7. ReceivedUpTo(Behind + InFlight)'
    <3>1. InFlight' = InFlight /\ UNCHANGED received
      BY DEF Measure, InFlight
    <3>2. \A k \in 1..Len(log) : k \in 1..Len(log') /\ log'[k] = log[k]
      BY <2>2
    <3>. QED  BY <2>3, <3>1, <3>2 DEF FeedInv, ReceivedUpTo
  <2>. QED  BY <2>4, <2>5, <2>6, <2>7 DEF FeedInv
<1>. QED  BY <1>1, <1>2 DEF Measure

\* The sample received is the first of the batch, which is behind it if its answer
\* is, or may be, good.
LEMMA PostKeeps == TypeInv /\ FeedInv /\ PostSample => FeedInv'
<1>. SUFFICES ASSUME TypeInv, FeedInv, PostSample PROVE FeedInv'
  OBVIOUS
<1>. USE DEF sampling, files
<1>1. LogSound' /\ InfoFresh'
  BY LogKept DEF PostSample, Sampled
<1>2. CASE UNCHANGED received
  <2>1. InFlight' \in {InFlight, 1}
    BY DEF PostSample, InFlight
  <2>. QED  BY <1>1, <1>2, <2>1, FeedKept DEF PostSample, FeedInv
<1>3. CASE received' = Append(received, Head(batch)) /\ answer' # "unauthorized"
  <2>1. /\ Len(received') = Len(received) + 1 /\ Len(received) \in Nat
        /\ \A j \in 1..Len(received) : received'[j] = received[j]
        /\ received'[Len(received) + 1] = Head(batch)
    BY <1>3 DEF TypeInv, MonitorTypeOK
  <2>2. /\ Behind + 1 \in 1..Len(log) /\ Head(batch) = log[Behind + 1]
        /\ \A j \in 1..Len(received) : \E k \in 1..Behind : received[j] = log[k]
    BY HeadIsNext DEF PostSample
  <2>3. UNCHANGED <<log, batch>> /\ InFlight' = 1 /\ Behind \in Nat /\ Len(log) \in Nat
    BY <1>3 DEF PostSample, InFlight, Behind, FeedInv, BatchIsTail, TypeInv, MonitorTypeOK
  <2>4. Behind' = Behind
    BY <2>3 DEF Behind
  <2>5. ASSUME NEW j \in 1..Len(received')
        PROVE  \E k \in 1..Len(log) : k <= Behind + 1 /\ received'[j] = log[k]
    <3>1. CASE j \in 1..Len(received)
      <4>1. PICK k \in 1..Behind : received[j] = log[k]
        BY <2>2, <3>1
      <4>2. k \in 1..Len(log) /\ k <= Behind + 1
        BY <2>2, <2>3
      <4>. QED  BY <2>1, <3>1, <4>1, <4>2
    <3>2. CASE j = Len(received) + 1
      <4>1. received'[j] = log[Behind + 1] /\ Behind + 1 <= Behind + 1
        BY <2>1, <2>2, <2>3, <3>2
      <4>. QED  BY <2>2, <4>1
    <3>. QED  BY <2>1, <3>1, <3>2
  <2>6. ReceivedUpTo(Behind + InFlight)'
    BY <2>3, <2>4, <2>5 DEF ReceivedUpTo
  <2>7. BatchIsTail'
    BY <2>3 DEF FeedInv, BatchIsTail, Behind
  <2>. QED  BY <1>1, <2>6, <2>7 DEF FeedInv
<1>. QED  BY <1>2, <1>3 DEF PostSample, Post

LEMMA FeedStep == TypeInv /\ FeedInv /\ [Next]_vars => FeedInv'
<1>. SUFFICES ASSUME TypeInv, FeedInv, [Next]_vars PROVE FeedInv'
  OBVIOUS
<1>. USE DEF sampling, files, sending, network
<1>1. CASE RequestInitialToken
  BY <1>1, FeedKept, LogKept DEF RequestInitialToken, GetToken, InFlight, Sampled, FeedInv
<1>2. CASE TestConnectivity
  BY <1>2, FeedKept, LogKept DEF TestConnectivity, InFlight, Sampled, FeedInv
<1>3. CASE Iterate
  <2>1. LogSound'
    <3>1. \A i \in 1..Len(log) : log[i] \in Samples
      BY DEF TypeInv, MonitorTypeOK
    <3>2. \A i \in 1..Len(log) : log[i][1] \in Nat /\ log[i][1] <= iteration /\ log[i][2] \in seen
      BY <3>1 DEF Samples, FeedInv, LogSound
    <3>3. \A i \in 1..Len(log) : log[i][1] <= iteration' /\ log[i][1] # iteration'
      BY <1>3, <3>2 DEF Iterate, TypeInv, MonitorTypeOK
    <3>. QED  BY <1>3, <3>2, <3>3 DEF Iterate, FeedInv, LogSound
  <2>2. InfoFresh'
    BY <1>3 DEF Iterate, InfoFresh
  <2>3. BatchIsTail' /\ ReceivedUpTo(Behind + InFlight)'
    BY <1>3, BatchDropped DEF Iterate
  <2>. QED  BY <2>1, <2>2, <2>3 DEF FeedInv
<1>4. ASSUME NEW p \in Pids, TakeProcess(p) PROVE FeedInv'
  <2>1. LogSound'
    BY <1>4 DEF TakeProcess, FeedInv, LogSound, Sampled
  <2>2. InfoFresh'
    BY <1>4 DEF TakeProcess, FeedInv, LogSound, InfoFresh
  <2>3. InFlight' \in {InFlight, 1}
    BY <1>4 DEF TakeProcess, InFlight
  <2>. QED  BY <1>4, <2>1, <2>2, <2>3, FeedKept DEF TakeProcess, FeedInv
<1>5. ASSUME NEW p \in Pids, SkipProcess(p) PROVE FeedInv'
  <2>1. LogSound' /\ InfoFresh'
    BY <1>5 DEF SkipProcess, FeedInv, LogSound, Sampled, InfoFresh
  <2>2. InFlight' \in {InFlight, 1}
    BY <1>5 DEF SkipProcess, InFlight
  <2>. QED  BY <1>5, <2>1, <2>2, FeedKept DEF SkipProcess, FeedInv
<1>6. CASE SendProcessInfo
  BY <1>6, FeedKept, LogKept DEF SendProcessInfo, GetToken, InFlight, Sampled, FeedInv
<1>7. CASE PostProcessInfo
  <2>1. LogSound'
    <3>1. infos' = Append(infos, current) \/ UNCHANGED infos
      BY <1>7 DEF PostProcessInfo, Post
    <3>2. infos \in Seq(Pids) /\ current \in seen
      BY <1>7 DEF PostProcessInfo, TypeInv, MonitorTypeOK, ScriptAt, Sampled
    <3>3. \A i \in 1..Len(infos') : infos'[i] \in seen
      BY <3>1, <3>2 DEF FeedInv, LogSound
    <3>. QED  BY <1>7, <3>3 DEF PostProcessInfo, FeedInv, LogSound, Sampled
  <2>2. InfoFresh'
    BY <1>7 DEF PostProcessInfo, InfoFresh
  <2>3. InFlight' \in {InFlight, 1}
    BY <1>7 DEF PostProcessInfo, InFlight
  <2>. QED  BY <1>7, <2>1, <2>2, <2>3, FeedKept DEF PostProcessInfo, FeedInv
<1>8. CASE ProcessInfoAnswered
  BY <1>8, FeedKept, LogKept DEF ProcessInfoAnswered, InFlight, Sampled, FeedInv
<1>9. CASE Measure
  BY <1>9, MeasureKeeps
<1>10. CASE StartSending
  <2>1. LogSound' /\ InfoFresh'
    BY <1>10, LogKept DEF StartSending, Sampled
  <2>2. CASE available
    <3>1. InFlight' \in {InFlight, 1}
      BY <1>10 DEF StartSending, InFlight
    <3>. QED  BY <1>10, <2>1, <2>2, <3>1, FeedKept DEF StartSending, FeedInv
  <2>3. CASE ~available
    BY <1>10, <2>1, <2>3, BatchDropped DEF StartSending, FeedInv
  <2>. QED  BY <2>2, <2>3
<1>11. CASE SendToBackend
  <2>1. LogSound' /\ InfoFresh'
    BY <1>11, LogKept DEF SendToBackend, Sent, Sampled
  <2>2. CASE UNCHANGED batch
    <3>1. InFlight' \in {InFlight, 1}
      BY <1>11 DEF SendToBackend, Sent, InFlight
    <3>. QED  BY <1>11, <2>1, <2>2, <3>1, FeedKept DEF SendToBackend, FeedInv
  <2>3. CASE Sent
    BY <1>11, <2>1, <2>3, SentKeeps DEF SendToBackend, FeedInv
  <2>. QED  BY <1>11, <2>2, <2>3 DEF SendToBackend
<1>12. CASE PostSample
  BY <1>12, PostKeeps
<1>13. CASE SampleAnswered
  <2>1. LogSound' /\ InfoFresh'
    BY <1>13, LogKept DEF SampleAnswered, Sent, Sampled
  <2>2. CASE answer = "unauthorized" /\ UNCHANGED batch /\ pc' = "refresh"
    <3>1. InFlight' \in {InFlight, 1}
      BY <1>13, <2>2 DEF SampleAnswered, InFlight
    <3>. QED  BY <1>13, <2>1, <2>2, <3>1, FeedKept DEF SampleAnswered, FeedInv
  <2>3. CASE Sent
    <3>1. batch # <<>>
      BY <1>13 DEF SampleAnswered, TypeInv, ScriptAt, Sending
    <3>. QED  BY <1>13, <2>1, <2>3, <3>1, SentKeeps DEF SampleAnswered, FeedInv
  <2>. QED  BY <1>13, <2>2, <2>3 DEF SampleAnswered
<1>14. CASE RefreshToken
  <2>1. LogSound' /\ InfoFresh'
    BY <1>14, LogKept DEF RefreshToken, Sent, Sampled
  <2>2. CASE UNCHANGED batch /\ pc' = "repost"
    <3>1. InFlight' \in {InFlight, 1}
      BY <1>14, <2>2 DEF RefreshToken, InFlight
    <3>. QED  BY <1>14, <2>1, <2>2, <3>1, FeedKept DEF RefreshToken, FeedInv
  <2>3. CASE Sent
    <3>1. batch # <<>>
      BY <1>14 DEF RefreshToken, TypeInv, ScriptAt, Sending
    <3>. QED  BY <1>14, <2>1, <2>3, <3>1, SentKeeps DEF RefreshToken, FeedInv
  <2>. QED  BY <1>14, <2>2, <2>3 DEF RefreshToken
<1>15. CASE RetryAnswered
  <2>1. LogSound' /\ InfoFresh'
    BY <1>15, LogKept DEF RetryAnswered, Sent, Sampled
  <2>2. batch # <<>>
    BY <1>15 DEF RetryAnswered, TypeInv, ScriptAt, Sending
  <2>. QED  BY <1>15, <2>1, <2>2, SentKeeps DEF RetryAnswered, FeedInv
<1>16. CASE FinishIteration
  BY <1>16, FeedKept, LogKept DEF FinishIteration, InFlight, Sampled, FeedInv
<1>17. CASE WakeUp
  BY <1>17, FeedKept, LogKept DEF WakeUp, InFlight, Sampled, FeedInv
<1>18. CASE Exit
  BY <1>18, FeedKept, LogKept DEF Exit, InFlight, Sampled, FeedInv
<1>19. CASE Terminate
  BY <1>19, FeedKept, LogKept DEF Terminate, InFlight, Sampled, FeedInv
<1>20. CASE Killed
  BY <1>20, FeedKept, LogKept DEF Killed, InFlight, Sampled, FeedInv
<1>21. CASE TokenExpires
  BY <1>21, FeedKept, LogKept DEF TokenExpires, InFlight, Sampled, FeedInv
<1>22. CASE UNCHANGED vars
  BY <1>22, FeedKept, LogKept DEF vars, InFlight, FeedInv
<1>. QED
  BY <1>1, <1>2, <1>3, <1>4, <1>5, <1>6, <1>7, <1>8, <1>9, <1>10, <1>11, <1>12, <1>13,
     <1>14, <1>15, <1>16, <1>17, <1>18, <1>19, <1>20, <1>21, <1>22 DEF Next, Script

\* Measuring writes a new sample, an accepted request receives the next one, and
\* no other step touches the log or what was received.
LEMMA FeedRefined ==
  TypeInv /\ FeedInv /\ [Next]_vars => [Feed!FeedNext]_(Feed!feedVars)
<1>. SUFFICES ASSUME TypeInv, FeedInv, [Next]_vars PROVE [Feed!FeedNext]_(Feed!feedVars)
  OBVIOUS
<1>. DEFINE s == <<iteration, current>>
<1>1. ASSUME Measure, log' = Append(log, s) PROVE Feed!FeedNext
  <2>1. s \in Samples
    BY <1>1 DEF Measure, TypeInv, ScriptAt, MonitorTypeOK, Samples, Sampled
  <2>2. DOMAIN log = 1..Len(log)
    BY DEF TypeInv, MonitorTypeOK
  <2>3. ASSUME NEW i \in DOMAIN log PROVE log[i] # s
    <3>1. log[i][1] = iteration => log[i][2] # current
      BY <1>1, <2>2 DEF Measure, FeedInv, LogSound, Sampled
    <3>. QED  BY <3>1
  <2>4. Feed!Write(s)
    BY <1>1, <2>3 DEF Feed!Write, Measure, network
  <2>. QED  BY <2>1, <2>4 DEF Feed!FeedNext
<1>2. ASSUME PostSample, received' = Append(received, Head(batch)) PROVE Feed!FeedNext
  <2>1. /\ Behind + 1 \in 1..Len(log) /\ Head(batch) = log[Behind + 1]
        /\ \A j \in 1..Len(received) : \E k \in 1..Behind : received[j] = log[k]
    BY <1>2, HeadIsNext DEF PostSample
  <2>2. DOMAIN log = 1..Len(log) /\ DOMAIN received = 1..Len(received) /\ Behind = (Behind + 1) - 1
    BY DEF TypeInv, FeedInv, BatchIsTail, Behind, MonitorTypeOK
  <2>3. Feed!Receive(Behind + 1)
    BY <1>2, <2>1, <2>2 DEF Feed!Receive, PostSample, files
  <2>. QED  BY <2>1, <2>2, <2>3 DEF Feed!FeedNext
<1>3. CASE UNCHANGED <<log, received>>
  BY <1>3 DEF Feed!feedVars
<1>4. \/ Measure /\ log' = Append(log, s)
      \/ PostSample /\ received' = Append(received, Head(batch))
      \/ UNCHANGED <<log, received>>
  <2>1. CASE Measure
    BY <2>1 DEF Measure, network
  <2>2. CASE PostSample
    BY <2>2 DEF PostSample, Post, files
  <2>3. CASE \E p \in Pids : TakeProcess(p) \/ SkipProcess(p)
    BY <2>3 DEF TakeProcess, SkipProcess, files, network
  <2>4. CASE SendToBackend \/ SampleAnswered \/ RefreshToken \/ RetryAnswered
    BY <2>4 DEF SendToBackend, SampleAnswered, RefreshToken, RetryAnswered, files, network
  <2>5. CASE SendProcessInfo \/ PostProcessInfo \/ ProcessInfoAnswered \/ StartSending
    BY <2>5 DEF SendProcessInfo, PostProcessInfo, ProcessInfoAnswered, StartSending, files, network
  <2>6. CASE RequestInitialToken \/ TestConnectivity \/ Iterate \/ FinishIteration \/ WakeUp
    BY <2>6 DEF RequestInitialToken, TestConnectivity, Iterate, FinishIteration, WakeUp, files, network
  <2>7. CASE Exit \/ Terminate \/ Killed \/ TokenExpires \/ UNCHANGED vars
    BY <2>7 DEF Exit, Terminate, Killed, TokenExpires, vars, files, network
  <2>. QED
    BY <2>1, <2>2, <2>3, <2>4, <2>5, <2>6, <2>7 DEF Next, Script
<1>. QED  BY <1>1, <1>2, <1>3, <1>4

LEMMA MonitorInvariant == Spec => [](TypeInv /\ FeedInv)
<1>1. TypeInv /\ FeedInv /\ [Next]_vars => (TypeInv /\ FeedInv)'
  BY TypeStep, FeedStep
<1>. QED  BY InitType, InitFeed, <1>1, PTL DEF Spec

\* ImplementsFeed, for any processes and any number of iterations: the backend
\* receives samples of the log, in its order and none twice.
THEOREM MonitorImplementsFeed == Spec => ImplementsFeed
<1>1. Init => Feed!FeedInit
  BY DEF Init, Feed!FeedInit
<1>. QED  BY MonitorInvariant, <1>1, FeedRefined, PTL DEF Spec, ImplementsFeed, Feed!FeedSpec

\* InfoPrecedesSamples: the backend accepts info of a process once, and before any
\* of its samples, since a process is seen before it is introduced or sampled.
THEOREM ProcessesAreIntroduced == Spec => InfoPrecedesSamples
<1>. DEFINE introduced == /\ \A i \in DOMAIN infos : infos[i] # current
                          /\ \A i \in DOMAIN received : received[i][2] # current
<1>1. ASSUME TypeInv, FeedInv, [Next]_vars, infos' # infos PROVE introduced
  <2>1. PostProcessInfo
    <3>1. ~(\E p \in Pids : TakeProcess(p) \/ SkipProcess(p))
      BY <1>1 DEF TakeProcess, SkipProcess, network
    <3>2. ~(Measure \/ PostSample \/ SendToBackend \/ SampleAnswered \/ RefreshToken \/ RetryAnswered)
      BY <1>1 DEF Measure, PostSample, SendToBackend, SampleAnswered, RefreshToken, RetryAnswered, network
    <3>3. ~(RequestInitialToken \/ TestConnectivity \/ Iterate \/ FinishIteration \/ WakeUp)
      BY <1>1 DEF RequestInitialToken, TestConnectivity, Iterate, FinishIteration, WakeUp, network
    <3>4. ~(SendProcessInfo \/ ProcessInfoAnswered \/ StartSending)
      BY <1>1 DEF SendProcessInfo, ProcessInfoAnswered, StartSending, network
    <3>5. ~(Exit \/ Terminate \/ Killed \/ TokenExpires \/ UNCHANGED vars)
      BY <1>1 DEF Exit, Terminate, Killed, TokenExpires, vars, network
    <3>. QED  BY <1>1, <3>1, <3>2, <3>3, <3>4, <3>5 DEF Next, Script
  <2>2. /\ \A i \in 1..Len(infos) : infos[i] # current
        /\ \A i \in 1..Len(log) : log[i][2] # current
    BY <1>1, <2>1 DEF PostProcessInfo, FeedInv, InfoFresh
  <2>3. DOMAIN received = 1..Len(received) /\ DOMAIN infos = 1..Len(infos)
    BY <1>1 DEF TypeInv, MonitorTypeOK
  <2>. QED  BY <1>1, <2>2, <2>3 DEF FeedInv, ReceivedUpTo
<1>2. TypeInv /\ FeedInv /\ [Next]_vars => [infos' # infos => introduced]_vars
  BY <1>1
<1>. QED  BY MonitorInvariant, <1>2, PTL DEF Spec, InfoPrecedesSamples
=============================================================================
