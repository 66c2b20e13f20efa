--------------------------- MODULE CleanupProofs ---------------------------
(***************************************************************************)
(* Proofs about the end of a job, for any number of samples and every      *)
(* circumstance.                                                           *)
(*                                                                         *)
(* The argument.  A cleanup holds the lock of its directory from the test  *)
(* to the release, so that only a cleanup that has lost its monitor leaves *)
(* it behind.  After the post step has signalled a monitor of its own      *)
(* directory, no line is added to the log any more, and the cleanup of a   *)
(* trap removes none: the log is the same each time it is read.            *)
(***************************************************************************)
EXTENDS Cleanup, TLAPS

----------------------------------------------------------------------------
(***************************************************************************)
(* What the action left behind at its start                                *)
(***************************************************************************)

\* Each cleanup has the variables of the action, or none of them.
Inherits(c) ==
  \/ env[c] = NotExported
  \/ /\ env[c].logFile = plan.log
     /\ env[c].enableBackend = plan.remote
     /\ env[c].defaultLog <=> plan.log.file # "named"

StartInv ==
  /\ plan \in [remote: BOOLEAN, export: BOOLEAN, predictive: BOOLEAN, log: Paths]
  /\ env \in [Cleanups -> [enableBackend: BOOLEAN, logFile: Paths, defaultLog: BOOLEAN]]
  /\ \A c \in Cleanups : Inherits(c)
  /\ plan.log.dir # "none"
  /\ older => plan.log = Path("temp", "withRunId")

\* Where a cleanup may be, and where it works with the lock.
Pcs == {"idle", "lock", "kill", "auth", "finish", "direct", "parse",
        "report", "upload", "summary", "leftovers", "release", "done"}
Resting == {"idle", "lock", "done"}

\* Only the post step uploads.
TypeInv == CleanupTypeOK /\ StartInv /\ log <= written + 1 /\ pc["trap"] # "upload"

\* A path is not touched by the search, and its name never is.
LEMMA LogFound ==
  ASSUME TypeInv, NEW c \in Cleanups
  PROVE  /\ env[c] # NotExported => LogOf(c) = plan.log
         /\ plan.log = Path("temp", "default") => LogOf(c) = plan.log
         /\ LogOf(c).file = env[c].logFile.file
<1>. USE DEF TypeInv, StartInv, Inherits, LogOf, CleanupLogFile, Path
<1>1. env[c] # NotExported => LogOf(c) = plan.log
  OBVIOUS
<1>2. ASSUME plan.log = Path("temp", "default"), env[c] = NotExported PROVE LogOf(c) = plan.log
  <2>. DEFINE found == {k \in 1..3 : Path(CandidateDirs[k], "default") \in Existing}
              first == IF found = {} THEN 1 ELSE CHOOSE k \in found : \A j \in found : k <= j
  <2>1. found \subseteq {1}
    BY <1>2 DEF Existing, CandidateDirs
  <2>2. first = 1
    <3>1. CASE found = {1}
      BY <3>1
    <3>. QED  BY <2>1, <3>1
  <2>3. env[c].logFile.dir = "none" /\ env[c].logFile.file = "default"
    BY <1>2 DEF NotExported
  <2>4. LogOf(c) = Path(CandidateDirs[first], "default")
    BY <2>3
  <2>5. CandidateDirs[1] = "temp"
    BY DEF CandidateDirs
  <2>. HIDE DEF first, LogOf, CleanupLogFile
  <2>. QED  BY <1>2, <2>2, <2>4, <2>5
<1>3. LogOf(c).file = env[c].logFile.file
  OBVIOUS
<1>. QED  BY <1>1, <1>2, <1>3

LEMMA LinesType == TypeInv => \A c \in Cleanups : Lines(c) \in Counts
BY CleanupAssumption DEF TypeInv, CleanupTypeOK, Lines, Counts

LEMMA InitType == Init => TypeInv
<1>. SUFFICES ASSUME Init PROVE TypeInv
  OBVIOUS
<1>1. StartInv
  <2>1. PICK i \in Inputs : Start(i)
    BY DEF Init
  <2>2. /\ FeatureFlags(i).enableBackend \in BOOLEAN /\ FeatureFlags(i).backendUrl \in BOOLEAN
        /\ FeatureFlags(i).export \in BOOLEAN /\ FeatureFlags(i).predictive \in BOOLEAN
        /\ FeatureFlags(i).enableBackend => FeatureFlags(i).backendUrl
    BY DEF FeatureFlags, Inputs
  <2>3. LogFile(i, older) \in Paths /\ LogFile(i, older).dir # "none"
    BY <2>1 DEF LogFile, Inputs, Paths, Path, Start
  <2>4. i.logFile = "default" <=> LogFile(i, older).file # "named"
    BY <2>1 DEF LogFile, Inputs, Path, Start
  <2>5. plan = [remote |-> FeatureFlags(i).enableBackend, export |-> FeatureFlags(i).export,
                predictive |-> FeatureFlags(i).predictive, log |-> LogFile(i, older)]
    BY <2>1, <2>2 DEF Start, LaunchPlan
  <2>6. older => plan.log = Path("temp", "withRunId")
    BY <2>1, <2>5 DEF Start, LogFile
  <2>7. \A c \in Cleanups : env[c] \in {Exported(i, older), NotExported}
    BY <2>1 DEF Start, Cleanups
  <2>8. /\ NotExported \in [enableBackend: BOOLEAN, logFile: Paths, defaultLog: BOOLEAN]
        /\ Exported(i, older) \in [enableBackend: BOOLEAN, logFile: Paths, defaultLog: BOOLEAN]
    BY <2>2, <2>3 DEF NotExported, Exported, Paths, Path
  <2>9. env \in [Cleanups -> [enableBackend: BOOLEAN, logFile: Paths, defaultLog: BOOLEAN]]
    BY <2>1, <2>8 DEF Start, Cleanups
  <2>10. \A c \in Cleanups : Inherits(c)
    <3>. SUFFICES ASSUME NEW c \in Cleanups, env[c] # NotExported PROVE Inherits(c)
      BY DEF Inherits
    <3>1. env[c] = Exported(i, older)
      BY <2>7
    <3>2. /\ env[c].logFile = LogFile(i, older)
          /\ env[c].enableBackend = FeatureFlags(i).enableBackend
          /\ env[c].defaultLog = (i.logFile = "default")
      BY <3>1 DEF Exported
    <3>3. plan.log = LogFile(i, older) /\ plan.remote = FeatureFlags(i).enableBackend
      BY <2>5
    <3>. QED  BY <2>4, <3>2, <3>3 DEF Inherits
  <2>. QED  BY <2>2, <2>3, <2>5, <2>6, <2>9, <2>10 DEF StartInv
<1>2. CleanupTypeOK
  <2>1. 0 \in Counts /\ 1 \in Counts /\ 0 \in 0..MaxSamples
    BY CleanupAssumption DEF Counts
  <2>2. older \in BOOLEAN /\ urlFile \in BOOLEAN
    BY DEF Init, Start
  <2>. QED  BY <1>1, <2>1, <2>2 DEF Init, StartInv, CleanupTypeOK, InTrap
<1>. QED  BY <1>1, <1>2 DEF TypeInv, Init, Cleanups

\* The program counters after a step of one cleanup.
LEMMA GotoType ==
  ASSUME pc \in [Cleanups -> Pcs], NEW c \in Cleanups, NEW l \in Pcs, Goto(c, l)
  PROVE  /\ pc' \in [Cleanups -> Pcs]
         /\ pc'[c] = l
         /\ \A d \in Cleanups : d # c => pc'[d] = pc[d]
BY DEF Goto

\* Nothing changes what the action left behind, but for an older log.
LEMMA StartKept ==
  ASSUME StartInv, UNCHANGED <<plan, env>>, older' => older
  PROVE  StartInv'
BY DEF StartInv, Inherits

\* Steps of the monitor and the runner.
LEMMA ScriptType ==
  ASSUME TypeInv, WriteSample \/ HandleSignal \/ TrapReturns \/ Terminate \/ KillOrphans \/ StartPost
  PROVE  TypeInv'
<1>. USE DEF TypeInv, CleanupTypeOK, start, script, files
<1>0. pc \in [Cleanups -> Pcs] /\ Cleanups = {"post", "trap"}
  BY DEF Pcs, Cleanups
<1>1. CASE WriteSample
  <2>1. log' \in Counts /\ written' \in 0..MaxSamples /\ log' <= written' + 1
    BY <1>1, CleanupAssumption DEF WriteSample, Counts
  <2>. QED  BY <1>1, <2>1, StartKept DEF WriteSample
<1>2. CASE HandleSignal
  <2>1. pc' \in [Cleanups -> Pcs] /\ pc'["trap"] = "lock"
    BY <1>0, <1>2, GotoType DEF HandleSignal, RunTrap, Pcs
  <2>. QED  BY <1>2, <2>1, StartKept DEF HandleSignal, RunTrap, Pcs, InTrap
<1>3. CASE TrapReturns
  <2>1. pc' \in [Cleanups -> Pcs] /\ pc'["trap"] \in {"lock", "done"}
    BY <1>0, <1>3, GotoType DEF TrapReturns, RunTrap, Pcs
  <2>. QED  BY <1>3, <2>1, StartKept DEF TrapReturns, RunTrap, Pcs, InTrap
<1>4. CASE Terminate
  BY <1>4, StartKept DEF Terminate
<1>5. CASE KillOrphans
  <2>1. pc' \in [Cleanups -> Pcs] /\ pc'["trap"] = "done"
    BY <1>0, <1>5, GotoType DEF KillOrphans, Pcs
  <2>. QED  BY <1>5, <2>1, StartKept DEF KillOrphans, Pcs
<1>6. CASE StartPost
  <2>1. pc' \in [Cleanups -> Pcs] /\ pc'["trap"] = pc["trap"]
    BY <1>0, <1>6, GotoType DEF StartPost, Pcs
  <2>. QED  BY <1>6, <2>1, StartKept DEF StartPost, Pcs
<1>. QED  BY <1>1, <1>2, <1>3, <1>4, <1>5, <1>6

\* A step of a cleanup moves its own program counter, whatever else it does.
LEMMA StepMoves ==
  ASSUME TypeInv, NEW c \in Cleanups, CleanupStep(c)
  PROVE  /\ pc' \in [Cleanups -> Pcs]
         /\ \A d \in Cleanups : d # c => pc'[d] = pc[d]
         /\ c = "trap" => pc'[c] # "upload"
         /\ UNCHANGED <<start, monitor, written>>
         /\ older' => older
<1>. USE DEF start, script, files
<1>1. pc \in [Cleanups -> Pcs]
  BY DEF TypeInv, CleanupTypeOK, Pcs
<1>2. \E l \in Pcs : Goto(c, l) /\ (c = "trap" => l # "upload")
  BY DEF CleanupStep, AcquireLock, KillMonitor, RequestToken, FinishViaBackend, FinishDirectly,
         ParseLog, WriteReports, UploadArtifact, WriteSummary, RemoveLeftovers, ReleaseLock,
         MarkProcessAsFinished, Throw, Pcs
<1>3. UNCHANGED <<start, monitor, written>> /\ (older' => older)
  <2>1. UNCHANGED <<job, plan, env, monitor, written>>
    BY DEF CleanupStep, AcquireLock, KillMonitor, RequestToken, FinishViaBackend, FinishDirectly,
           ParseLog, WriteReports, UploadArtifact, WriteSummary, RemoveLeftovers, ReleaseLock
  <2>2. older' => older
    BY DEF CleanupStep, AcquireLock, KillMonitor, RequestToken, FinishViaBackend, FinishDirectly,
           ParseLog, WriteReports, UploadArtifact, WriteSummary, RemoveLeftovers, ReleaseLock,
           RemoveDefaultLog
  <2>. QED  BY <2>1, <2>2
<1>. QED  BY <1>1, <1>2, <1>3, GotoType

LEMMA StepType ==
  ASSUME TypeInv, NEW c \in Cleanups, CleanupStep(c)
  PROVE  TypeInv'
<1>. USE DEF start, script, files
<1>1. pc' \in [Cleanups -> Pcs] /\ UNCHANGED <<start, monitor, written>> /\ StartInv'
  BY StepMoves, StartKept DEF TypeInv
<1>2. pending' \in BOOLEAN /\ locks' \subseteq {"action", "workspace"}
  BY DEF CleanupStep, AcquireLock, KillMonitor, RequestToken, FinishViaBackend, FinishDirectly,
         ParseLog, WriteReports, UploadArtifact, WriteSummary, RemoveLeftovers, ReleaseLock,
         TypeInv, CleanupTypeOK, Dir
<1>3. log' \in {0, log} /\ older' \in BOOLEAN /\ urlFile' \in BOOLEAN
  BY DEF CleanupStep, AcquireLock, KillMonitor, RequestToken, FinishViaBackend, FinishDirectly,
         ParseLog, WriteReports, UploadArtifact, WriteSummary, RemoveLeftovers, ReleaseLock,
         TypeInv, CleanupTypeOK, RemoveDefaultLog
<1>4. reports' \in [Cleanups -> [charts: Counts, tables: Counts]]
  <2>1. Lines(c) \in Counts
    BY LinesType
  <2>2. \/ UNCHANGED reports
        \/ reports' = [reports EXCEPT ![c].charts = Lines(c)]
        \/ reports' = [reports EXCEPT ![c].tables = Lines(c)]
    BY DEF CleanupStep, AcquireLock, KillMonitor, RequestToken, FinishViaBackend, FinishDirectly,
           ParseLog, WriteReports, UploadArtifact, WriteSummary, RemoveLeftovers, ReleaseLock
  <2>3. reports \in [Cleanups -> [charts: Counts, tables: Counts]]
    BY DEF TypeInv, CleanupTypeOK
  <2>4. CASE reports' = [reports EXCEPT ![c].charts = Lines(c)]
    BY <2>1, <2>3, <2>4
  <2>5. CASE reports' = [reports EXCEPT ![c].tables = Lines(c)]
    BY <2>1, <2>3, <2>5
  <2>. QED  BY <2>2, <2>3, <2>4, <2>5
<1>5. uploaded' \in [log: Counts, charts: Counts, tables: Counts]
  <2>1. Lines(c) \in Counts
    BY LinesType
  <2>2. \/ UNCHANGED uploaded
        \/ uploaded' = [log |-> Lines(c), charts |-> reports[c].charts, tables |-> reports[c].tables]
    BY DEF CleanupStep, AcquireLock, KillMonitor, RequestToken, FinishViaBackend, FinishDirectly,
           ParseLog, WriteReports, UploadArtifact, WriteSummary, RemoveLeftovers, ReleaseLock
  <2>. QED  BY <2>1, <2>2 DEF TypeInv, CleanupTypeOK
<1>6. run' \in [finished: BOOLEAN, expires: BOOLEAN]
  <2>1. \/ UNCHANGED run
        \/ run' = [run EXCEPT !.finished = TRUE]
        \/ run' = [finished |-> TRUE, expires |-> TRUE]
    BY DEF CleanupStep, AcquireLock, KillMonitor, RequestToken, FinishViaBackend, FinishDirectly,
           ParseLog, WriteReports, UploadArtifact, WriteSummary, RemoveLeftovers, ReleaseLock
  <2>2. run \in [finished: BOOLEAN, expires: BOOLEAN]
    BY DEF TypeInv, CleanupTypeOK
  <2>3. CASE run' = [run EXCEPT !.finished = TRUE]
    BY <2>2, <2>3
  <2>4. CASE UNCHANGED run
    BY <2>2, <2>4
  <2>5. CASE run' = [finished |-> TRUE, expires |-> TRUE]
    BY <2>5
  <2>. QED  BY <2>1, <2>3, <2>4, <2>5
<1>7. log' \in Counts /\ log' <= written' + 1
  BY <1>1, <1>3, CleanupAssumption DEF TypeInv, CleanupTypeOK, Counts
<1>8. pc'["trap"] # "upload"
  BY StepMoves DEF TypeInv, Cleanups
<1>. QED  BY <1>1, <1>2, <1>3, <1>4, <1>5, <1>6, <1>7, <1>8 DEF TypeInv, CleanupTypeOK, StartInv, Pcs

LEMMA TypeStep == TypeInv /\ [Next]_vars => TypeInv'
<1>. SUFFICES ASSUME TypeInv, [Next]_vars PROVE TypeInv'
  OBVIOUS
<1>1. CASE UNCHANGED vars
  BY <1>1, StartKept DEF vars, TypeInv, CleanupTypeOK, start, script, files
<1>. QED  BY <1>1, ScriptType, StepType DEF Next

----------------------------------------------------------------------------
(***************************************************************************)
(* The lock                                                                *)
(***************************************************************************)
LockInv ==
  /\ \A c \in Cleanups : pc[c] \notin Resting => Dir(c) \in locks
  /\ Shared => \E c \in Cleanups : pc[c] \in Resting

\* A cleanup gets to work only with the lock, and lets go of it only at its end.
LEMMA LockStep == TypeInv /\ LockInv /\ [Next]_vars => LockInv'
<1>. SUFFICES ASSUME TypeInv, LockInv, [Next]_vars PROVE LockInv'
  OBVIOUS
<1>. USE DEF LockInv, Resting, start, script, files, Shared, Dir
<1>0. pc \in [Cleanups -> Pcs] /\ Cleanups = {"post", "trap"}
  BY DEF TypeInv, CleanupTypeOK, Pcs, Cleanups
<1>1. ASSUME UNCHANGED <<job, locks>>,
             \A c \in Cleanups : pc'[c] \in Resting \/ (pc[c] \notin Resting /\ pc'[c] \notin Resting)
      PROVE  LockInv'
  BY <1>1
<1>2. CASE WriteSample \/ HandleSignal \/ TrapReturns \/ Terminate \/ KillOrphans \/ StartPost
           \/ UNCHANGED vars
  <2>1. UNCHANGED <<job, locks>>
    BY <1>2 DEF WriteSample, HandleSignal, TrapReturns, Terminate, KillOrphans, StartPost, vars
  <2>2. UNCHANGED pc \/ \E c \in Cleanups, l \in Resting : Goto(c, l)
    BY <1>0, <1>2 DEF WriteSample, HandleSignal, TrapReturns, RunTrap, Terminate, KillOrphans, StartPost, vars
  <2>. QED  BY <1>0, <1>1, <2>1, <2>2 DEF Goto
<1>3. ASSUME NEW c \in Cleanups, AcquireLock(c) PROVE LockInv'
  BY <1>0, <1>3 DEF AcquireLock, Goto
<1>4. ASSUME NEW c \in Cleanups, ReleaseLock(c) PROVE LockInv'
  BY <1>0, <1>4 DEF ReleaseLock, Goto
<1>5. ASSUME NEW c \in Cleanups, CleanupStep(c), ~AcquireLock(c), ~ReleaseLock(c) PROVE LockInv'
  <2>1. UNCHANGED <<job, locks>> /\ pc[c] \notin Resting
    BY <1>5 DEF CleanupStep, KillMonitor, RequestToken, FinishViaBackend, FinishDirectly,
                ParseLog, WriteReports, UploadArtifact, WriteSummary, RemoveLeftovers
  <2>2. \A d \in Cleanups : d # c => pc'[d] = pc[d]
    BY <1>5, StepMoves
  <2>. QED  BY <1>1, <2>1, <2>2
<1>. QED  BY <1>2, <1>3, <1>4, <1>5 DEF Next

\* CleanupsExclude, for any number of samples: two cleanups of the same directory
\* never work at the same time, however the signals come.
THEOREM LockExcludes == Spec => []CleanupsExclude
<1>1. Init => TypeInv /\ LockInv
  BY InitType DEF Init, LockInv, Resting, Cleanups
<1>2. TypeInv /\ LockInv /\ [Next]_vars => (TypeInv /\ LockInv)'
  BY TypeStep, LockStep
<1>3. TypeInv /\ LockInv => CleanupsExclude
  BY DEF TypeInv, LockInv, CleanupsExclude, Resting
<1>. QED  BY <1>1, <1>2, <1>3, PTL DEF Spec

----------------------------------------------------------------------------
(***************************************************************************)
(* The artifact                                                            *)
(***************************************************************************)
\* The monitor of a shared directory is stopped before the log is read.
StopInv ==
  Shared =>
    /\ pc["post"] \notin {"idle", "lock", "kill", "done"} => pending \/ monitor # "loop"
    /\ pc["post"] \in {"report", "upload"} => reports["post"].charts = Lines("post")
    /\ pc["post"] = "upload" => reports["post"].tables = Lines("post")
    /\ uploaded.charts = uploaded.log /\ uploaded.tables = uploaded.log

\* Lines of the log, while nobody adds or removes any.
LEMMA LinesKept ==
  ASSUME UNCHANGED <<plan, env, older, log>>, NEW c \in Cleanups
  PROVE  Lines(c)' = Lines(c)
BY DEF Lines, LogOf, Existing

LEMMA StopStep == TypeInv /\ StopInv /\ [Next]_vars => StopInv'
<1>. SUFFICES ASSUME TypeInv, StopInv, [Next]_vars, Shared' PROVE StopInv'
  BY DEF StopInv
<1>. USE DEF start, script, files
<1>0. /\ pc \in [Cleanups -> Pcs] /\ Cleanups = {"post", "trap"}
      /\ reports \in [Cleanups -> [charts: Counts, tables: Counts]]
  BY DEF TypeInv, CleanupTypeOK, Pcs, Cleanups
<1>1. UNCHANGED job /\ Shared
  <2>1. ASSUME NEW c \in Cleanups, CleanupStep(c) PROVE UNCHANGED job
    BY <2>1, StepMoves
  <2>2. UNCHANGED job
    BY <2>1 DEF Next, WriteSample, HandleSignal, TrapReturns, Terminate, KillOrphans, StartPost, vars
  <2>. QED  BY <2>2 DEF Shared
<1>. DEFINE stopped == pending \/ monitor # "loop"
\* Steps that leave the post step where it is, or take it where nothing is read.
<1>2. ASSUME UNCHANGED <<plan, env, older, log, reports, uploaded>>,
             stopped => stopped',
             pc'["post"] \in {pc["post"], "idle", "lock", "kill", "done"}
      PROVE  StopInv'
  <2>1. Lines("post")' = Lines("post")
    BY <1>0, <1>2, LinesKept
  <2>. QED  BY <1>1, <1>2, <2>1 DEF StopInv
\* Steps after the monitor was stopped.
<1>3. ASSUME stopped', UNCHANGED uploaded,
             pc'["post"] \in {"auth", "finish", "direct", "parse", "summary", "leftovers", "release"}
      PROVE  StopInv'
  BY <1>1, <1>3 DEF StopInv
<1>4. CASE WriteSample
  <2>1. ~stopped
    BY <1>4 DEF WriteSample
  <2>. QED  BY <1>1, <1>4, <2>1 DEF WriteSample, StopInv
<1>5. CASE HandleSignal \/ TrapReturns \/ Terminate
  <2>1. pc'["post"] = pc["post"]
    BY <1>0, <1>5 DEF HandleSignal, TrapReturns, RunTrap, Terminate, Goto
  <2>2. stopped'
    BY <1>5 DEF HandleSignal, TrapReturns, RunTrap, Terminate, InTrap
  <2>. QED  BY <1>2, <1>5, <2>1, <2>2 DEF HandleSignal, TrapReturns, Terminate
<1>6. CASE KillOrphans
  BY <1>0, <1>2, <1>6 DEF KillOrphans, Goto
<1>7. CASE StartPost
  BY <1>0, <1>2, <1>7 DEF StartPost, Goto
<1>8. CASE UNCHANGED vars
  BY <1>2, <1>8 DEF vars
<1>9. ASSUME CleanupStep("trap") PROVE StopInv'
  <2>1. pc'["post"] = pc["post"] /\ UNCHANGED <<plan, env, monitor>>
    BY <1>0, <1>9, StepMoves
  <2>2. UNCHANGED <<older, log>>
    BY <1>9 DEF CleanupStep, AcquireLock, KillMonitor, RequestToken,
       FinishViaBackend, FinishDirectly, ParseLog, WriteReports, UploadArtifact, WriteSummary,
       RemoveLeftovers, ReleaseLock
  <2>3. pending => pending'
    BY <1>9 DEF CleanupStep, AcquireLock, KillMonitor, RequestToken,
       FinishViaBackend, FinishDirectly, ParseLog, WriteReports, UploadArtifact, WriteSummary,
       RemoveLeftovers, ReleaseLock
  <2>4. UNCHANGED uploaded
    BY <1>9 DEF TypeInv, CleanupStep, AcquireLock, KillMonitor, RequestToken,
       FinishViaBackend, FinishDirectly, ParseLog, WriteReports, UploadArtifact, WriteSummary,
       RemoveLeftovers, ReleaseLock
  <2>5. reports'["post"] = reports["post"]
    BY <1>0, <1>9 DEF CleanupStep, AcquireLock, KillMonitor, RequestToken,
       FinishViaBackend, FinishDirectly, ParseLog, WriteReports, UploadArtifact, WriteSummary,
       RemoveLeftovers, ReleaseLock
  <2>6. Lines("post")' = Lines("post")
    BY <1>0, <2>1, <2>2, LinesKept
  <2>. QED  BY <1>1, <2>1, <2>2, <2>3, <2>4, <2>5, <2>6 DEF StopInv
<1>10. ASSUME CleanupStep("post") PROVE StopInv'
  <2>1. CASE AcquireLock("post")
    BY <1>0, <1>2, <2>1 DEF AcquireLock, Goto
  <2>2. CASE KillMonitor("post")
    <3>1. stopped'
      BY <1>1, <2>2 DEF KillMonitor, Dir, TypeInv, CleanupTypeOK
    <3>2. pc'["post"] \in {"auth", "direct", "parse"}
      BY <1>0, <2>2 DEF KillMonitor, MarkProcessAsFinished, Goto
    <3>. QED  BY <1>3, <2>2, <3>1, <3>2 DEF KillMonitor
  <2>3. ASSUME pc["post"] \notin {"idle", "lock", "kill", "done"}, UNCHANGED <<script, uploaded>>,
               pc'["post"] \in {"auth", "finish", "direct", "parse", "summary", "leftovers", "release"}
        PROVE  StopInv'
    BY <1>1, <1>3, <2>3 DEF StopInv
  <2>4. CASE RequestToken("post") \/ FinishViaBackend("post") \/ FinishDirectly("post")
    BY <1>0, <2>3, <2>4 DEF RequestToken, FinishViaBackend, FinishDirectly, Goto
  <2>5. CASE ParseLog("post")
    <3>1. Lines("post")' = Lines("post")
      BY <1>0, <2>5, LinesKept DEF ParseLog
    <3>2. CASE Goto("post", "leftovers")
      BY <1>0, <2>3, <2>5, <3>2 DEF ParseLog, Goto
    <3>3. CASE reports' = [reports EXCEPT !["post"].charts = Lines("post")] /\ Goto("post", "report")
      BY <1>0, <1>1, <2>5, <3>1, <3>3 DEF ParseLog, Goto, StopInv
    <3>. QED  BY <2>5, <3>2, <3>3 DEF ParseLog
  <2>6. CASE WriteReports("post")
    <3>1. Lines("post")' = Lines("post")
      BY <1>0, <2>6, LinesKept DEF WriteReports
    <3>2. CASE Goto("post", "done") /\ UNCHANGED reports
      BY <1>0, <1>2, <2>6, <3>2 DEF WriteReports, Goto
    <3>3. CASE reports' = [reports EXCEPT !["post"].tables = Lines("post")] /\ Goto("post", "upload")
      BY <1>0, <1>1, <2>6, <3>1, <3>3 DEF WriteReports, Goto, StopInv
    <3>. QED  BY <2>6, <3>2, <3>3 DEF WriteReports, Throw
  <2>7. CASE UploadArtifact("post")
    BY <1>0, <1>1, <2>7 DEF UploadArtifact, Goto, StopInv
  <2>8. CASE WriteSummary("post")
    BY <1>0, <1>2, <2>3, <2>8 DEF WriteSummary, Throw, Goto
  <2>9. CASE RemoveLeftovers("post")
    BY <1>0, <2>3, <2>9 DEF RemoveLeftovers, Goto
  <2>10. CASE ReleaseLock("post")
    BY <1>0, <1>2, <2>10 DEF ReleaseLock, Goto
  <2>. QED
    BY <1>10, <2>1, <2>2, <2>4, <2>5, <2>6, <2>7, <2>8, <2>9, <2>10 DEF CleanupStep
<1>. QED  BY <1>0, <1>4, <1>5, <1>6, <1>7, <1>8, <1>9, <1>10 DEF Next

\* ArtifactsAgree, for any number of samples: in a shared directory the log, the
\* charts and the tables that are uploaded show the same samples.
THEOREM ArtifactsShowOneLog == Spec => []ArtifactsAgree
<1>1. Init => TypeInv /\ StopInv
  BY InitType DEF Init, StopInv, Cleanups
<1>2. TypeInv /\ StopInv /\ [Next]_vars => (TypeInv /\ StopInv)'
  BY TypeStep, StopStep
<1>3. StopInv => ArtifactsAgree
  BY DEF StopInv, ArtifactsAgree
<1>. QED  BY <1>1, <1>2, <1>3, PTL DEF Spec

----------------------------------------------------------------------------
(***************************************************************************)
(* The log                                                                 *)
(***************************************************************************)
Uploads == ~Faults /\ ~Shared /\ env["post"] # NotExported

\* The log is there until the post step removes it, and the post step of a job
\* that must upload gets the lock of its own directory.
LogInv ==
  /\ CustomLogKept
  /\ pc["post"] \notin {"release", "done"} => log >= 1
  /\ ~Shared /\ pc["post"] \in {"idle", "lock"} => "workspace" \notin locks
  /\ Uploads /\ pc["post"] \in {"summary", "leftovers", "release", "done"} => uploaded.log # 0

LEMMA LogStep == TypeInv /\ LogInv /\ [Next]_vars => LogInv'
<1>. SUFFICES ASSUME TypeInv, LogInv, [Next]_vars PROVE LogInv'
  OBVIOUS
<1>. USE DEF start, script, files, Shared, Faults, Uploads
<1>0. /\ pc \in [Cleanups -> Pcs] /\ Cleanups = {"post", "trap"}
      /\ log \in Nat /\ written \in Nat
  BY DEF TypeInv, CleanupTypeOK, Pcs, Cleanups, Counts
\* Steps that leave the log and the artifact alone, and the post step where it is
\* or before anything is uploaded.
<1>1. ASSUME UNCHANGED <<job, plan, env, log, written, uploaded>>,
             ~Shared => locks' \ {"action"} \subseteq locks,
             \/ pc'["post"] = pc["post"]
             \/ pc["post"] = "idle" /\ pc'["post"] = "lock"
             \/ pc["post"] = "lock" /\ pc'["post"] = "done" /\ (Shared \/ "workspace" \in locks)
             \/ pc["post"] \notin {"release", "done"}
                /\ pc'["post"] \in {"auth", "finish", "direct", "parse", "report", "upload"}
             \/ Faults /\ pc'["post"] = "done"
             \/ /\ pc["post"] \in {"summary", "leftovers", "release"}
                /\ pc'["post"] \in {"leftovers", "release", "done"}
                /\ pc'["post"] = "leftovers" => pc["post"] = "summary"
      PROVE  LogInv'
  BY <1>1 DEF LogInv, CustomLogKept
<1>2. CASE WriteSample
  BY <1>0, <1>2 DEF WriteSample, LogInv, CustomLogKept
<1>3. CASE HandleSignal \/ TrapReturns \/ Terminate \/ KillOrphans \/ StartPost \/ UNCHANGED vars
  <2>1. UNCHANGED <<job, plan, env, log, written, uploaded, locks>>
    BY <1>3 DEF HandleSignal, TrapReturns, Terminate, KillOrphans, StartPost, vars
  <2>2. pc'["post"] = pc["post"] \/ (pc["post"] = "idle" /\ pc'["post"] = "lock")
    BY <1>0, <1>3 DEF HandleSignal, TrapReturns, RunTrap, Terminate, KillOrphans, StartPost, Goto, vars
  <2>. QED  BY <1>1, <2>1, <2>2
<1>4. ASSUME CleanupStep("trap") PROVE LogInv'
  <2>1. pc'["post"] = pc["post"] /\ UNCHANGED <<job, plan, env, written>>
    BY <1>0, <1>4, StepMoves
  <2>2. UNCHANGED <<log, uploaded>>
    BY <1>4 DEF TypeInv, CleanupStep, AcquireLock, KillMonitor, RequestToken,
       FinishViaBackend, FinishDirectly, ParseLog, WriteReports, UploadArtifact, WriteSummary,
       RemoveLeftovers, ReleaseLock
  <2>3. locks' \subseteq locks \cup {"action"}
    BY <1>4 DEF CleanupStep, AcquireLock, KillMonitor, RequestToken, Dir,
       FinishViaBackend, FinishDirectly, ParseLog, WriteReports, UploadArtifact, WriteSummary,
       RemoveLeftovers, ReleaseLock
  <2>. QED  BY <1>1, <2>1, <2>2, <2>3
<1>5. ASSUME CleanupStep("post") PROVE LogInv'
  <2>1. UNCHANGED <<job, plan, env, written>>
    BY <1>0, <1>5, StepMoves
  <2>2. Uploads => Lines("post") = log
    BY <1>0, LogFound DEF Lines
  <2>3. CASE AcquireLock("post")
    <3>1. CASE Dir("post") \notin locks /\ locks' = locks \cup {Dir("post")} /\ Goto("post", "kill")
      BY <1>0, <2>1, <2>3, <3>1 DEF AcquireLock, Goto, LogInv, CustomLogKept
    <3>2. CASE Dir("post") \in locks /\ UNCHANGED locks /\ Goto("post", "done")
      BY <1>0, <2>1, <2>3, <3>2 DEF AcquireLock, Goto, LogInv, CustomLogKept, Dir
    <3>. QED  BY <2>3, <3>1, <3>2 DEF AcquireLock
  <2>4. CASE KillMonitor("post")
    <3>1. pc'["post"] \in {"auth", "direct", "parse"}
      BY <1>0, <2>4 DEF KillMonitor, MarkProcessAsFinished, Goto
    <3>. QED  BY <1>1, <2>1, <2>4, <3>1 DEF KillMonitor
  <2>5. CASE RequestToken("post") \/ FinishViaBackend("post") \/ FinishDirectly("post")
    <3>1. pc["post"] \notin {"release", "done"} /\ pc'["post"] \in {"finish", "direct", "parse"}
      BY <1>0, <2>5 DEF RequestToken, FinishViaBackend, FinishDirectly, Goto
    <3>. QED  BY <1>1, <2>1, <2>5, <3>1 DEF RequestToken, FinishViaBackend, FinishDirectly
  <2>6. CASE ParseLog("post")
    <3>1. CASE Lines("post") = 0 /\ Goto("post", "leftovers")
      BY <1>0, <2>1, <2>2, <2>6, <3>1 DEF ParseLog, Goto, LogInv, CustomLogKept
    <3>2. CASE Goto("post", "report")
      BY <1>0, <1>1, <2>1, <2>6, <3>2 DEF ParseLog, Goto
    <3>. QED  BY <2>6, <3>1, <3>2 DEF ParseLog
  <2>7. CASE WriteReports("post")
    <3>1. CASE Goto("post", "upload")
      BY <1>0, <1>1, <2>1, <2>7, <3>1 DEF WriteReports, Goto
    <3>2. CASE (Lines("post") = 0 \/ Faults) /\ Goto("post", "done")
      BY <1>0, <2>1, <2>2, <2>7, <3>2 DEF WriteReports, Goto, LogInv, CustomLogKept
    <3>. QED  BY <2>7, <3>1, <3>2 DEF WriteReports, Throw
  <2>8. CASE UploadArtifact("post")
    <3>1. Uploads => uploaded'.log = log
      BY <2>2, <2>8 DEF UploadArtifact
    <3>2. pc["post"] = "upload" /\ pc'["post"] = "summary" /\ UNCHANGED <<log, locks>>
      BY <1>0, <2>8 DEF UploadArtifact, Goto
    <3>. QED  BY <1>0, <2>1, <3>1, <3>2 DEF LogInv, CustomLogKept
  <2>9. CASE WriteSummary("post")
    BY <1>0, <1>1, <2>1, <2>9 DEF WriteSummary, Throw, Goto
  <2>10. CASE RemoveLeftovers("post")
    <3>1. pc["post"] = "leftovers" /\ pc'["post"] = "release" /\ UNCHANGED <<locks, uploaded>>
      BY <1>0, <2>10 DEF RemoveLeftovers, Goto
    <3>2. plan.log.file = "named" => log' = log
      <4>1. ASSUME env["post"].defaultLog, LogOf("post") = plan.log PROVE plan.log.file # "named"
        <5>1. CASE env["post"] = NotExported
          BY <1>0, <4>1, <5>1, LogFound DEF NotExported, Path
        <5>2. CASE env["post"] # NotExported
          BY <1>0, <4>1, <5>2 DEF TypeInv, StartInv, Inherits
        <5>. QED  BY <5>1, <5>2
      <4>. QED  BY <2>10, <4>1 DEF RemoveLeftovers, RemoveDefaultLog
    <3>. QED  BY <2>1, <3>1, <3>2 DEF LogInv, CustomLogKept
  <2>11. CASE ReleaseLock("post")
    BY <1>0, <1>1, <2>1, <2>11 DEF ReleaseLock, Goto
  <2>. QED
    BY <1>5, <2>3, <2>4, <2>5, <2>6, <2>7, <2>8, <2>9, <2>10, <2>11 DEF CleanupStep
<1>. QED  BY <1>0, <1>2, <1>3, <1>4, <1>5 DEF Next

\* LogIsFoundAndKept, for any number of samples: a cleanup reads the log of the
\* monitor, none removes the user's, and the post step uploads it.
THEOREM LogIsKept == Spec => []LogIsFoundAndKept
<1>1. Init => TypeInv /\ LogInv
  <2>1. Init => LogInv
    BY DEF Init, LogInv, CustomLogKept, Cleanups
  <2>. QED  BY <2>1, InitType
<1>2. TypeInv /\ LogInv /\ [Next]_vars => (TypeInv /\ LogInv)'
  BY TypeStep, LogStep
<1>3. TypeInv /\ LogInv => LogIsFoundAndKept
  <2>. SUFFICES ASSUME TypeInv, LogInv PROVE LogIsFoundAndKept
    OBVIOUS
  <2>1. ReadsTheMonitorsLog
    BY LogFound DEF ReadsTheMonitorsLog
  <2>2. CustomLogKept /\ PostUploads
    BY DEF LogInv, PostUploads, Uploads
  <2>. QED  BY <2>1, <2>2 DEF LogIsFoundAndKept
<1>. QED  BY <1>1, <1>2, <1>3, PTL DEF Spec

----------------------------------------------------------------------------
(***************************************************************************)
(* The run                                                                 *)
(***************************************************************************)
RunInv ==
  /\ \A c \in Cleanups : pc[c] \in {"auth", "finish", "direct"} => plan.remote
  /\ LocalRunsStayLocal

\* Only a cleanup that was told to use the backend gets to where it finishes a run.
LEMMA RunStep == TypeInv /\ RunInv /\ [Next]_vars => RunInv'
<1>. SUFFICES ASSUME TypeInv, RunInv, [Next]_vars PROVE RunInv'
  OBVIOUS
<1>. USE DEF start, script, files, RunInv, LocalRunsStayLocal
<1>0. pc \in [Cleanups -> Pcs] /\ Cleanups = {"post", "trap"}
  BY DEF TypeInv, CleanupTypeOK, Pcs, Cleanups
<1>1. CASE WriteSample \/ HandleSignal \/ TrapReturns \/ Terminate \/ KillOrphans \/ StartPost
           \/ UNCHANGED vars
  <2>1. UNCHANGED <<plan, run>>
    BY <1>1 DEF WriteSample, HandleSignal, TrapReturns, Terminate, KillOrphans, StartPost, vars
  <2>2. UNCHANGED pc \/ \E c \in Cleanups, l \in Resting : Goto(c, l)
    BY <1>0, <1>1 DEF WriteSample, HandleSignal, TrapReturns, RunTrap, Terminate, KillOrphans,
                      StartPost, vars, Resting
  <2>. QED  BY <1>0, <2>1, <2>2 DEF Goto, Resting
<1>2. ASSUME NEW c \in Cleanups, CleanupStep(c) PROVE RunInv'
  <2>1. UNCHANGED plan /\ \A d \in Cleanups : d # c => pc'[d] = pc[d]
    BY <1>2, StepMoves
  <2>2. CASE KillMonitor(c)
    <3>1. env[c].enableBackend => plan.remote
      BY DEF TypeInv, StartInv, Inherits, NotExported
    <3>2. pc'[c] \in {"auth", "finish", "direct"} => plan.remote
      BY <1>0, <2>2, <3>1 DEF KillMonitor, MarkProcessAsFinished, Goto
    <3>. QED  BY <2>1, <2>2, <3>2 DEF KillMonitor
  <2>3. CASE RequestToken(c)
    BY <1>0, <2>1, <2>3 DEF RequestToken, Goto
  <2>4. CASE FinishViaBackend(c) \/ FinishDirectly(c)
    <3>1. plan.remote
      BY <2>4 DEF FinishViaBackend, FinishDirectly
    <3>. QED  BY <2>1, <3>1
  <2>5. CASE AcquireLock(c) \/ ParseLog(c) \/ WriteReports(c) \/ UploadArtifact(c)
             \/ WriteSummary(c) \/ RemoveLeftovers(c) \/ ReleaseLock(c)
    <3>1. UNCHANGED run
      BY <2>5 DEF AcquireLock, ParseLog, WriteReports, UploadArtifact, WriteSummary,
                  RemoveLeftovers, ReleaseLock
    <3>2. pc'[c] \notin {"auth", "finish", "direct"}
      BY <1>0, <2>5 DEF AcquireLock, ParseLog, WriteReports, UploadArtifact, WriteSummary,
                  RemoveLeftovers, ReleaseLock, Throw, Goto
    <3>. QED  BY <2>1, <3>1, <3>2
  <2>. QED  BY <1>2, <2>2, <2>3, <2>4, <2>5 DEF CleanupStep
<1>. QED  BY <1>1, <1>2 DEF Next

\* LocalRunsStayLocal: a run whose monitor does not use the backend is never
\* finished there, whatever URL the environment holds.
THEOREM LocalRunsAreNotFinished == Spec => []LocalRunsStayLocal
<1>1. Init => TypeInv /\ RunInv
  BY InitType DEF Init, RunInv, LocalRunsStayLocal, Cleanups
<1>2. TypeInv /\ RunInv /\ [Next]_vars => (TypeInv /\ RunInv)'
  BY TypeStep, RunStep
<1>. QED  BY <1>1, <1>2, PTL DEF Spec, RunInv
=============================================================================
