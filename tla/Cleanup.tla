------------------------------ MODULE Cleanup ------------------------------
(***************************************************************************)
(* The end of a job: the cleanup program of the post step, the signal      *)
(* traps of the monitor, which run the same program, and the files and the *)
(* run document they share.                                                *)
(*                                                                         *)
(* cleanup.lock and monitor.pid are relative to the working directory.     *)
(* The post step runs in the workspace and the monitor's traps in the      *)
(* directory of the action: the same one for `uses: ./`, and two for a     *)
(* published action.                                                       *)
(*                                                                         *)
(* What the action made of its inputs at its start is fixed by Init.  The  *)
(* post step may run without the variables it exported, which the code     *)
(* provides for; the traps inherit them from the monitor.                  *)
(***************************************************************************)
EXTENDS ActionStart

CONSTANTS
  MaxSamples,  \* bound on the lines the monitor appends to the log
  Jobs         \* the circumstances of the jobs considered

\* Do the post step and the traps run in the same directory?  Is there a service
\* account key for the direct update?  May requests and file operations fail?  May
\* somebody else signal the monitor, or kill it at the end?
Circumstances == [shared: BOOLEAN, key: BOOLEAN, faults: BOOLEAN, signals: BOOLEAN]

ASSUME CleanupAssumption == MaxSamples \in Nat /\ Jobs \subseteq Circumstances

VARIABLES
  job,       \* the circumstances of this job
  plan,      \* what the monitor was started with
  env,       \* the variables of the action, as each cleanup sees them
  older,     \* is there an older log of the default name in the directory of the run?
  monitor,   \* what the monitor script is doing
  pending,   \* a signal it has received and not handled yet
  pc,        \* the cleanup of the post step, and the one of the traps
  locks,     \* directories that hold a cleanup.lock
  urlFile,   \* is there a file with the URL of the backend?
  log,       \* lines of the log file, 0 when there is none
  written,   \* samples the monitor has written
  reports,   \* lines of the log each cleanup's charts and tables show
  uploaded,  \* lines shown by the log, charts and tables of the artifact
  run        \* the run document

start == <<job, plan, env>>
script == <<monitor, pending>>
files == <<locks, urlFile, older, log, written>>
vars == <<start, script, pc, files, reports, uploaded, run>>

Shared == job.shared
HasKey == job.key
Faults == job.faults
Signals == job.signals

Cleanups == {"post", "trap"}
Dir(c) == IF c = "post" /\ ~Shared THEN "workspace" ELSE "action"

\* An iteration of the loop, the TERM trap, the EXIT trap, and a TERM trap that
\* interrupts the EXIT trap, which does not run twice.
InTrap == {"termTrap", "exitTrap", "lastTrap"}

Counts == 0..MaxSamples + 1

CleanupTypeOK ==
  /\ job \in Jobs
  /\ plan \in [remote: BOOLEAN, export: BOOLEAN, predictive: BOOLEAN, log: Paths]
  /\ env \in [Cleanups -> [enableBackend: BOOLEAN, logFile: Paths, defaultLog: BOOLEAN]]
  /\ older \in BOOLEAN
  /\ monitor \in {"loop", "dead"} \cup InTrap
  /\ pending \in BOOLEAN
  /\ pc \in [Cleanups -> {"idle", "lock", "kill", "auth", "finish", "direct", "parse",
                          "report", "upload", "summary", "leftovers", "release", "done"}]
  /\ locks \subseteq {"action", "workspace"}
  /\ urlFile \in BOOLEAN
  /\ log \in Counts /\ written \in 0..MaxSamples
  /\ reports \in [Cleanups -> [charts: Counts, tables: Counts]]
  /\ uploaded \in [log: Counts, charts: Counts, tables: Counts]
  /\ run \in [finished: BOOLEAN, expires: BOOLEAN]

\* The action has resolved its inputs, exported its variables, written the URL of
\* the backend to a file and started the monitor.
Start(i) ==
  /\ older \in BOOLEAN /\ (older => i.logFile = "default")
  /\ plan = LaunchPlan(FeatureFlags(i), LogFile(i, older))
  /\ env \in {[post |-> seen, trap |-> Exported(i, older)] : seen \in {Exported(i, older), NotExported}}
  /\ urlFile \in BOOLEAN /\ (urlFile => FeatureFlags(i).backendUrl)
  /\ Faults \/ urlFile = FeatureFlags(i).backendUrl

\* The monitor has written the header of its log and its pid.
Init ==
  /\ job \in Jobs
  /\ \E i \in Inputs : Start(i)
  /\ monitor = "loop" /\ pending = FALSE
  /\ pc = [c \in Cleanups |-> "idle"]
  /\ locks = {} /\ log = 1 /\ written = 0
  /\ reports = [c \in Cleanups |-> [charts |-> 0, tables |-> 0]]
  /\ uploaded = [log |-> 0, charts |-> 0, tables |-> 0]
  /\ run = [finished |-> FALSE, expires |-> FALSE]

Goto(c, l) == pc' = [pc EXCEPT ![c] = l]

----------------------------------------------------------------------------
(***************************************************************************)
(* The monitor script                                                      *)
(***************************************************************************)

\* A sample is appended to the log, which is created if it is not there.
WriteSample ==
  /\ monitor = "loop" /\ ~pending
  /\ written < MaxSamples
  /\ log' = log + 1 /\ written' = written + 1
  /\ UNCHANGED <<start, script, pc, locks, urlFile, older, reports, uploaded, run>>

\* A trap runs the cleanup as a child process and waits for it.
RunTrap(trap) == monitor' = trap /\ pending' = FALSE /\ Goto("trap", "lock")

\* Bash runs the TERM trap when the current command has ended.
HandleSignal ==
  /\ monitor = "loop" /\ pending
  /\ RunTrap("termTrap")
  /\ UNCHANGED <<start, files, reports, uploaded, run>>

\* The cleanup of a trap has ended.  A signal that came meanwhile runs the TERM
\* trap again; otherwise the script exits, by the EXIT trap the first time.
TrapReturns ==
  /\ monitor \in InTrap /\ pc["trap"] = "done"
  /\ \/ pending /\ RunTrap(IF monitor = "termTrap" THEN "termTrap" ELSE "lastTrap")
     \/ ~pending /\ monitor = "termTrap" /\ RunTrap("exitTrap")
     \/ ~pending /\ monitor # "termTrap" /\ monitor' = "dead" /\ UNCHANGED <<pending, pc>>
  /\ UNCHANGED <<start, files, reports, uploaded, run>>

\* Somebody else terminates the monitor.
Terminate ==
  /\ Signals /\ monitor = "loop" /\ ~pending
  /\ pending' = TRUE
  /\ UNCHANGED <<start, monitor, pc, files, reports, uploaded, run>>

\* After the job the runner kills the processes that are left.
KillOrphans ==
  /\ Signals /\ pc["post"] = "done" /\ monitor # "dead"
  /\ monitor' = "dead" /\ pending' = FALSE /\ Goto("trap", "done")
  /\ UNCHANGED <<start, files, reports, uploaded, run>>

----------------------------------------------------------------------------
(***************************************************************************)
(* The cleanup program                                                     *)
(***************************************************************************)
StartPost ==
  /\ pc["post"] = "idle"
  /\ Goto("post", "lock")
  /\ UNCHANGED <<start, script, files, reports, uploaded, run>>

\* Mutant: a cleanup that is skipped goes through the finally block.
AcquireLockFinally(c) ==
  /\ pc[c] = "lock"
  /\ \/ Dir(c) \notin locks /\ locks' = locks \cup {Dir(c)} /\ Goto(c, "kill")
     \/ Dir(c) \in locks /\ UNCHANGED locks /\ Goto(c, "release")
  /\ UNCHANGED <<start, script, urlFile, older, log, written, reports, uploaded, run>>

\* A cleanup that finds the lock taken returns at once.
AcquireLock(c) ==
  /\ pc[c] = "lock"
  /\ \/ Dir(c) \notin locks /\ locks' = locks \cup {Dir(c)} /\ Goto(c, "kill")
     \/ Dir(c) \in locks /\ UNCHANGED locks /\ Goto(c, "done")
  /\ UNCHANGED <<start, script, urlFile, older, log, written, reports, uploaded, run>>

\* Mutant: a backend whose URL is known is told.
MarkKnownBackend(c) == IF urlFile THEN "auth" ELSE "direct"

\* A run is only finished if remote monitoring is enabled.
MarkProcessAsFinished(c) ==
  IF ~env[c].enableBackend THEN "parse" ELSE IF urlFile THEN "auth" ELSE "direct"

\* Mutant: the monitor is left alone.
SpareMonitor(c) ==
  /\ pc[c] = "kill"
  /\ Goto(c, MarkProcessAsFinished(c))
  /\ UNCHANGED <<start, script, files, reports, uploaded, run>>

\* The pid in monitor.pid, a file that nobody removes, gets a SIGTERM.
KillMonitor(c) ==
  /\ pc[c] = "kill"
  /\ pending' = (pending \/ (Dir(c) = "action" /\ monitor # "dead"))
  /\ Goto(c, MarkProcessAsFinished(c))
  /\ UNCHANGED <<start, monitor, files, reports, uploaded, run>>

RequestToken(c) ==
  /\ pc[c] = "auth"
  /\ Goto(c, "finish") \/ (Faults /\ Goto(c, "direct"))
  /\ UNCHANGED <<start, script, files, reports, uploaded, run>>

\* Mutant: the finished run has no expiry.
FinishWithoutExpiry(c) ==
  /\ pc[c] = "finish"
  /\ run' = [run EXCEPT !.finished = TRUE] /\ Goto(c, "parse")
  /\ UNCHANGED <<start, script, files, reports, uploaded>>

\* The request may fail, or only its answer be lost.
FinishViaBackend(c) ==
  /\ pc[c] = "finish"
  /\ \/ run' = [finished |-> TRUE, expires |-> TRUE]
        /\ (Goto(c, "parse") \/ (Faults /\ Goto(c, "direct")))
     \/ Faults /\ UNCHANGED run /\ Goto(c, "direct")
  /\ UNCHANGED <<start, script, files, reports, uploaded>>

\* Nothing happens without a key, and a failed update is only logged.
FinishDirectly(c) ==
  /\ pc[c] = "direct"
  /\ \/ HasKey /\ run' = [run EXCEPT !.finished = TRUE]
     \/ (Faults \/ ~HasKey) /\ UNCHANGED run
  /\ Goto(c, "parse")
  /\ UNCHANGED <<start, script, files, reports, uploaded>>

\* An exception ends the process, before its finally block.
Throw(c) == Goto(c, "done")

\* The log a cleanup reads, and its lines; an older log is not written any more.
Existing == {p \in Paths : (p = plan.log /\ log # 0) \/ (older /\ p = Path("temp", "default"))}
LogOf(c) == CleanupLogFile(env[c].logFile, Existing)
Lines(c) == IF LogOf(c) = plan.log THEN log ELSE IF LogOf(c) \in Existing THEN 1 ELSE 0

\* The log is parsed for the charts.  Without one there is nothing to report.
ParseLog(c) ==
  /\ pc[c] = "parse"
  /\ \/ Lines(c) = 0 /\ Goto(c, "leftovers") /\ UNCHANGED reports
     \/ Lines(c) # 0 /\ reports' = [reports EXCEPT ![c].charts = Lines(c)] /\ Goto(c, "report")
  /\ UNCHANGED <<start, script, files, uploaded, run>>

\* The tables are made from the log, which is read again.
WriteReports(c) ==
  /\ pc[c] = "report"
  /\ \/ Lines(c) # 0 /\ reports' = [reports EXCEPT ![c].tables = Lines(c)]
        /\ Goto(c, IF c = "post" THEN "upload" ELSE "summary")
     \/ (Lines(c) = 0 \/ Faults) /\ Throw(c) /\ UNCHANGED reports
  /\ UNCHANGED <<start, script, files, uploaded, run>>

\* Only the post step uploads.  A failed upload is only logged.
UploadArtifact(c) ==
  /\ pc[c] = "upload"
  /\ \/ uploaded' = [log |-> Lines(c), charts |-> reports[c].charts, tables |-> reports[c].tables]
     \/ Faults /\ UNCHANGED uploaded
  /\ Goto(c, "summary")
  /\ UNCHANGED <<start, script, files, reports, run>>

\* The step summary of a trap is that of a step that ended long ago: the runner
\* may have removed it.
WriteSummary(c) ==
  /\ pc[c] = "summary"
  /\ Goto(c, "leftovers") \/ ((c = "trap" \/ Faults) /\ Throw(c))
  /\ UNCHANGED <<start, script, files, reports, uploaded, run>>

\* A log of the default name is removed, wherever it was found, and so are the
\* files of the action, if the run id is among the variables.
RemoveDefaultLog(c) ==
  /\ log' = IF env[c].defaultLog /\ LogOf(c) = plan.log THEN 0 ELSE log
  /\ older' = (older /\ ~(env[c].defaultLog /\ LogOf(c) # plan.log))
  /\ urlFile' = (urlFile /\ env[c] = NotExported)

\* Mutant: the cleanup of a trap removes the log, too.
RemoveAllLeftovers(c) ==
  /\ pc[c] = "leftovers"
  /\ RemoveDefaultLog(c)
  /\ Goto(c, "release")
  /\ UNCHANGED <<start, script, locks, written, reports, uploaded, run>>

\* Only the post step removes files.
RemoveLeftovers(c) ==
  /\ pc[c] = "leftovers"
  /\ \/ c = "post" /\ RemoveDefaultLog(c)
     \/ c = "trap" /\ UNCHANGED <<log, older, urlFile>>
  /\ Goto(c, "release")
  /\ UNCHANGED <<start, script, locks, written, reports, uploaded, run>>

ReleaseLock(c) ==
  /\ pc[c] = "release"
  /\ locks' = locks \ {Dir(c)}
  /\ Goto(c, "done")
  /\ UNCHANGED <<start, script, urlFile, older, log, written, reports, uploaded, run>>

CleanupStep(c) ==
  \/ AcquireLock(c)
  \/ KillMonitor(c)
  \/ RequestToken(c)
  \/ FinishViaBackend(c)
  \/ FinishDirectly(c)
  \/ ParseLog(c)
  \/ WriteReports(c)
  \/ UploadArtifact(c)
  \/ WriteSummary(c)
  \/ RemoveLeftovers(c)
  \/ ReleaseLock(c)

Next ==
  \/ WriteSample
  \/ HandleSignal
  \/ TrapReturns
  \/ Terminate
  \/ KillOrphans
  \/ StartPost
  \/ \E c \in Cleanups : CleanupStep(c)

Spec == Init /\ [][Next]_vars

\* The job ends, every cleanup gets on (its requests end), and bash handles a
\* signal once the current command has ended, which takes at most one sleep.
FairSpec ==
  /\ Spec
  /\ WF_vars(StartPost)
  /\ WF_vars(HandleSignal) /\ WF_vars(TrapReturns)
  /\ \A c \in Cleanups : WF_vars(CleanupStep(c))

----------------------------------------------------------------------------
(***************************************************************************)
(* Properties                                                              *)
(***************************************************************************)

\* The lock keeps two cleanups of the same directory apart, although the one
\* that is skipped also ends, and the traps start one after the other.  Locks, reports
\* and the state of the run have their types.
CleanupsExclude ==
  /\ CleanupTypeOK
  /\ Shared => \E c \in Cleanups : pc[c] \in {"idle", "lock", "done"}

\* In a shared directory the artifact is consistent: charts, tables and log
\* show the same samples, since the monitor is stopped before the first is made.
ArtifactsAgree ==
  Shared => uploaded.charts = uploaded.log /\ uploaded.tables = uploaded.log

\* A cleanup that has the variables of the action, or that looks for a log of the
\* default name with no older one in its way, reads the log the monitor writes.
ReadsTheMonitorsLog ==
  \A c \in Cleanups :
    pc[c] = "parse" /\ (env[c] # NotExported \/ plan.log = Path("temp", "default"))
      => LogOf(c) = plan.log

\* No cleanup removes a log whose name or place the user has chosen.
CustomLogKept == plan.log.file = "named" => log >= 1 + written

\* A run whose monitor is not told to use the backend is never finished there,
\* also with the URL of a backend in the environment.
LocalRunsStayLocal == run.finished \/ run.expires => plan.remote

\* In a directory of its own the post step uploads the log and the reports, but
\* for faults, whatever the traps have done before or do meanwhile.
PostUploads ==
  ~Faults /\ ~Shared /\ env["post"] # NotExported /\ pc["post"] = "done" => uploaded.log # 0

\* The log of a job: each cleanup finds it, none removes it if it is the user's,
\* and the upload of the post step does not lose it to a trap.
LogIsFoundAndKept == ReadsTheMonitorsLog /\ CustomLogKept /\ PostUploads

\* Without faults a run is marked as finished, and gets its expiry, if the monitor
\* sends it to the backend, asks for the export or asks for predictions.
RunGetsFinished ==
  ~Faults /\ ~Shared /\ env["post"] # NotExported /\ (plan.remote \/ plan.export \/ plan.predictive)
    ~> [](run.finished /\ run.expires)

\* "Always release the lock": no lock outlives the cleanup that took it.
LocksAreReleased ==
  \A c \in Cleanups :
    (pc[c] \in {"idle", "done"} /\ \A d \in Cleanups : Dir(d) = Dir(c) => pc[d] \in {"idle", "done"})
      => Dir(c) \notin locks

\* The traps shut the monitor down: once it has handled a signal, it ends.
MonitorShutsDown == monitor \in InTrap ~> monitor = "dead"
=============================================================================
