---------------------------- MODULE ActionStart ----------------------------
(***************************************************************************)
(* The start of the action: what it makes of its inputs, hands to the      *)
(* monitor it starts and leaves for the cleanup of the post step, which    *)
(* has to come to the same conclusions later.                              *)
(*                                                                         *)
(* The runner sets GITHUB_WORKSPACE and RUNNER_TEMP, so that every path is *)
(* absolute but the one a cleanup uses that knows nothing.                 *)
(***************************************************************************)
EXTENDS Naturals

\* The inputs of the action, whether BACKEND_URL is set, and how the log is named.
Inputs ==
  [remote: BOOLEAN, export: BOOLEAN, predictive: BOOLEAN, url: BOOLEAN,
   logFile: {"default", "relative", "absolute"}]

\* A prediction needs the backend and the export.  Without a URL the hosted
\* backend is used, and a URL alone enables nothing.
FeatureFlags(i) ==
  LET enableBackend == i.remote \/ i.predictive
      backendUrl == i.url \/ enableBackend
      useBackend == enableBackend /\ backendUrl
  IN  [enableBackend |-> enableBackend, backendUrl |-> backendUrl,
       export |-> (i.export \/ i.predictive) /\ useBackend,
       predictive |-> i.predictive /\ useBackend]

\* "temp" is the directory of the run under RUNNER_TEMP, "none" that of a relative path.
Path(dir, file) == [dir |-> dir, file |-> file]
Paths == [dir: {"temp", "action", "workspace", "elsewhere", "none"},
          file: {"default", "withRunId", "named"}]

\* The default log stays out of the workspace, and off an older log of the same run id.
LogFile(i, older) ==
  CASE i.logFile = "default" -> Path("temp", IF older THEN "withRunId" ELSE "default")
    [] i.logFile = "relative" -> Path("workspace", "named")
    [] OTHER -> Path("elsewhere", "named")

\* What the monitor is started with.
LaunchPlan(flags, log) ==
  [remote |-> flags.enableBackend /\ flags.backendUrl, export |-> flags.export,
   predictive |-> flags.predictive, log |-> log]

\* The variables exported for the later steps of the job, and what a cleanup
\* assumes that does not get them.
Exported(i, older) ==
  [enableBackend |-> FeatureFlags(i).enableBackend, logFile |-> LogFile(i, older),
   defaultLog |-> i.logFile = "default"]
NotExported ==
  [enableBackend |-> FALSE, logFile |-> Path("none", "default"), defaultLog |-> TRUE]

\* The log a cleanup reads: the path itself, or the first file of that name in
\* three directories.  The run id is known, if only from its backup file.
CandidateDirs == <<"temp", "action", "workspace">>

CleanupLogFile(name, existing) ==
  LET found == {k \in 1..3 : Path(CandidateDirs[k], name.file) \in existing}
      first == IF found = {} THEN 1 ELSE CHOOSE k \in found : \A j \in found : k <= j
  IN  IF name.dir # "none" THEN name ELSE Path(CandidateDirs[first], name.file)
=============================================================================
