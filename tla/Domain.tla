------------------------------- MODULE Domain -------------------------------
(***************************************************************************)
(* The sets every module of the backend is about.  All of it concerns one  *)
(* monitored run: each storage operation, export mark and prediction of    *)
(* the backend is keyed by a run id, and none relates two runs.            *)
(***************************************************************************)
CONSTANTS
  Instances,   \* backend processes (Cloud Run instances)
  Workers,     \* request goroutines
  InstanceOf,  \* the instance a goroutine runs on
  Samples,     \* payloads of ingest requests
  Procs        \* pids with process info

ASSUME InstanceAssumption == InstanceOf \in [Workers -> Instances]
=============================================================================
