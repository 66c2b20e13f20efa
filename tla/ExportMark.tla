----------------------------- MODULE ExportMark -----------------------------
(***************************************************************************)
(* What the export scheduler promises about one run, seen from outside: on *)
(* each instance the run is free, being exported, or settled, and its last *)
(* export there ended as its outcome says.  Rows reach BigQuery only while *)
(* some instance is exporting.  An export that succeeds, or finds that     *)
(* there is nothing to do, settles the run for the life of the instance;   *)
(* one that fails frees it.                                                *)
(***************************************************************************)
CONSTANTS Instances

VARIABLES
  phase,    \* of each instance: "free", "exporting" or "settled"
  outcome,  \* of the last export of each instance since it started
  rows      \* the rows in the two tables

markVars == <<phase, outcome, rows>>

MarkInit ==
  /\ phase = [i \in Instances |-> "free"]
  /\ outcome = [i \in Instances |-> "none"]
  /\ rows = [samples |-> {}, processes |-> {}]

\* Rows are only ever added.
RowsAdded ==
  /\ rows.samples \subseteq rows'.samples
  /\ rows.processes \subseteq rows'.processes

\* An export begins: only a free run is taken.
Claim(i) ==
  /\ phase[i] = "free"
  /\ phase' = [phase EXCEPT ![i] = "exporting"]
  /\ UNCHANGED <<outcome, rows>>

\* A step within an export.
Insert(i) ==
  /\ phase[i] = "exporting"
  /\ RowsAdded
  /\ UNCHANGED <<phase, outcome>>

\* An export ends with its rows inserted, or with nothing to insert.
Settle(i, how) ==
  /\ phase[i] = "exporting"
  /\ \/ how = "exported" /\ RowsAdded
     \/ how = "skipped" /\ UNCHANGED rows
  /\ phase' = [phase EXCEPT ![i] = "settled"]
  /\ outcome' = [outcome EXCEPT ![i] = how]

\* An export fails, perhaps with some of its rows inserted.
Fail(i) ==
  /\ phase[i] = "exporting"
  /\ RowsAdded
  /\ phase' = [phase EXCEPT ![i] = "free"]
  /\ outcome' = [outcome EXCEPT ![i] = "failed"]

\* The instance forgets what it did; nothing else frees a settled run.
Restart(i) ==
  /\ phase' = [phase EXCEPT ![i] = "free"]
  /\ outcome' = [outcome EXCEPT ![i] = "none"]
  /\ UNCHANGED rows

MarkNext ==
  \E i \in Instances :
    \/ Claim(i) \/ Insert(i) \/ Fail(i) \/ Restart(i)
    \/ \E how \in {"exported", "skipped"} : Settle(i, how)

MarkSpec == MarkInit /\ [][MarkNext]_markVars
=============================================================================
