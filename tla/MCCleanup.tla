----------------------------- MODULE MCCleanup -----------------------------
(***************************************************************************)
(* TLC instances of the cleanup: jobs in one directory and in two, with    *)
(* two samples written at any moment.                                      *)
(***************************************************************************)
EXTENDS Cleanup

Job(shared, key, faults, signals) ==
  [shared |-> shared, key |-> key, faults |-> faults, signals |-> signals]

\* In one directory everything may go wrong; in two nothing fails.
AnyJob == {Job(TRUE, TRUE, TRUE, TRUE), Job(FALSE, FALSE, FALSE, TRUE)}
FaultyJob == {Job(TRUE, FALSE, TRUE, FALSE)}
QuietJob == {Job(TRUE, FALSE, FALSE, FALSE)}
=============================================================================
