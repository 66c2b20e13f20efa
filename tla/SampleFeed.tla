----------------------------- MODULE SampleFeed -----------------------------
(***************************************************************************)
(* What the monitor promises about the samples of a run, seen from         *)
(* outside: every sample is written to the local log once, and the backend *)
(* receives some of them, each at most once and in the order of the log.   *)
(* Whether a sample arrives at all is not promised.                        *)
(***************************************************************************)
EXTENDS Naturals, Sequences

CONSTANT Items

VARIABLES
  log,       \* samples in the local log file
  received   \* samples the backend has accepted

feedVars == <<log, received>>

FeedInit == log = <<>> /\ received = <<>>

Write(s) ==
  /\ \A i \in DOMAIN log : log[i] # s
  /\ log' = Append(log, s)
  /\ UNCHANGED received

\* The next sample received comes later in the log than every earlier one.
Receive(i) ==
  /\ i \in DOMAIN log
  /\ \A j \in DOMAIN received : \E k \in 1..i - 1 : log[k] = received[j]
  /\ received' = Append(received, log[i])
  /\ UNCHANGED log

FeedNext == (\E s \in Items : Write(s)) \/ (\E i \in DOMAIN log : Receive(i))

FeedSpec == FeedInit /\ [][FeedNext]_feedVars
=============================================================================
