----------------------------- MODULE MCBackend -----------------------------
(***************************************************************************)
(* TLC instances of the backend: one or two goroutines on one or on two    *)
(* instances, two payloads, one or two processes.  The configurations      *)
(* choose the requests clients send and the failures that may occur.       *)
(***************************************************************************)
EXTENDS Backend, TLC

CONSTANTS i1, i2, w1, w2, s1, s2, p1, p2

OneInstance == [w \in Workers |-> i1]
TwoInstances == [w \in Workers |-> IF w = w1 THEN i1 ELSE i2]
MCSampleLists == {<<>>}

\* s1 is sampled before the first checkpoint of 30 seconds, s2 after it.
MCElapsed == [s \in Samples |-> IF s = s1 THEN 10 ELSE 40]

\* The goroutines of one instance are interchangeable.
WorkerSymmetry == Permutations(Workers)
=============================================================================
