--------------------------- MODULE MCExportQueue ---------------------------
(***************************************************************************)
(* TLC instance of the export scheduler: two goroutines of one instance    *)
(* and, in the safety run, one of another, so that a call meets both a     *)
(* duplicate in its own process and an export of the same run elsewhere.   *)
(***************************************************************************)
EXTENDS ExportQueue

CONSTANTS i1, i2, w1, w2, w3, s1, s2, p1

MCInstanceOf == [w \in Workers |-> IF w = w3 THEN i2 ELSE i1]
MCSampleLists == {<<>>, <<s1>>, <<s1, s2>>}
=============================================================================
