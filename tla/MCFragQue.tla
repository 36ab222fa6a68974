----------------------------- MODULE MCFragQue -----------------------------
(* Two files of two processes under the same hash; the first process is told *)
(* of changes.                                                               *)
EXTENDS FragQue

CONSTANTS n1, n2, p1, p2

MCHash == [n \in {n1, n2} |-> 0]
MCOwner == [n \in {n1, n2} |-> IF n = n1 THEN p1 ELSE p2]
=============================================================================
