---------------------------- MODULE MCScheduler ----------------------------
(* Scheduler with a node of two goroutines and a node of one.              *)
EXTENDS Scheduler

CONSTANTS n1, n2, a1, a2, b1

MCNodes == {n1, n2}

MCThreadsOf == [n \in MCNodes |-> IF n = n1 THEN {a1, a2} ELSE {b1}]

MCValues == {a1, a2, b1}
=============================================================================
