---------------------------- MODULE MCResilience ----------------------------
(***************************************************************************)
(* The two components of pkg/resilience that keep state under several      *)
(* goroutines, checked in one run.  They share nothing: focus says which   *)
(* of them moves, the other stays in its initial state.                    *)
(***************************************************************************)
EXTENDS Semaphore, CircuitBreaker

VARIABLE focus

vars == <<semVars, breakerVars, focus>>

Init ==
    /\ focus \in {"bulkhead", "breaker"}
    /\ SemInit /\ BreakerInit

BulkheadOnly(A) == focus = "bulkhead" /\ A /\ UNCHANGED <<breakerVars, focus>>
BreakerOnly(A) == focus = "breaker" /\ A /\ UNCHANGED <<semVars, focus>>

Next == BulkheadOnly(SemNext) \/ BreakerOnly(BreakerNext)

\* SemFairness as it stands (nothing it speaks of is enabled while the semaphore
\* is not used) and BreakerFairness for the behaviours in which callers call.
Fairness ==
    /\ SemFairness
    /\ WF_vars(BreakerOnly(Cool))
    /\ \A c \in Callers : SF_vars(BreakerOnly(Continue(c)))

Spec == Init /\ [][Next]_vars /\ Fairness
=============================================================================
