-------------------------- MODULE MCBreakerProbes ---------------------------
(***************************************************************************)
(* CircuitBreaker with a history variable that counts the probes           *)
(* themselves, where the code only has the counter halfOpenCount.          *)
(***************************************************************************)
EXTENDS CircuitBreaker

VARIABLE probing    \* callers admitted in this half-open period, fn not returned

\* c gets past reserveHalfOpen.
Admitted(c) == pc[c] = "reserve" /\ pc'[c] = "running"

ProbesInit == BreakerInit /\ probing = {}

\* Probes of an earlier half-open period are not counted, nor are the calls that
\* were let through while the breaker was closed.
ProbesNext ==
    /\ BreakerNext
    /\ probing' = {c \in Callers : /\ state = "half" /\ state' = "half"
                                   /\ pc'[c] = "running"
                                   /\ c \in probing \/ Admitted(c)}

ProbesSpec == ProbesInit /\ [][ProbesNext]_<<breakerVars, probing>>

\* "MaxRequests caps concurrent half-open probes (0 = unlimited)."
\* (resilience/config.go): of the calls admitted in one half-open period no more
\* than MaxRequests run at a time.
ProbesCapped == MaxRequests > 0 => Cardinality(probing) <= MaxRequests
=============================================================================
