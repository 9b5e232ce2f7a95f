------------------------- MODULE MCBreakerCooldown --------------------------
(***************************************************************************)
(* CircuitBreaker with a history variable that remembers whether, at some  *)
(* moment of the present open period, Timeout had passed since the last    *)
(* failure.                                                                *)
(***************************************************************************)
EXTENDS CircuitBreaker

VARIABLE due

CooldownInit == BreakerInit /\ due = FALSE

CooldownNext ==
    /\ BreakerNext
    /\ due' = (state' = "open" /\ (cooled' \/ (state = "open" /\ due)))

CooldownSpec == CooldownInit /\ [][CooldownNext]_<<breakerVars, due>>

\* "Timeout is how long the circuit stays open before half-open probes."
\* (resilience/config.go): half-open begins only in an open period in which
\* Timeout had passed since the last failure.
CooldownRespected ==
    [][state = "open" /\ state' = "half" => due]_<<breakerVars, due>>
=============================================================================
