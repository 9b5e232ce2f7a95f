--------------------------- MODULE CircuitBreaker ---------------------------
(***************************************************************************)
(* The circuit breaker of pkg/resilience/circuitbreaker.go (and, through   *)
(* its constants, the mesh facade over it).  State, counters and           *)
(* lastFailure are atomics that callers read and write without the mutex;  *)
(* the mutex only guards state changes.  So every atomic operation is a    *)
(* step of its own, inside and outside the mutex, and a decision taken     *)
(* from one read may be carried out much later.                            *)
(***************************************************************************)
EXTENDS Integers, FiniteSets

CONSTANTS
    Callers,           \* goroutines that call Execute, Reset and ForceOpen
    FailureThreshold,
    SuccessThreshold,
    MaxRequests,       \* 0 = unlimited
    MaxPanics,         \* bound: panics of the protected function
    MaxAdmin           \* bound: calls of Reset and ForceOpen in a behaviour

ASSUME BreakerAssumption ==
    /\ IsFiniteSet(Callers)
    /\ FailureThreshold \in Nat \ {0}
    /\ SuccessThreshold \in Nat \ {0}
    /\ MaxRequests \in Nat
    /\ MaxPanics \in Nat
    /\ MaxAdmin \in Nat

VARIABLES
    state,      \* cb.state
    failures, successes, halfOpenCount,
    cooled,     \* more than Timeout has passed since lastFailure
    pc,         \* pc[c]: the next atomic operation of caller c
    up,         \* environment: the protected dependency does not fail
    adminLeft,  \* environment: Reset and ForceOpen calls still allowed
    panicsLeft  \* environment: panics still allowed

breakerVars == <<state, failures, successes, halfOpenCount, cooled, pc, up,
                 adminLeft, panicsLeft>>
counters == <<failures, successes, halfOpenCount>>
env == <<up, adminLeft, panicsLeft>>

\* Positions with the mutex held: the remaining stores of a state change.
InLock == {"half:successes", "half:count", "close:failures", "close:count",
           "reopen:count", "reset:failures", "reset:successes", "reset:count",
           "force:count", "force:state"}

\* Positions waiting for the mutex, with the decision already taken.
AtLock == {"toHalf", "trip", "close", "reopen"}

Positions ==
    {"idle", "checkTimeout", "reserve", "running", "succeeded", "failed",
     "clearFailures", "addSuccess", "stamp:closed", "stamp:open",
     "stamp:half", "addFailure"} \cup AtLock \cup InLock

Unlocked == \A c \in Callers : pc[c] \notin InLock

Goto(c, where) == pc' = [pc EXCEPT ![c] = where]

BreakerInit ==
    /\ state = "closed"
    /\ failures = 0 /\ successes = 0 /\ halfOpenCount = 0
    /\ cooled = TRUE
    /\ pc = [c \in Callers |-> "idle"]
    /\ up \in BOOLEAN
    /\ adminLeft = MaxAdmin /\ panicsLeft = MaxPanics

-----------------------------------------------------------------------------
(* Execute: allowRequest                                                   *)

\* state := cb.State() and the switch on it.
AllowRequest(c) ==
    /\ pc[c] = "idle"
    /\ Goto(c, CASE state = "closed" -> "running"
                 [] state = "open"   -> "checkTimeout"
                 [] state = "half"   -> "reserve")
    /\ UNCHANGED <<state, counters, cooled, env>>

\* The open branch: read lastFailure and compare with Timeout.
CheckTimeout(c) ==
    /\ pc[c] = "checkTimeout"
    /\ Goto(c, IF cooled THEN "toHalf" ELSE "idle")
    /\ UNCHANGED <<state, counters, cooled, env>>

\* Half-opening without looking at the state again under the mutex.
ToHalfUnchecked(c) ==
    /\ pc[c] = "toHalf" /\ Unlocked
    /\ state' = "half" /\ Goto(c, "half:successes")
    /\ UNCHANGED <<counters, cooled, env>>

\* mu.Lock(); still open: setState(StateHalfOpen), the two resets follow;
\* otherwise unlock and reserve all the same.
ToHalf(c) ==
    /\ pc[c] = "toHalf" /\ Unlocked
    /\ \/ state = "open" /\ state' = "half" /\ Goto(c, "half:successes")
       \/ state # "open" /\ UNCHANGED state /\ Goto(c, "reserve")
    /\ UNCHANGED <<counters, cooled, env>>

HalfResetSuccesses(c) ==
    /\ pc[c] = "half:successes"
    /\ successes' = 0
    /\ Goto(c, "half:count")
    /\ UNCHANGED <<state, failures, halfOpenCount, cooled, env>>

\* ... and mu.Unlock().
HalfResetCount(c) ==
    /\ pc[c] = "half:count"
    /\ halfOpenCount' = 0
    /\ Goto(c, "reserve")
    /\ UNCHANGED <<state, failures, successes, cooled, env>>

\* A limit test that admits one request too many.
ReserveHalfOpenOffByOne(c) ==
    /\ pc[c] = "reserve"
    /\ IF MaxRequests = 0 \/ halfOpenCount > MaxRequests
       THEN Goto(c, IF MaxRequests = 0 THEN "running" ELSE "idle")
            /\ UNCHANGED halfOpenCount
       ELSE Goto(c, "running") /\ halfOpenCount' = halfOpenCount + 1
    /\ UNCHANGED <<state, failures, successes, cooled, env>>

\* reserveHalfOpen: the load that rejects, or the compare-and-swap that wins.
\* A lost compare-and-swap changes nothing and loops.
ReserveHalfOpen(c) ==
    /\ pc[c] = "reserve"
    /\ \/ /\ MaxRequests = 0
          /\ Goto(c, "running") /\ UNCHANGED halfOpenCount
       \/ /\ MaxRequests > 0 /\ halfOpenCount >= MaxRequests
          /\ Goto(c, "idle") /\ UNCHANGED halfOpenCount
       \/ /\ MaxRequests > 0 /\ halfOpenCount < MaxRequests
          /\ Goto(c, "running") /\ halfOpenCount' = halfOpenCount + 1
    /\ UNCHANGED <<state, failures, successes, cooled, env>>

-----------------------------------------------------------------------------
(* Execute: the protected function                                         *)

\* fn returns nil.
FnSucceeds(c) ==
    /\ pc[c] = "running"
    /\ Goto(c, "succeeded")
    /\ UNCHANGED <<state, counters, cooled, env>>

\* fn returns an error.
FnFails(c) ==
    /\ pc[c] = "running" /\ ~up
    /\ Goto(c, "failed")
    /\ UNCHANGED <<state, counters, cooled, env>>

\* fn panics: Execute has no deferred call, so nothing is recorded.
FnPanics(c) ==
    /\ pc[c] = "running" /\ ~up /\ panicsLeft > 0
    /\ panicsLeft' = panicsLeft - 1
    /\ Goto(c, "idle")
    /\ UNCHANGED <<state, counters, cooled, up, adminLeft>>

-----------------------------------------------------------------------------
(* Execute: recordSuccess                                                  *)

RecordSuccess(c) ==
    /\ pc[c] = "succeeded"
    /\ Goto(c, CASE state = "closed" -> "clearFailures"
                 [] state = "half"   -> "addSuccess"
                 [] state = "open"   -> "idle")
    /\ UNCHANGED <<state, counters, cooled, env>>

ClearFailures(c) ==
    /\ pc[c] = "clearFailures"
    /\ failures' = 0
    /\ Goto(c, "idle")
    /\ UNCHANGED <<state, successes, halfOpenCount, cooled, env>>

\* A success count that must exceed the threshold.
AddSuccessStrict(c) ==
    /\ pc[c] = "addSuccess"
    /\ successes' = successes + 1
    /\ Goto(c, IF successes + 1 > SuccessThreshold THEN "close" ELSE "idle")
    /\ UNCHANGED <<state, failures, halfOpenCount, cooled, env>>

AddSuccess(c) ==
    /\ pc[c] = "addSuccess"
    /\ successes' = successes + 1
    /\ Goto(c, IF successes + 1 >= SuccessThreshold THEN "close" ELSE "idle")
    /\ UNCHANGED <<state, failures, halfOpenCount, cooled, env>>

\* Closing without the reset of the failures: straight to the last store.
CloseKeepingFailures(c) ==
    /\ pc[c] = "close" /\ Unlocked
    /\ \/ state = "half" /\ state' = "closed" /\ Goto(c, "close:count")
       \/ state # "half" /\ UNCHANGED state /\ Goto(c, "idle")
    /\ UNCHANGED <<counters, cooled, env>>

\* mu.Lock(); still half-open: setState(StateClosed), the two resets follow.
Close(c) ==
    /\ pc[c] = "close" /\ Unlocked
    /\ \/ state = "half" /\ state' = "closed" /\ Goto(c, "close:failures")
       \/ state # "half" /\ UNCHANGED state /\ Goto(c, "idle")
    /\ UNCHANGED <<counters, cooled, env>>

CloseResetFailures(c) ==
    /\ pc[c] = "close:failures"
    /\ failures' = 0
    /\ Goto(c, "close:count")
    /\ UNCHANGED <<state, successes, halfOpenCount, cooled, env>>

CloseResetCount(c) ==
    /\ pc[c] = "close:count"
    /\ halfOpenCount' = 0
    /\ Goto(c, "idle")
    /\ UNCHANGED <<state, failures, successes, cooled, env>>

-----------------------------------------------------------------------------
(* Execute: recordFailure                                                  *)

\* state := cb.State().
RecordFailure(c) ==
    /\ pc[c] = "failed"
    /\ Goto(c, CASE state = "closed" -> "stamp:closed"
                 [] state = "half"   -> "stamp:half"
                 [] state = "open"   -> "stamp:open")
    /\ UNCHANGED <<state, counters, cooled, env>>

\* lastFailure.Store(now), then the switch on the state read before.
StampFailure(c) ==
    /\ pc[c] \in {"stamp:closed", "stamp:half", "stamp:open"}
    /\ cooled' = FALSE
    /\ Goto(c, CASE pc[c] = "stamp:closed" -> "addFailure"
                 [] pc[c] = "stamp:half"   -> "reopen"
                 [] pc[c] = "stamp:open"   -> "idle")
    /\ UNCHANGED <<state, counters, env>>

AddFailure(c) ==
    /\ pc[c] = "addFailure"
    /\ failures' = failures + 1
    /\ Goto(c, IF failures + 1 >= FailureThreshold THEN "trip" ELSE "idle")
    /\ UNCHANGED <<state, successes, halfOpenCount, cooled, env>>

\* mu.Lock(); still closed: setState(StateOpen).
Trip(c) ==
    /\ pc[c] = "trip" /\ Unlocked
    /\ state' = IF state = "closed" THEN "open" ELSE state
    /\ Goto(c, "idle")
    /\ UNCHANGED <<counters, cooled, env>>

\* mu.Lock(); still half-open: setState(StateOpen), the count is reset next.
Reopen(c) ==
    /\ pc[c] = "reopen" /\ Unlocked
    /\ \/ state = "half" /\ state' = "open" /\ Goto(c, "reopen:count")
       \/ state # "half" /\ UNCHANGED state /\ Goto(c, "idle")
    /\ UNCHANGED <<counters, cooled, env>>

ReopenResetCount(c) ==
    /\ pc[c] = "reopen:count"
    /\ halfOpenCount' = 0
    /\ Goto(c, "idle")
    /\ UNCHANGED <<state, failures, successes, cooled, env>>

-----------------------------------------------------------------------------
(* Reset (and ForceClose, which calls it) and ForceOpen                    *)

Reset(c) ==
    /\ pc[c] = "idle" /\ Unlocked /\ adminLeft > 0
    /\ adminLeft' = adminLeft - 1
    /\ state' = "closed"
    /\ Goto(c, "reset:failures")
    /\ UNCHANGED <<counters, cooled, up, panicsLeft>>

ResetFailures(c) ==
    /\ pc[c] = "reset:failures"
    /\ failures' = 0
    /\ Goto(c, "reset:successes")
    /\ UNCHANGED <<state, successes, halfOpenCount, cooled, env>>

ResetSuccesses(c) ==
    /\ pc[c] = "reset:successes"
    /\ successes' = 0
    /\ Goto(c, "reset:count")
    /\ UNCHANGED <<state, failures, halfOpenCount, cooled, env>>

ResetCount(c) ==
    /\ pc[c] = "reset:count"
    /\ halfOpenCount' = 0
    /\ Goto(c, "idle")
    /\ UNCHANGED <<state, failures, successes, cooled, env>>

\* lastFailure.Store(now) under the mutex.
ForceOpen(c) ==
    /\ pc[c] = "idle" /\ Unlocked /\ adminLeft > 0
    /\ adminLeft' = adminLeft - 1
    /\ cooled' = FALSE
    /\ Goto(c, "force:count")
    /\ UNCHANGED <<state, counters, up, panicsLeft>>

ForceResetCount(c) ==
    /\ pc[c] = "force:count"
    /\ halfOpenCount' = 0
    /\ Goto(c, "force:state")
    /\ UNCHANGED <<state, failures, successes, cooled, env>>

ForceSetOpen(c) ==
    /\ pc[c] = "force:state"
    /\ state' = "open"
    /\ Goto(c, "idle")
    /\ UNCHANGED <<counters, cooled, env>>

-----------------------------------------------------------------------------
(* Environment                                                             *)

\* Timeout passes without a further failure.
Cool ==
    /\ ~cooled /\ cooled' = TRUE
    /\ UNCHANGED <<state, counters, pc, env>>

\* The dependency goes down or comes back.
EnvFlip ==
    /\ up' = ~up
    /\ UNCHANGED <<state, counters, cooled, pc, adminLeft, panicsLeft>>

Execute(c) ==
    \/ AllowRequest(c) \/ CheckTimeout(c) \/ ToHalf(c)
    \/ HalfResetSuccesses(c) \/ HalfResetCount(c) \/ ReserveHalfOpen(c)
    \/ FnSucceeds(c) \/ FnFails(c) \/ FnPanics(c)
    \/ RecordSuccess(c) \/ ClearFailures(c) \/ AddSuccess(c)
    \/ Close(c) \/ CloseResetFailures(c) \/ CloseResetCount(c)
    \/ RecordFailure(c) \/ StampFailure(c) \/ AddFailure(c)
    \/ Trip(c) \/ Reopen(c) \/ ReopenResetCount(c)

Admin(c) ==
    \/ Reset(c) \/ ForceOpen(c)
    \/ ResetFailures(c) \/ ResetSuccesses(c) \/ ResetCount(c)
    \/ ForceResetCount(c) \/ ForceSetOpen(c)

BreakerNext ==
    \/ \E c \in Callers : Execute(c) \/ Admin(c)
    \/ Cool \/ EnvFlip

BreakerSpec == BreakerInit /\ [][BreakerNext]_breakerVars

\* c goes on with the call it is in, or calls Execute again.
Continue(c) == Execute(c) \/ (Admin(c) /\ pc[c] \in InLock)

\* Time passes; goroutines are scheduled, keep calling, and get the mutex they
\* wait for (sync.RWMutex does not starve a writer); protected calls return.
\* Nobody is obliged to call Reset or ForceOpen, the dependency to recover.
BreakerFairness ==
    /\ WF_breakerVars(Cool)
    /\ \A c \in Callers : SF_breakerVars(Continue(c))

BreakerFairSpec == BreakerSpec /\ BreakerFairness

-----------------------------------------------------------------------------
\* Types; the counter halfOpenCount stays within MaxRequests under every race of
\* the compare-and-swap with the resets.  The counter only: a reset erases slots
\* that are in use, and MCBreakerProbes counts the probes themselves.
BreakerTypeOK ==
    /\ state \in {"closed", "open", "half"}
    /\ failures \in Nat /\ successes \in Nat
    /\ halfOpenCount \in 0..MaxRequests
    /\ cooled \in BOOLEAN /\ up \in BOOLEAN
    /\ pc \in [Callers -> Positions]
    /\ adminLeft \in 0..MaxAdmin /\ panicsLeft \in 0..MaxPanics

\* The state machine of the type's comment: closed -> open -> half-open ->
\* closed or open; only Reset and ForceOpen take other ways.  A decision taken
\* from a stale read never moves the breaker along another edge.
LegalTransitions ==
    [][\/ <<state, state'>> \in {<<"closed", "open">>, <<"open", "half">>,
                                 <<"half", "closed">>, <<"half", "open">>}
       \/ adminLeft' # adminLeft
       \/ \E c \in Callers : pc[c] = "force:state"]_state

\* A trip is never lost: if the breaker is closed with the threshold reached,
\* some caller is on its way to open it or the failures are about to be reset.
NoMissedTrip ==
    state = "closed" /\ failures >= FailureThreshold =>
        \E c \in Callers : pc[c] \in {"trip", "close:failures", "reset:failures"}

\* Nor is a recovery: half-open with enough successes, some caller is on its
\* way to close it or the successes are about to be reset.
NoMissedClose ==
    state = "half" /\ successes >= SuccessThreshold =>
        \E c \in Callers : pc[c] \in {"close", "half:successes"}

\* After the dependency has recovered for good, the breaker closes for good.
Recovers == <>[]up => <>[](state = "closed")
=============================================================================
