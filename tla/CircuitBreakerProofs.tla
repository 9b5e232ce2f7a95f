------------------------ MODULE CircuitBreakerProofs ------------------------
(***************************************************************************)
(* Proofs about CircuitBreaker for every number of callers and every       *)
(* configuration of the thresholds.                                        *)
(***************************************************************************)
EXTENDS CircuitBreaker, TLAPS

\* The two hand-over invariants are inductive together with the types: whoever
\* takes a counter across its threshold is the one that goes for the mutex.
BreakerInv == BreakerTypeOK /\ NoMissedTrip /\ NoMissedClose

\* Initially nothing is counted and everybody is idle.
LEMMA BreakerInvInit == BreakerInit => BreakerInv
  BY BreakerAssumption
     DEF BreakerInit, BreakerInv, BreakerTypeOK, NoMissedTrip, NoMissedClose, Positions

\* The types survive every step of a caller inside Execute.
LEMMA ExecuteTypes ==
    ASSUME BreakerTypeOK, NEW c \in Callers, Execute(c)
    PROVE  BreakerTypeOK'
  <1> USE BreakerAssumption DEF BreakerTypeOK, Goto, Positions, AtLock, InLock,
          counters, env
  <1>1. CASE AllowRequest(c) \/ CheckTimeout(c) \/ ToHalf(c)
    BY <1>1 DEF AllowRequest, CheckTimeout, ToHalf
  <1>2. CASE HalfResetSuccesses(c) \/ HalfResetCount(c)
    BY <1>2 DEF HalfResetSuccesses, HalfResetCount
  <1>3. CASE ReserveHalfOpen(c)
    BY <1>3 DEF ReserveHalfOpen
  <1>4. CASE FnSucceeds(c) \/ FnFails(c)
    BY <1>4 DEF FnSucceeds, FnFails
  <1>11. CASE FnPanics(c)
    BY <1>11 DEF FnPanics
  <1>5. CASE RecordSuccess(c) \/ ClearFailures(c)
    BY <1>5 DEF RecordSuccess, ClearFailures
  <1>6. CASE AddSuccess(c)
    BY <1>6 DEF AddSuccess
  <1>7. CASE Close(c) \/ CloseResetFailures(c) \/ CloseResetCount(c)
    BY <1>7 DEF Close, CloseResetFailures, CloseResetCount
  <1>8. CASE RecordFailure(c) \/ StampFailure(c)
    BY <1>8 DEF RecordFailure, StampFailure
  <1>9. CASE AddFailure(c)
    BY <1>9 DEF AddFailure
  <1>10. CASE Trip(c) \/ Reopen(c) \/ ReopenResetCount(c)
    BY <1>10 DEF Trip, Reopen, ReopenResetCount
  <1> QED BY <1>1, <1>2, <1>3, <1>4, <1>5, <1>6, <1>7, <1>8, <1>9, <1>10,
             <1>11
          DEF Execute

\* ... and of a caller inside Reset or ForceOpen.
LEMMA AdminTypes ==
    ASSUME BreakerTypeOK, NEW c \in Callers, Admin(c)
    PROVE  BreakerTypeOK'
  <1> USE BreakerAssumption DEF BreakerTypeOK, Goto, Positions, AtLock, InLock,
          counters, env
  <1>1. CASE Reset(c)
    BY <1>1 DEF Reset
  <1>4. CASE ForceOpen(c)
    <2>1. adminLeft' \in 0..MaxAdmin /\ pc' \in [Callers -> Positions]
      BY <1>4 DEF ForceOpen
    <2>2. cooled' \in BOOLEAN /\ UNCHANGED <<state, counters, up, panicsLeft>>
      BY <1>4 DEF ForceOpen
    <2> QED BY <2>1, <2>2
  <1>2. CASE ResetFailures(c) \/ ResetSuccesses(c) \/ ResetCount(c)
    BY <1>2 DEF ResetFailures, ResetSuccesses, ResetCount
  <1>3. CASE ForceResetCount(c) \/ ForceSetOpen(c)
    BY <1>3 DEF ForceResetCount, ForceSetOpen
  <1> QED BY <1>1, <1>2, <1>3, <1>4 DEF Admin

\* A step of one caller leaves the others where they are.
LEMMA OnlyOneMoves ==
    ASSUME BreakerTypeOK, NEW c \in Callers, Execute(c) \/ Admin(c)
    PROVE  \A d \in Callers \ {c} : pc'[d] = pc[d]
  BY DEF BreakerTypeOK, Goto, Execute, Admin, AllowRequest, CheckTimeout, ToHalf,
         HalfResetSuccesses, HalfResetCount, ReserveHalfOpen, FnSucceeds,
         FnFails, FnPanics, RecordSuccess, ClearFailures, AddSuccess, Close,
         CloseResetFailures, CloseResetCount, RecordFailure, StampFailure,
         AddFailure, Trip, Reopen, ReopenResetCount, Reset, ResetFailures,
         ResetSuccesses, ResetCount, ForceOpen, ForceResetCount, ForceSetOpen

\* A caller that leaves the hand-over positions has tripped the breaker, found
\* it not closed, or reset the failures; one that reaches the threshold or
\* closes the breaker enters them.
LEMMA TripStep ==
    ASSUME BreakerTypeOK, NoMissedTrip, NEW c \in Callers, Execute(c) \/ Admin(c)
    PROVE  NoMissedTrip'
  <1> DEFINE H == {"trip", "close:failures", "reset:failures"}
  <1>1. \A d \in Callers \ {c} : pc'[d] = pc[d]
    BY OnlyOneMoves
  <1>2. \/ pc'[c] \in H
        \/ failures' < FailureThreshold
        \/ state' # "closed"
        \/ pc[c] \notin H /\ state = "closed" /\ failures' = failures
    <2> USE BreakerAssumption DEF BreakerTypeOK, Goto, counters, env
    <2>1. CASE AllowRequest(c) \/ CheckTimeout(c) \/ ToHalf(c)
      BY <2>1 DEF AllowRequest, CheckTimeout, ToHalf
    <2>2. CASE HalfResetSuccesses(c) \/ HalfResetCount(c) \/ ReserveHalfOpen(c)
      BY <2>2 DEF HalfResetSuccesses, HalfResetCount, ReserveHalfOpen
    <2>3. CASE FnSucceeds(c) \/ FnFails(c) \/ FnPanics(c)
      BY <2>3 DEF FnSucceeds, FnFails, FnPanics
    <2>4. CASE RecordSuccess(c) \/ ClearFailures(c) \/ AddSuccess(c)
      BY <2>4 DEF RecordSuccess, ClearFailures, AddSuccess
    <2>5. CASE Close(c) \/ CloseResetFailures(c) \/ CloseResetCount(c)
      BY <2>5 DEF Close, CloseResetFailures, CloseResetCount
    <2>6. CASE RecordFailure(c) \/ StampFailure(c)
      BY <2>6 DEF RecordFailure, StampFailure
    <2>7. CASE AddFailure(c)
      BY <2>7 DEF AddFailure
    <2>8. CASE Trip(c) \/ Reopen(c) \/ ReopenResetCount(c)
      BY <2>8 DEF Trip, Reopen, ReopenResetCount
    <2>9. CASE Admin(c)
      BY <2>9 DEF Admin, Reset, ResetFailures, ResetSuccesses, ResetCount,
                  ForceOpen, ForceResetCount, ForceSetOpen
    <2> QED BY <2>1, <2>2, <2>3, <2>4, <2>5, <2>6, <2>7, <2>8, <2>9
            DEF Execute
  <1>3. failures' \in Nat
    BY ExecuteTypes, AdminTypes DEF BreakerTypeOK
  <1> SUFFICES ASSUME state' = "closed", failures' >= FailureThreshold
               PROVE  \E d \in Callers : pc'[d] \in H
    BY DEF NoMissedTrip
  <1>4. CASE pc'[c] \in H
    BY <1>4
  <1>5. CASE pc[c] \notin H /\ state = "closed" /\ failures' = failures
    <2>1. PICK d \in Callers : pc[d] \in H
      BY <1>5 DEF NoMissedTrip
    <2>2. pc'[d] = pc[d]
      BY <1>1, <1>5, <2>1
    <2> QED BY <2>1, <2>2
  <1>6. ~(failures' < FailureThreshold)
    BY <1>3, BreakerAssumption
  <1> QED BY <1>2, <1>4, <1>5, <1>6

\* The same for the way back: closing, or starting the successes afresh.
LEMMA CloseStep ==
    ASSUME BreakerTypeOK, NoMissedClose, NEW c \in Callers, Execute(c) \/ Admin(c)
    PROVE  NoMissedClose'
  <1> DEFINE H == {"close", "half:successes"}
  <1>1. \A d \in Callers \ {c} : pc'[d] = pc[d]
    BY OnlyOneMoves
  <1>2. \/ pc'[c] \in H
        \/ successes' < SuccessThreshold
        \/ state' # "half"
        \/ pc[c] \notin H /\ state = "half" /\ successes' = successes
    <2> USE BreakerAssumption DEF BreakerTypeOK, Goto, counters, env
    <2>1. CASE AllowRequest(c) \/ CheckTimeout(c) \/ ToHalf(c)
      BY <2>1 DEF AllowRequest, CheckTimeout, ToHalf
    <2>2. CASE HalfResetSuccesses(c) \/ HalfResetCount(c) \/ ReserveHalfOpen(c)
      BY <2>2 DEF HalfResetSuccesses, HalfResetCount, ReserveHalfOpen
    <2>3. CASE FnSucceeds(c) \/ FnFails(c) \/ FnPanics(c)
      BY <2>3 DEF FnSucceeds, FnFails, FnPanics
    <2>4. CASE RecordSuccess(c) \/ ClearFailures(c)
      BY <2>4 DEF RecordSuccess, ClearFailures
    <2>5. CASE AddSuccess(c)
      BY <2>5 DEF AddSuccess
    <2>6. CASE Close(c) \/ CloseResetFailures(c) \/ CloseResetCount(c)
      BY <2>6 DEF Close, CloseResetFailures, CloseResetCount
    <2>7. CASE RecordFailure(c) \/ StampFailure(c) \/ AddFailure(c)
      BY <2>7 DEF RecordFailure, StampFailure, AddFailure
    <2>8. CASE Trip(c) \/ Reopen(c) \/ ReopenResetCount(c)
      BY <2>8 DEF Trip, Reopen, ReopenResetCount
    <2>9. CASE Admin(c)
      BY <2>9 DEF Admin, Reset, ResetFailures, ResetSuccesses, ResetCount,
                  ForceOpen, ForceResetCount, ForceSetOpen
    <2> QED BY <2>1, <2>2, <2>3, <2>4, <2>5, <2>6, <2>7, <2>8, <2>9
            DEF Execute
  <1>3. successes' \in Nat
    BY ExecuteTypes, AdminTypes DEF BreakerTypeOK
  <1> SUFFICES ASSUME state' = "half", successes' >= SuccessThreshold
               PROVE  \E d \in Callers : pc'[d] \in H
    BY DEF NoMissedClose
  <1>4. CASE pc'[c] \in H
    BY <1>4
  <1>5. CASE pc[c] \notin H /\ state = "half" /\ successes' = successes
    <2>1. PICK d \in Callers : pc[d] \in H
      BY <1>5 DEF NoMissedClose
    <2>2. pc'[d] = pc[d]
      BY <1>1, <1>5, <2>1
    <2> QED BY <2>1, <2>2
  <1>6. ~(successes' < SuccessThreshold)
    BY <1>3, BreakerAssumption
  <1> QED BY <1>2, <1>4, <1>5, <1>6

\* Time and the environment do not touch the breaker's bookkeeping.
LEMMA EnvironmentStep ==
    ASSUME BreakerInv, Cool \/ EnvFlip \/ UNCHANGED breakerVars
    PROVE  BreakerInv'
  BY DEF BreakerInv, BreakerTypeOK, NoMissedTrip, NoMissedClose, Cool, EnvFlip, breakerVars,
         counters, env

\* The inductive invariant holds in every reachable state.
THEOREM BreakerInvariant == BreakerSpec => []BreakerInv
  <1>1. BreakerInit => BreakerInv
    BY BreakerInvInit
  <1>2. BreakerInv /\ [BreakerNext]_breakerVars => BreakerInv'
    <2> SUFFICES ASSUME BreakerInv, [BreakerNext]_breakerVars
                 PROVE  BreakerInv'
      OBVIOUS
    <2>1. ASSUME NEW c \in Callers, Execute(c) \/ Admin(c)
          PROVE  BreakerInv'
      <3>1. BreakerTypeOK /\ NoMissedTrip /\ NoMissedClose
        BY DEF BreakerInv
      <3>2. BreakerTypeOK'
        BY <2>1, <3>1, ExecuteTypes, AdminTypes
      <3>3. NoMissedTrip'
        BY <2>1, <3>1, TripStep
      <3>4. NoMissedClose'
        BY <2>1, <3>1, CloseStep
      <3> QED BY <3>2, <3>3, <3>4 DEF BreakerInv
    <2>2. CASE Cool \/ EnvFlip \/ UNCHANGED breakerVars
      BY <2>2, EnvironmentStep
    <2> QED BY <2>1, <2>2 DEF BreakerNext
  <1> QED BY <1>1, <1>2, PTL DEF BreakerSpec

\* Types; in particular the reservations never exceed MaxRequests.
THEOREM BreakerTypeCorrect == BreakerSpec => []BreakerTypeOK
  <1>1. BreakerInv => BreakerTypeOK
    BY DEF BreakerInv
  <1> QED BY <1>1, BreakerInvariant, PTL

\* recordFailure: reaching FailureThreshold is never forgotten.
THEOREM BreakerNoMissedTrip == BreakerSpec => []NoMissedTrip
  <1>1. BreakerInv => NoMissedTrip
    BY DEF BreakerInv
  <1> QED BY <1>1, BreakerInvariant, PTL

\* recordSuccess: reaching SuccessThreshold is never forgotten.
THEOREM BreakerNoMissedClose == BreakerSpec => []NoMissedClose
  <1>1. BreakerInv => NoMissedClose
    BY DEF BreakerInv
  <1> QED BY <1>1, BreakerInvariant, PTL

\* Every change of state that Execute makes follows an edge of the documented
\* state machine, however stale the read it was decided on.
THEOREM BreakerLegalTransitions == BreakerSpec => LegalTransitions
  <1> DEFINE Edge ==
        \/ <<state, state'>> \in {<<"closed", "open">>, <<"open", "half">>,
                                  <<"half", "closed">>, <<"half", "open">>}
        \/ adminLeft' # adminLeft
        \/ \E c \in Callers : pc[c] = "force:state"
  <1>1. BreakerInv /\ [BreakerNext]_breakerVars => [Edge]_state
    <2> SUFFICES ASSUME BreakerInv, [BreakerNext]_breakerVars, state' # state
                 PROVE  Edge
      OBVIOUS
    <2> USE BreakerAssumption DEF BreakerInv, BreakerTypeOK, Goto, counters, env
    <2>1. ASSUME NEW c \in Callers, Execute(c)
          PROVE  Edge
      <3>1. CASE ToHalf(c)
        BY <3>1 DEF ToHalf
      <3>2. CASE Close(c)
        BY <3>2 DEF Close
      <3>3. CASE Trip(c)
        BY <3>3 DEF Trip
      <3>4. CASE Reopen(c)
        BY <3>4 DEF Reopen
      <3> QED BY <2>1, <3>1, <3>2, <3>3, <3>4
              DEF Execute, AllowRequest, CheckTimeout, HalfResetSuccesses,
                  HalfResetCount, ReserveHalfOpen, FnSucceeds, FnFails,
                  FnPanics, RecordSuccess, ClearFailures, AddSuccess,
                  CloseResetFailures, CloseResetCount, RecordFailure,
                  StampFailure, AddFailure, ReopenResetCount
    <2>2. ASSUME NEW c \in Callers, Admin(c)
          PROVE  Edge
      BY <2>2 DEF Admin, Reset, ResetFailures, ResetSuccesses, ResetCount,
                  ForceOpen, ForceResetCount, ForceSetOpen
    <2>3. CASE Cool \/ EnvFlip \/ UNCHANGED breakerVars
      BY <2>3 DEF Cool, EnvFlip, breakerVars
    <2> QED BY <2>1, <2>2, <2>3 DEF BreakerNext
  <1> QED BY <1>1, BreakerInvariant, PTL DEF BreakerSpec, LegalTransitions
=============================================================================
