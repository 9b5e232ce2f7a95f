----------------------------- MODULE SagaProofs -----------------------------
(***************************************************************************)
(* The durable saga, for any number of steps, any set of compensable ones  *)
(* and any number of crashes, cancelled contexts and failed Saves.         *)
(*                                                                         *)
(* The safety properties relate the record in the store to the world, and  *)
(* in between stands the copy in memory that the running call works on:    *)
(* SagaInv says at every place of the call how far that copy is ahead of   *)
(* the record, and what the world may look like under a given record.      *)
(***************************************************************************)
EXTENDS DurableSaga, WellFoundedInduction, TLAPS

\* The steps before next are completed and no others have a result.
ForwardSteps(r) ==
    \A i \in Steps : r.steps[i] = IF i < r.next THEN "completed" ELSE "none"

\* The same, but step next has failed.
FailedAtNext(r) ==
    /\ r.next <= N
    /\ \A i \in Steps : r.steps[i] = IF i < r.next THEN "completed"
                                     ELSE IF i = r.next THEN "failed" ELSE "none"

\* What the store may hold.
RecordShape ==
    /\ stored.status = "running" => ForwardSteps(stored)
    /\ stored.status = "compensating" => FailedAtNext(stored)
    /\ stored = NoRecord => callPc = "idle" /\ \A i \in Steps : effect[i] = "none"
    /\ IsTerminal(stored) => callPc = "idle"

\* How the copy of the running call and the record differ.
CallShape ==
    /\ callPc \in {"resuming", "loop", "action"} =>
          /\ stored.status = "running" /\ mem.status = "running"
          /\ mem.next = stored.next /\ mem.steps = stored.steps
          /\ callPc = "action" => mem.next <= N
    /\ callPc = "saveStep" =>
          /\ stored.status = "running" /\ mem.status = "running"
          /\ mem.next = stored.next + 1 /\ ForwardSteps(mem)
    /\ callPc = "saveCompensating" =>
          /\ stored.status = "running" /\ mem.status = "compensating"
          /\ mem.next = stored.next /\ FailedAtNext(mem) /\ ~compErr
    /\ callPc = "compensate" =>
          /\ stored.status \in {"running", "compensating"}
          /\ mem.next = stored.next /\ mem.next <= N
          /\ mem.steps[mem.next] = "failed"
    /\ callPc \in {"resuming", "loop", "action", "saveStep", "idle"} => ~compErr

\* The world holds no effect of a step that the record has not come to.
WorldBehind ==
    ~IsTerminal(stored) => \A i \in Steps : effect[i] = "done" => i <= stored.next

\* In a compensation, what is neither completed nor failed has no effect left.
CompensationSound ==
    callPc = "compensate" =>
        \A i \in Steps :
            /\ i > mem.next => mem.steps[i] = "none"
            /\ i < mem.next => /\ mem.steps[i] # "none"
                               /\ mem.steps[i] = "failed" => compErr
            /\ mem.steps[i] = "compensated" /\ i \in Compensable => effect[i] # "done"

\* As long as every Save went through, the steps before next have their effect,
\* and a compensation that has begun is on record.
SavedForward ==
    sagaFaults = 0 =>
        /\ ~callCtxDone
        /\ stored.status \in {"running", "completed"} =>
              \A i \in Steps : i < stored.next => effect[i] = "done"
        /\ callPc = "saveStep" => \A i \in Steps : i < mem.next => effect[i] = "done"
        /\ stored.status = "completed" => stored.next = N + 1
        /\ callPc = "compensate" => stored.status = "compensating"

SagaInv == /\ SagaTypeOK /\ RecordShape /\ CallShape /\ WorldBehind
           /\ CompensationSound /\ SavedForward /\ RolledBack

-----------------------------------------------------------------------------
(* The last completed step exists.                                         *)

Below == {ss \in Nat \X Nat : ss[1] < ss[2]}

LEMMA BelowWellFounded == IsWellFoundedOn(Below, Nat)
<1>1. OpToRel(<, Nat) = Below
    BY Zenon DEF OpToRel, Below
<1> QED BY <1>1, NatLessThanWellFounded

LEMMA LeastNatural ==
    ASSUME NEW T \in SUBSET Nat, T # {}
    PROVE  \E x \in T : \A y \in T : x <= y
<1>1. PICK x \in T : \A y \in T : <<y, x>> \notin Below
    BY BelowWellFounded, WFMin
<1>2. ASSUME NEW y \in T PROVE x <= y
    <2>1. y < x => <<y, x>> \in Below
        BY DEF Below
    <2>2. y \in Nat /\ x \in Nat
        OBVIOUS
    <2> QED BY <1>1, <2>1, <2>2
<1> QED BY <1>2

\* compensateDurable's loop has a last completed result to start from.
LEMMA LastStep ==
    ASSUME NEW S \in SUBSET Steps, S # {}
    PROVE  Max(S) \in S /\ \A y \in S : Max(S) >= y
<1> DEFINE T == {k \in Nat : N - k \in S}
<1>1. N \in Nat
    BY SagaAssumption
<1>2. ASSUME NEW y \in S PROVE N - (N - y) = y /\ N - y \in Nat
    BY <1>1 DEF Steps
<1>3. T # {} /\ T \in SUBSET Nat
    BY <1>2
<1>4. PICK k \in T : \A j \in T : k <= j
    <2> HIDE DEF T
    <2> QED BY <1>3, LeastNatural
<1>5. ASSUME NEW y \in S PROVE N - k >= y
    <2>1. k <= N - y
        BY <1>2, <1>4
    <2>2. k \in Nat /\ y \in Nat
        BY DEF Steps
    <2> QED BY <1>1, <2>1, <2>2
<1>6. \E x \in S : \A y \in S : x >= y
    BY <1>4, <1>5
<1> QED BY <1>6 DEF Max

-----------------------------------------------------------------------------
(* The inductive invariant                                                 *)

LEMMA FreshShape == Fresh \in Records /\ ForwardSteps(Fresh) /\ Fresh.next = 1
BY SagaAssumption DEF Fresh, Records, ForwardSteps, Steps, StepStatus, Terminal

LEMMA NoRecordIsNone ==
    /\ NoRecord.status = "absent" /\ ~IsTerminal(NoRecord)
    /\ \A r \in Records : r # NoRecord
BY DEF NoRecord, IsTerminal, Terminal, Records

LEMMA InitSagaInv == SagaInit => SagaInv
<1> SUFFICES ASSUME SagaInit PROVE SagaInv
    OBVIOUS
<1>1. SagaTypeOK
    <2>1. effect \in [Steps -> {"none", "done", "undone"}] /\ mem \in Records
        BY FreshShape DEF SagaInit
    <2>2. crashes \in 0..MaxCrashes /\ sagaFaults \in 0..MaxSagaFaults
        BY SagaAssumption DEF SagaInit
    <2>3. stored \in Records \cup {NoRecord} /\ callPc \in CallPlaces
        BY DEF SagaInit, CallPlaces
    <2> QED BY <2>1, <2>2, <2>3 DEF SagaInit, SagaTypeOK
<1>2. RecordShape /\ CallShape /\ WorldBehind /\ CompensationSound /\ RolledBack
    BY NoRecordIsNone DEF SagaInit, RecordShape, CallShape, WorldBehind, CompensationSound,
                          RolledBack
<1>3. SavedForward
    BY NoRecordIsNone DEF SagaInit, SavedForward
<1> QED BY <1>1, <1>2, <1>3 DEF SagaInv

\* Nothing but the type is at stake when a call is given up with the record and
\* the world as they are: a crash, an error that is returned.
LEMMA ReturnKeeps ==
    ASSUME SagaInv, Return, UNCHANGED <<stored, effect>>,
           crashes' \in 0..MaxCrashes, sagaFaults' \in 0..MaxSagaFaults,
           sagaFaults' = 0 => sagaFaults = 0
    PROVE  SagaInv'
<1> USE DEF SagaInv, Return
<1>1. SagaTypeOK'
    BY FreshShape DEF SagaTypeOK, CallPlaces
<1>2. RecordShape'
    BY DEF RecordShape, ForwardSteps, FailedAtNext, IsTerminal
<1>3. CallShape' /\ CompensationSound' /\ RolledBack' /\ WorldBehind'
    BY DEF CallShape, CompensationSound, RolledBack, WorldBehind, IsTerminal
<1>4. SavedForward'
    BY DEF SavedForward
<1> QED BY <1>1, <1>2, <1>3, <1>4

LEMMA CancelInv == SagaInv /\ Cancel => SagaInv'
<1> SUFFICES ASSUME SagaInv, Cancel PROVE SagaInv'
    OBVIOUS
<1> USE DEF SagaInv, Cancel
<1>1. SagaTypeOK'
    BY SagaAssumption DEF SagaTypeOK
<1>2. RecordShape' /\ CallShape' /\ WorldBehind' /\ CompensationSound' /\ RolledBack'
    BY DEF RecordShape, CallShape, WorldBehind, CompensationSound, RolledBack,
           ForwardSteps, FailedAtNext, IsTerminal
<1>3. SavedForward'
    BY SagaAssumption DEF SavedForward, SagaTypeOK
<1> QED BY <1>1, <1>2, <1>3

LEMMA ExecuteInv == SagaInv /\ Execute => SagaInv'
<1> SUFFICES ASSUME SagaInv, Execute PROVE SagaInv'
    OBVIOUS
<1> USE FreshShape, NoRecordIsNone DEF SagaInv, Execute, SaveSucceeds
<1>1. Fresh.status = "running"
    BY DEF Fresh
<1>2. SagaTypeOK'
    BY DEF SagaTypeOK, CallPlaces
<1>3. RecordShape' /\ CallShape'
    BY <1>1 DEF RecordShape, CallShape, ForwardSteps, IsTerminal, Terminal
<1>4. WorldBehind' /\ CompensationSound' /\ RolledBack'
    BY <1>1 DEF RecordShape, WorldBehind, CompensationSound, RolledBack
<1>5. SavedForward'
    BY <1>1 DEF SavedForward, Steps
<1> QED BY <1>2, <1>3, <1>4, <1>5

LEMMA ResumeInv == SagaInv /\ Resume => SagaInv'
<1> SUFFICES ASSUME SagaInv, Resume PROVE SagaInv'
    OBVIOUS
<1> USE DEF SagaInv, Resume
<1>1. stored \in Records
    BY DEF SagaTypeOK
<1>2. CASE stored.status = "compensating"
    <2>1. SagaTypeOK'
        BY <1>1, <1>2 DEF SagaTypeOK, CallPlaces
    <2>2. RecordShape' /\ CallShape'
        BY <1>1, <1>2 DEF RecordShape, CallShape, FailedAtNext, IsTerminal, Terminal, Records, Steps
    <2>3. WorldBehind' /\ CompensationSound' /\ RolledBack'
        BY <1>1, <1>2 DEF RecordShape, WorldBehind, CompensationSound, RolledBack, FailedAtNext,
                   IsTerminal, Records, Steps
    <2>4. SavedForward'
        BY <1>2 DEF SavedForward
    <2> QED BY <2>1, <2>2, <2>3, <2>4
<1>3. CASE stored.status # "compensating"
    <2>1. stored.status = "running"
        BY <1>1, <1>3 DEF Records, IsTerminal
    <2>2. mem' = stored
        BY <1>1, <2>1 DEF Records
    <2>3. SagaTypeOK'
        BY <1>1, <1>3, <2>2 DEF SagaTypeOK, CallPlaces
    <2>4. RecordShape' /\ CallShape'
        BY <1>1, <1>3, <2>1, <2>2 DEF RecordShape, CallShape, ForwardSteps, IsTerminal, Terminal
    <2>5. WorldBehind' /\ CompensationSound' /\ RolledBack'
        BY <1>3, <2>1, <2>2 DEF WorldBehind, CompensationSound, RolledBack, IsTerminal
    <2>6. SavedForward'
        BY <1>3, <2>2 DEF SavedForward
    <2> QED BY <2>3, <2>4, <2>5, <2>6
<1> QED BY <1>2, <1>3

LEMMA SaveResumedInv == SagaInv /\ SaveResumed => SagaInv'
<1> SUFFICES ASSUME SagaInv, SaveResumed PROVE SagaInv'
    OBVIOUS
<1>1. CASE SaveFails /\ Return
    BY <1>1, SagaAssumption, ReturnKeeps DEF SaveResumed, SaveFails, SagaInv, SagaTypeOK
<1>2. CASE SaveSucceeds(mem) /\ callPc' = "loop" /\ UNCHANGED <<mem, callCtxDone, compErr>>
    <2> USE <1>2 DEF SagaInv, SaveResumed, SaveSucceeds
    <2>1. SagaTypeOK'
        BY DEF SagaTypeOK, CallPlaces
    <2>2. RecordShape' /\ CallShape'
        BY DEF RecordShape, CallShape, ForwardSteps, IsTerminal, Terminal, SagaTypeOK, Records,
               NoRecord
    <2>3. WorldBehind' /\ CompensationSound' /\ RolledBack'
        BY DEF CallShape, WorldBehind, CompensationSound, RolledBack, IsTerminal, Terminal
    <2>4. SavedForward'
        BY DEF SavedForward, CallShape
    <2> QED BY <2>1, <2>2, <2>3, <2>4
<1> QED BY <1>1, <1>2 DEF SaveResumed

LEMMA BeginStepInv == SagaInv /\ BeginStep => SagaInv'
BY DEF BeginStep, SagaInv, SagaTypeOK, CallPlaces, RecordShape, CallShape, WorldBehind,
       CompensationSound, SavedForward, RolledBack, ForwardSteps, FailedAtNext, IsTerminal

LEMMA StopCancelledInv == SagaInv /\ StopCancelled => SagaInv'
BY SagaAssumption, ReturnKeeps DEF StopCancelled, SaveFails, SagaInv, SagaTypeOK

\* An Action has taken effect: the copy is one step ahead of the record.
LEMMA StepSucceedsInv == SagaInv /\ StepSucceeds => SagaInv'
<1> SUFFICES ASSUME SagaInv, StepSucceeds PROVE SagaInv'
    OBVIOUS
<1> USE DEF SagaInv, StepSucceeds
<1>1. mem.next \in Steps /\ N \in Nat
    BY SagaAssumption DEF CallShape, SagaTypeOK, Records, Steps
<1>2. /\ mem'.next = mem.next + 1 /\ mem'.status = mem.status
      /\ mem'.steps = [mem.steps EXCEPT ![mem.next] = "completed"]
      /\ mem' \in Records
    <2>1. mem' = [status |-> mem.status, next |-> mem.next + 1,
                  steps |-> [mem.steps EXCEPT ![mem.next] = "completed"]]
        BY DEF SagaTypeOK, Records
    <2>2. mem.next + 1 \in 1..(N + 1)
        BY <1>1 DEF Steps
    <2>3. [mem.steps EXCEPT ![mem.next] = "completed"] \in [Steps -> StepStatus]
        BY DEF SagaTypeOK, Records, StepStatus
    <2> QED BY <2>1, <2>2, <2>3 DEF SagaTypeOK, Records
<1>3. \A i \in Steps : effect'[i] = IF i = mem.next THEN "done" ELSE effect[i]
    BY DEF SagaTypeOK
<1>4. SagaTypeOK'
    BY <1>1, <1>2 DEF SagaTypeOK, CallPlaces
<1>5. RecordShape'
    BY DEF RecordShape, ForwardSteps, FailedAtNext, IsTerminal, CallShape, NoRecord, Terminal
<1>6. ForwardSteps(mem')
    BY <1>1, <1>2 DEF ForwardSteps, CallShape, RecordShape, SagaTypeOK, Records, Steps
<1>7. CallShape'
    BY <1>2, <1>6 DEF CallShape, ForwardSteps
<1>8. WorldBehind' /\ CompensationSound'
    BY <1>1, <1>3 DEF WorldBehind, CompensationSound, CallShape, IsTerminal, Steps
<1>9. SavedForward'
    BY <1>1, <1>2, <1>3 DEF SavedForward, CallShape, Steps
<1>10. RolledBack'
    BY DEF CallShape, RolledBack
<1> QED BY <1>4, <1>5, <1>7, <1>8, <1>9, <1>10

\* An Action has reported an error, with or without its effect.
LEMMA StepFailsInv == SagaInv /\ StepFails => SagaInv'
<1> SUFFICES ASSUME SagaInv, StepFails PROVE SagaInv'
    OBVIOUS
<1> USE DEF SagaInv, StepFails
<1>1. mem.next \in Steps /\ N \in Nat
    BY SagaAssumption DEF CallShape, SagaTypeOK, Records, Steps
<1>2. /\ mem'.next = mem.next /\ mem'.status = "compensating"
      /\ mem'.steps = [mem.steps EXCEPT ![mem.next] = "failed"]
      /\ mem' \in Records
    BY <1>1 DEF SagaTypeOK, Records, Steps, StepStatus
<1>3. /\ effect' \in [Steps -> {"none", "done", "undone"}]
      /\ \A i \in Steps : i # mem.next => effect'[i] = effect[i]
    BY <1>1 DEF SagaTypeOK
<1>4. SagaTypeOK'
    BY <1>2, <1>3 DEF SagaTypeOK, CallPlaces
<1>5. RecordShape'
    BY DEF RecordShape, ForwardSteps, FailedAtNext, IsTerminal, CallShape, NoRecord, Terminal
<1>6. FailedAtNext(mem')
    BY <1>1, <1>2 DEF FailedAtNext, ForwardSteps, CallShape, RecordShape, SagaTypeOK, Records, Steps
<1>7. CallShape'
    BY <1>2, <1>6 DEF CallShape, FailedAtNext
<1>8. WorldBehind' /\ CompensationSound'
    BY <1>1, <1>3 DEF WorldBehind, CompensationSound, CallShape, IsTerminal, Steps
<1>9. SavedForward'
    BY <1>1, <1>2, <1>3 DEF SavedForward, CallShape, Steps
<1>10. RolledBack'
    BY DEF CallShape, RolledBack
<1> QED BY <1>4, <1>5, <1>7, <1>8, <1>9, <1>10

LEMMA SaveStepInv == SagaInv /\ SaveStep => SagaInv'
<1> SUFFICES ASSUME SagaInv, SaveStep PROVE SagaInv'
    OBVIOUS
<1>1. CASE SaveFails /\ Return
    BY <1>1, SagaAssumption, ReturnKeeps DEF SaveStep, SaveFails, SagaInv, SagaTypeOK
<1>2. CASE SaveSucceeds(mem) /\ callPc' = "loop" /\ UNCHANGED <<mem, callCtxDone, compErr>>
    <2> USE <1>2 DEF SagaInv, SaveStep, SaveSucceeds
    <2>1. SagaTypeOK'
        BY DEF SagaTypeOK, CallPlaces
    <2>2. RecordShape' /\ CallShape'
        BY DEF RecordShape, CallShape, ForwardSteps, IsTerminal, Terminal, SagaTypeOK, Records,
               NoRecord
    <2>3. WorldBehind' /\ CompensationSound' /\ RolledBack'
        BY DEF CallShape, WorldBehind, CompensationSound, RolledBack, IsTerminal, Terminal,
               SagaTypeOK, Records, Steps, NoRecord
    <2>4. SavedForward'
        BY DEF SavedForward, CallShape
    <2> QED BY <2>1, <2>2, <2>3, <2>4
<1> QED BY <1>1, <1>2 DEF SaveStep

\* The last Save of a run.
LEMMA CompleteInv == SagaInv /\ Complete => SagaInv'
<1> SUFFICES ASSUME SagaInv, Complete PROVE SagaInv'
    OBVIOUS
<1>1. CASE SaveFails
    BY <1>1, SagaAssumption, ReturnKeeps DEF Complete, SaveFails, SagaInv, SagaTypeOK
<1>2. CASE SaveSucceeds([mem EXCEPT !.status = "completed"])
    <2> USE <1>2 DEF SagaInv, Complete, SaveSucceeds, Return
    <2>1. /\ stored' \in Records /\ stored'.status = "completed"
          /\ stored'.next = mem.next
        BY DEF SagaTypeOK, Records, Terminal
    <2>2. SagaTypeOK'
        BY <2>1, FreshShape DEF SagaTypeOK, CallPlaces
    <2>3. RecordShape' /\ CallShape'
        BY <2>1, NoRecordIsNone DEF RecordShape, CallShape
    <2>4. WorldBehind' /\ CompensationSound' /\ RolledBack'
        BY <2>1 DEF WorldBehind, CompensationSound, RolledBack, IsTerminal, Terminal
    <2>5. SavedForward'
        <3>1. mem.next = N + 1 /\ stored.next = mem.next /\ stored.status = "running"
            BY SagaAssumption DEF SagaTypeOK, Records, CallShape
        <3> QED BY <2>1, <3>1 DEF SavedForward
    <2> QED BY <2>2, <2>3, <2>4, <2>5
<1> QED BY <1>1, <1>2 DEF Complete

\* The Save whose error is ignored: the compensation is on record or not.
LEMMA SaveCompensatingInv == SagaInv /\ SaveCompensating => SagaInv'
<1> SUFFICES ASSUME SagaInv, SaveCompensating PROVE SagaInv'
    OBVIOUS
<1> USE DEF SagaInv, SaveCompensating
<1>1. /\ FailedAtNext(mem) /\ mem.status = "compensating" /\ mem.next = stored.next
      /\ stored.status = "running" /\ mem.next \in Steps
    BY SagaAssumption DEF CallShape, FailedAtNext, SagaTypeOK, Records, Steps
<1>2. stored' = mem \/ (stored' = stored /\ sagaFaults' # 0)
    BY SagaAssumption DEF SaveSucceeds, SaveFails, SavedForward, SagaTypeOK
<1>3. SagaTypeOK'
    BY <1>2, SagaAssumption DEF SagaTypeOK, CallPlaces, SaveSucceeds, SaveFails
<1>4. RecordShape'
    BY <1>1, <1>2 DEF RecordShape, FailedAtNext, ForwardSteps, IsTerminal, Terminal, NoRecord
<1>5. CallShape'
    BY <1>1, <1>2 DEF CallShape, FailedAtNext, Steps
<1>6. WorldBehind' /\ RolledBack'
    BY <1>1, <1>2 DEF WorldBehind, RolledBack, IsTerminal, Terminal
<1>7. CompensationSound'
    BY <1>1 DEF CompensationSound, FailedAtNext, Steps
<1>8. SavedForward'
    BY <1>1, <1>2, SagaAssumption DEF SavedForward, SaveSucceeds, SaveFails, SagaTypeOK
<1> QED BY <1>3, <1>4, <1>5, <1>6, <1>7, <1>8

\* One round of compensateDurable.
LEMMA CompensateStepInv == SagaInv /\ CompensateStep => SagaInv'
<1> SUFFICES ASSUME SagaInv, CompensateStep PROVE SagaInv'
    OBVIOUS
<1> USE DEF SagaInv, CompensateStep
<1> DEFINE i == NextToCompensate(mem)
<1>1. i \in Steps /\ mem.steps[i] = "completed"
    BY LastStep DEF NextToCompensate, CompletedSteps
<1>2. Compensates(i) \/ CompensateFails(i)
    OBVIOUS
<1> HIDE DEF i
<1>3. PICK st \in {"compensated", "failed"} :
         /\ mem' = [mem EXCEPT !.steps[i] = st]
         /\ st = "failed" => compErr' = TRUE
         /\ st = "compensated" /\ i \in Compensable => effect'[i] = "undone"
    BY <1>1, <1>2 DEF Compensates, CompensateFails, SagaTypeOK
<1>4. /\ effect' \in [Steps -> {"none", "done", "undone"}]
      /\ \A j \in Steps : effect'[j] # effect[j] => j = i /\ effect'[j] = "undone"
    BY <1>1, <1>2 DEF Compensates, CompensateFails, SagaTypeOK
<1>5. compErr' \in BOOLEAN /\ (compErr => compErr')
    <2>1. compErr' = compErr \/ compErr' = TRUE
        BY <1>2 DEF Compensates, CompensateFails
    <2>2. compErr \in BOOLEAN
        BY DEF SagaTypeOK
    <2>3. compErr' \in BOOLEAN
        BY <2>1, <2>2
    <2>4. compErr => compErr'
        BY <2>1
    <2> QED BY <2>3, <2>4
<1>6. /\ mem' \in Records /\ mem'.next = mem.next /\ mem'.status = mem.status
      /\ mem'.steps = [mem.steps EXCEPT ![i] = st]
    BY <1>1, <1>3 DEF SagaTypeOK, Records, StepStatus
<1>7. SagaTypeOK'
    BY <1>4, <1>5, <1>6 DEF SagaTypeOK
<1>8. stored.status \in {"running", "compensating"} /\ ~IsTerminal(stored)
    BY DEF CallShape, IsTerminal, Terminal
<1>9. RecordShape'
    BY <1>8 DEF RecordShape, ForwardSteps, FailedAtNext, IsTerminal, NoRecord
<1>10. CallShape'
    BY <1>1, <1>6 DEF CallShape, SagaTypeOK, Records
<1>11. WorldBehind' /\ RolledBack'
    BY <1>4, <1>8 DEF WorldBehind, RolledBack, IsTerminal
<1>12. CompensationSound'
    BY <1>1, <1>3, <1>4, <1>5, <1>6 DEF CompensationSound, CallShape, SagaTypeOK, Records, Steps
<1>13. SavedForward'
    BY <1>8 DEF SavedForward
<1> QED BY <1>7, <1>9, <1>10, <1>11, <1>12, <1>13

\* The end of compensateDurable: its verdict is what the world looks like.
LEMMA FinishInv == SagaInv /\ FinishCompensation => SagaInv'
<1> SUFFICES ASSUME SagaInv, FinishCompensation PROVE SagaInv'
    OBVIOUS
<1>1. CASE SaveFails
    BY <1>1, SagaAssumption, ReturnKeeps DEF FinishCompensation, SaveFails, SagaInv, SagaTypeOK
<1>2. CASE SaveSucceeds(Verdict)
    <2> USE <1>2 DEF SagaInv, FinishCompensation, SaveSucceeds, Return
    <2>1. /\ stored' \in Records /\ stored'.next = mem.next /\ stored'.steps = mem.steps
          /\ stored'.status = IF compErr THEN "failed" ELSE "compensated"
        BY DEF Verdict, SagaTypeOK, Records, Terminal
    <2>2. SagaTypeOK'
        BY <2>1, FreshShape DEF SagaTypeOK, CallPlaces
    <2>3. RecordShape' /\ CallShape' /\ WorldBehind' /\ CompensationSound'
        BY <2>1, NoRecordIsNone
        DEF RecordShape, CallShape, WorldBehind, CompensationSound, IsTerminal, Terminal
    <2>4. SavedForward'
        BY <2>1 DEF SavedForward
    <2>5. RolledBack'
        <3> SUFFICES ASSUME ~compErr, NEW j \in Compensable, effect[j] = "done"
                     PROVE  j = mem.next /\ mem.steps[j] = "failed"
            BY <2>1 DEF RolledBack
        <3>1. j \in Steps /\ mem.steps[j] \in StepStatus \ {"completed"}
            BY SagaAssumption DEF SagaTypeOK, Records, CompletedSteps, Steps
        <3>2. j <= mem.next
            BY <3>1 DEF WorldBehind, CallShape, IsTerminal, Terminal
        <3>3. mem.next \in Int
            BY SagaAssumption DEF SagaTypeOK, Records
        <3>4. ~(j < mem.next)
            BY <3>1 DEF CompensationSound, StepStatus
        <3> QED BY <3>1, <3>2, <3>3, <3>4 DEF CallShape, Steps
    <2> QED BY <2>2, <2>3, <2>4, <2>5
<1> QED BY <1>1, <1>2 DEF FinishCompensation

LEMMA NextSagaInv == SagaInv /\ [SagaNext]_sagaVars => SagaInv'
<1>1. SagaInv /\ ProcessCrash => SagaInv'
    BY SagaAssumption, ReturnKeeps DEF ProcessCrash, SagaInv, SagaTypeOK
<1>2. SagaInv /\ UNCHANGED sagaVars => SagaInv'
    BY DEF sagaVars, SagaInv, SagaTypeOK, RecordShape, CallShape, WorldBehind, CompensationSound,
           SavedForward, RolledBack, ForwardSteps, FailedAtNext, IsTerminal
<1> QED
    BY <1>1, <1>2, CancelInv, ExecuteInv, ResumeInv, SaveResumedInv, BeginStepInv,
       StopCancelledInv, StepSucceedsInv, StepFailsInv, SaveStepInv, CompleteInv,
       SaveCompensatingInv, CompensateStepInv, FinishInv
    DEF SagaNext

-----------------------------------------------------------------------------
(* The theorems                                                            *)

\* The inductive invariant holds in every reachable state.
THEOREM SagaInvariant == SagaSpec => []SagaInv
BY InitSagaInv, NextSagaInv, PTL DEF SagaSpec

\* The record, the copy in memory and the place of the call keep their shape.
THEOREM SagaTypes == SagaSpec => []SagaTypeOK
BY SagaInvariant, PTL DEF SagaInv

\* DurableExecutor: without failed Saves, completed means that every step's
\* effect stands, for any number of crashes.
THEOREM SagaCompletedStands == SagaSpec => []CompletedStands
<1>1. SagaInv => CompletedStands
    BY SagaAssumption DEF SagaInv, SavedForward, CompletedStands, Steps
<1> QED BY SagaInvariant, <1>1, PTL

\* compensateDurable: compensated leaves at most the failed step's effect, also
\* when Saves fail and contexts are cancelled.
THEOREM SagaRolledBack == SagaSpec => []RolledBack
BY SagaInvariant, PTL DEF SagaInv

\* Actions take effect in step order as long as every Save goes through.
THEOREM SagaForwardInOrder == SagaSpec => ForwardInOrder
<1>1. SagaInv /\ [SagaNext]_sagaVars =>
        [\A i \in Steps : (effect[i] # "done" /\ effect'[i] = "done" /\ sagaFaults = 0)
                             => \A j \in 1..(i - 1) : effect[j] = "done"]_sagaVars
    <2> SUFFICES ASSUME SagaInv, SagaNext, NEW i \in Steps, effect[i] # "done",
                        effect'[i] = "done", sagaFaults = 0, NEW j \in 1..(i - 1)
                 PROVE  effect[j] = "done"
        OBVIOUS
    <2>1. CASE StepSucceeds \/ StepFails
        <3>1. callPc = "action" /\ i = mem.next
            BY <2>1 DEF StepSucceeds, StepFails, SagaInv, SagaTypeOK
        <3>2. stored.status = "running" /\ stored.next = i
            BY <3>1 DEF SagaInv, CallShape
        <3>3. j \in Steps /\ j < i
            BY SagaAssumption DEF Steps
        <3> QED BY <3>2, <3>3 DEF SagaInv, SavedForward
    <2>2. CASE CompensateStep
        BY <2>2 DEF CompensateStep, Compensates, CompensateFails, SagaInv, SagaTypeOK
    <2> QED
        BY <2>1, <2>2 DEF SagaNext, Cancel, ProcessCrash, Execute, Resume, SaveResumed, BeginStep,
           StopCancelled, SaveStep, Complete, SaveCompensating, FinishCompensation
<1> QED BY SagaInvariant, <1>1, PTL DEF SagaSpec, ForwardInOrder

\* Compensates take effect from the last step to the first.
THEOREM SagaBackwardInOrder == SagaSpec => BackwardInOrder
<1>1. SagaInv /\ [SagaNext]_sagaVars =>
        [\A i \in Steps : (effect[i] = "done" /\ effect'[i] = "undone")
                             => \A j \in Compensable \cap (i + 1)..N :
                                    effect[j] = "done" => mem.steps[j] = "failed"]_sagaVars
    <2> SUFFICES ASSUME SagaInv, SagaNext, NEW i \in Steps, effect[i] = "done",
                        effect'[i] = "undone", NEW j \in Compensable \cap (i + 1)..N,
                        effect[j] = "done"
                 PROVE  mem.steps[j] = "failed"
        OBVIOUS
    <2>1. CASE StepSucceeds \/ StepFails
        BY <2>1 DEF StepSucceeds, StepFails, SagaInv, SagaTypeOK
    <2>2. CASE CompensateStep
        <3> DEFINE k == NextToCompensate(mem)
        <3>1. i = k /\ callPc = "compensate"
            BY <2>2 DEF CompensateStep, Compensates, CompensateFails, SagaInv, SagaTypeOK
        <3>2. i \in Steps /\ \A l \in CompletedSteps(mem) : i >= l
            BY <2>2, <3>1, LastStep DEF CompensateStep, NextToCompensate, CompletedSteps
        <3>3. j \in Steps /\ i < j
            BY SagaAssumption DEF Steps
        <3>4. mem.steps[j] \in StepStatus \ {"completed"}
            BY <3>2, <3>3, SagaAssumption DEF CompletedSteps, SagaInv, SagaTypeOK, Records, Steps
        <3>5. j <= mem.next /\ mem.next \in Int
            BY <3>1, <3>3, SagaAssumption
            DEF SagaInv, WorldBehind, CallShape, IsTerminal, Terminal, SagaTypeOK, Records
        <3> QED
            BY <3>1, <3>3, <3>4, <3>5
            DEF SagaInv, CompensationSound, CallShape, StepStatus, Steps
    <2> QED
        BY <2>1, <2>2 DEF SagaNext, Cancel, ProcessCrash, Execute, Resume, SaveResumed, BeginStep,
           StopCancelled, SaveStep, Complete, SaveCompensating, FinishCompensation
<1> QED BY SagaInvariant, <1>1, PTL DEF SagaSpec, BackwardInOrder

\* A terminal record is the end: no call runs on it and none starts.
THEOREM SagaTerminalIsFinal == SagaSpec => TerminalIsFinal
<1>1. SagaInv /\ [SagaNext]_sagaVars => [IsTerminal(stored) => UNCHANGED <<stored, effect>>]_sagaVars
    <2> SUFFICES ASSUME SagaInv, SagaNext, IsTerminal(stored) PROVE UNCHANGED <<stored, effect>>
        OBVIOUS
    <2>1. callPc = "idle" /\ stored # NoRecord
        BY NoRecordIsNone DEF SagaInv, RecordShape
    <2> QED
        BY <2>1 DEF SagaNext, Cancel, ProcessCrash, Execute, Resume, SaveResumed, BeginStep,
           StopCancelled, StepSucceeds, StepFails, SaveStep, Complete, SaveCompensating,
           CompensateStep, FinishCompensation
<1> QED BY SagaInvariant, <1>1, PTL DEF SagaSpec, TerminalIsFinal
=============================================================================
