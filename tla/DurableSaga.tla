---------------------------- MODULE DurableSaga ----------------------------
(***************************************************************************)
(* pkg/workflow/saga: DurableExecutor (durable.go), the PersistedState it  *)
(* keeps (store.go) and the StateStore adapters it saves it to.            *)
(*                                                                         *)
(* One execution (one ID) of a saga with steps 1..N.  `stored` is what the *)
(* store holds and survives a crash; `mem` is the *PersistedState the      *)
(* running call works on; `effect` is the world outside: whether the last  *)
(* thing a step's Action or Compensate did there was to do it or to undo   *)
(* it.  Calls for one execution do not overlap: Resume is called "after a  *)
(* crash or restart" (durable.go:52), or after the previous call returned. *)
(***************************************************************************)
EXTENDS Integers, FiniteSets, FiniteSetsExt

CONSTANTS N,            \* len(saga.steps)
          Compensable,  \* the steps whose Compensate is not nil
          MaxCrashes,   \* bound on the crashes of the process
          MaxSagaFaults \* bound on cancelled contexts and failed Saves

ASSUME SagaAssumption == /\ N \in Nat \ {0}
                         /\ Compensable \subseteq 1..N
                         /\ MaxCrashes \in Nat
                         /\ MaxSagaFaults \in Nat

VARIABLES stored,       \* the record in the StateStore, or NoRecord
          mem,          \* the call's PersistedState
          callPc,       \* where the call is; "idle": no call is running
          callCtxDone,  \* ctx.Err() # nil
          compErr,      \* compensateDurable's firstErr # nil
          effect,       \* per step: what it last did to the outside world
          crashes, sagaFaults

sagaVars == <<stored, mem, callPc, callCtxDone, compErr, effect, crashes,
              sagaFaults>>

Steps == 1..N

\* PersistedState.  StatusPending is never assigned by DurableExecutor.  Step
\* results are appended in step order and a step has at most one, so the slice
\* is a function; "none" is a step without a result.  NextStepIndex counts
\* from 1 here.
StepStatus == {"none", "completed", "failed", "compensated"}

Terminal == {"completed", "compensated", "failed"}

Records == [status : {"running", "compensating"} \cup Terminal,
            next : 1..(N + 1), steps : [Steps -> StepStatus]]

Fresh == [status |-> "running", next |-> 1, steps |-> [i \in Steps |-> "none"]]

NoRecord == [status |-> "absent", next |-> 0, steps |-> <<>>]

IsTerminal(r) == r.status \in Terminal

CompletedSteps(r) == {i \in Steps : r.steps[i] = "completed"}

CallPlaces == {"idle", "resuming", "loop", "action", "saveStep",
               "saveCompensating", "compensate"}

SagaInit == /\ stored = NoRecord
            /\ mem = Fresh
            /\ callPc = "idle"
            /\ callCtxDone = FALSE
            /\ compErr = FALSE
            /\ effect = [i \in Steps |-> "none"]
            /\ crashes = 0
            /\ sagaFaults = 0

----------------------------------------------------------------------------
(* The store.  Save and Load return ctx.Err() first; the file store can    *)
(* also fail to write.  A Save is atomic (a map entry, or a rename).       *)

SaveSucceeds(r) == /\ ~callCtxDone
                   /\ stored' = r
                   /\ UNCHANGED sagaFaults

SaveFails == /\ \/ callCtxDone /\ UNCHANGED sagaFaults
                \/ /\ ~callCtxDone
                   /\ sagaFaults < MaxSagaFaults /\ sagaFaults' = sagaFaults + 1
             /\ UNCHANGED stored

\* The call returns; what it had in memory is gone for the next call.
Return == /\ callPc' = "idle"
          /\ callCtxDone' = FALSE
          /\ compErr' = FALSE
          /\ mem' = Fresh

(* The caller's context is cancelled, or its deadline passes.              *)
Cancel == /\ callPc # "idle"
          /\ ~callCtxDone
          /\ sagaFaults < MaxSagaFaults
          /\ callCtxDone' = TRUE
          /\ sagaFaults' = sagaFaults + 1
          /\ UNCHANGED <<stored, mem, callPc, compErr, effect, crashes>>

(* The process dies and all it had in memory with it.                      *)
ProcessCrash == /\ callPc # "idle"
                /\ crashes < MaxCrashes
                /\ crashes' = crashes + 1
                /\ Return
                /\ UNCHANGED <<stored, effect, sagaFaults>>

----------------------------------------------------------------------------
(* Execute: the first Save; without it the call returns an error and       *)
(* nothing has happened.                                                   *)
Execute == /\ callPc = "idle"
           /\ stored = NoRecord
           /\ SaveSucceeds(Fresh)
           /\ mem' = Fresh
           /\ callPc' = "loop"
           /\ UNCHANGED <<callCtxDone, compErr, effect, crashes>>

\* Mutant: Resume runs the saga again whatever the record says.
ResumeUnchecked ==
    /\ callPc = "idle"
    /\ stored # NoRecord
    /\ mem' = [stored EXCEPT !.status = "running"]
    /\ callPc' = "resuming"
    /\ UNCHANGED <<stored, callCtxDone, compErr, effect, crashes, sagaFaults>>

(* Resume (and ResumeAll, which calls it for what ListIncomplete returns): *)
(* Load, and go on with whichever direction the record says.               *)
Resume == /\ callPc = "idle"
          /\ stored # NoRecord
          /\ ~IsTerminal(stored)
          /\ IF stored.status = "compensating"
             THEN mem' = stored /\ callPc' = "compensate"
             ELSE mem' = [stored EXCEPT !.status = "running"] /\ callPc' = "resuming"
          /\ UNCHANGED <<stored, callCtxDone, compErr, effect, crashes, sagaFaults>>

SaveResumed == /\ callPc = "resuming"
               /\ \/ /\ SaveSucceeds(mem)
                     /\ callPc' = "loop"
                     /\ UNCHANGED <<mem, callCtxDone, compErr>>
                  \/ SaveFails /\ Return
               /\ UNCHANGED <<effect, crashes>>

----------------------------------------------------------------------------
(* runFrom.                                                                *)

BeginStep == /\ callPc = "loop"
             /\ mem.next <= N
             /\ ~callCtxDone
             /\ callPc' = "action"
             /\ UNCHANGED <<stored, mem, callCtxDone, compErr, effect, crashes,
                            sagaFaults>>

\* ctx.Err() at the top of the loop: a Save that the same ctx makes fail.
StopCancelled == /\ callPc = "loop"
                 /\ mem.next <= N
                 /\ callCtxDone
                 /\ SaveFails
                 /\ Return
                 /\ UNCHANGED <<effect, crashes>>

StepSucceeds == /\ callPc = "action"
                /\ effect' = [effect EXCEPT ![mem.next] = "done"]
                /\ mem' = [mem EXCEPT !.steps[mem.next] = "completed", !.next = @ + 1]
                /\ callPc' = "saveStep"
                /\ UNCHANGED <<stored, callCtxDone, compErr, crashes, sagaFaults>>

\* An Action that returns an error may have taken effect: a step timeout or a
\* cancelled ctx reports one for work that went through.
StepFails == /\ callPc = "action"
             /\ \E e \in {effect[mem.next], "done"} :
                    effect' = [effect EXCEPT ![mem.next] = e]
             /\ mem' = [mem EXCEPT !.steps[mem.next] = "failed", !.status = "compensating"]
             /\ callPc' = "saveCompensating"
             /\ UNCHANGED <<stored, callCtxDone, compErr, crashes, sagaFaults>>

\* Mutant: the record is saved with NextStepIndex already past the step after.
SaveStepSkipping ==
    /\ callPc = "saveStep"
    /\ SaveSucceeds([mem EXCEPT !.next = @ + 1])
    /\ callPc' = "loop"
    /\ UNCHANGED <<mem, callCtxDone, compErr, effect, crashes>>

SaveStep == /\ callPc = "saveStep"
            /\ \/ /\ SaveSucceeds(mem)
                  /\ callPc' = "loop"
                  /\ UNCHANGED <<mem, callCtxDone, compErr>>
               \/ SaveFails /\ Return
            /\ UNCHANGED <<effect, crashes>>

Complete == /\ callPc = "loop"
            /\ mem.next > N
            /\ \/ SaveSucceeds([mem EXCEPT !.status = "completed"])
               \/ SaveFails
            /\ Return
            /\ UNCHANGED <<effect, crashes>>

\* Mutant: Compensating is never persisted.
SaveCompensatingDropped ==
    /\ callPc = "saveCompensating"
    /\ callPc' = "compensate"
    /\ UNCHANGED <<stored, mem, callCtxDone, compErr, effect, crashes, sagaFaults>>

\* The error of this Save is ignored: compensation starts either way.
SaveCompensating == /\ callPc = "saveCompensating"
                    /\ SaveSucceeds(mem) \/ SaveFails
                    /\ callPc' = "compensate"
                    /\ UNCHANGED <<mem, callCtxDone, compErr, effect, crashes>>

----------------------------------------------------------------------------
(* compensateDurable: one completed result at a time from the last to the  *)
(* first; it goes on after a failed compensation, and saves once, at the   *)
(* end.                                                                    *)

\* Mutant: the loop runs from the first result to the last.
NextToCompensateForward(r) == Min(CompletedSteps(r))

NextToCompensate(r) == Max(CompletedSteps(r))

\* The step to undo and the two outcomes of its Compensate.
Compensates(i) ==
    /\ effect' = [effect EXCEPT ![i] = IF i \in Compensable THEN "undone" ELSE @]
    /\ mem' = [mem EXCEPT !.steps[i] = "compensated"]
    /\ UNCHANGED compErr

CompensateFails(i) ==
    /\ i \in Compensable
    /\ \E e \in {effect[i], "undone"} : effect' = [effect EXCEPT ![i] = e]
    /\ mem' = [mem EXCEPT !.steps[i] = "failed"]
    /\ compErr' = TRUE

CompensateStep ==
    /\ callPc = "compensate"
    /\ CompletedSteps(mem) # {}
    /\ LET i == NextToCompensate(mem) IN Compensates(i) \/ CompensateFails(i)
    /\ UNCHANGED <<stored, callPc, callCtxDone, crashes, sagaFaults>>

\* Mutant: the verdict of the loop is not looked at.
VerdictAlwaysGood == [mem EXCEPT !.status = "compensated"]

Verdict == [mem EXCEPT !.status = IF compErr THEN "failed" ELSE "compensated"]

\* Mutant: the last Save of a compensation is missing.
FinishUnsaved ==
    /\ callPc = "compensate"
    /\ CompletedSteps(mem) = {}
    /\ Return
    /\ UNCHANGED <<stored, effect, crashes, sagaFaults>>

\* The error of the last Save is ignored too.
FinishCompensation == /\ callPc = "compensate"
                      /\ CompletedSteps(mem) = {}
                      /\ SaveSucceeds(Verdict) \/ SaveFails
                      /\ Return
                      /\ UNCHANGED <<effect, crashes>>

----------------------------------------------------------------------------
SagaNext == \/ Cancel
            \/ ProcessCrash
            \/ Execute
            \/ Resume
            \/ SaveResumed
            \/ BeginStep
            \/ StopCancelled
            \/ StepSucceeds
            \/ StepFails
            \/ SaveStep
            \/ Complete
            \/ SaveCompensating
            \/ CompensateStep
            \/ FinishCompensation

\* The statements of a call that is running.
Progress == \/ SaveResumed \/ BeginStep \/ StopCancelled \/ StepSucceeds \/ StepFails
            \/ SaveStep \/ Complete \/ SaveCompensating \/ CompensateStep
            \/ FinishCompensation

SagaSpec == SagaInit /\ [][SagaNext]_sagaVars

\* A call that runs goes on (Actions and Compensates return), and whoever
\* restarts the process calls ResumeAll until nothing is incomplete.
SagaFairness == WF_sagaVars(Progress) /\ WF_sagaVars(Resume)

SagaFairSpec == SagaSpec /\ SagaFairness

----------------------------------------------------------------------------
(* Properties.                                                             *)

\* The record, the copy in memory and the place of the call agree in shape.
SagaTypeOK == /\ stored \in Records \cup {NoRecord}
              /\ mem \in Records
              /\ callPc \in CallPlaces
              /\ callCtxDone \in BOOLEAN
              /\ compErr \in BOOLEAN
              /\ effect \in [Steps -> {"none", "done", "undone"}]
              /\ crashes \in 0..MaxCrashes
              /\ sagaFaults \in 0..MaxSagaFaults

\* As long as every Save went through, a record that says completed means
\* that every step's effect stands, whatever crashes there were in between
\* and however often a step ran.
CompletedStands == (sagaFaults = 0 /\ stored.status = "completed")
                        => \A i \in Steps : effect[i] = "done"

\* The same without the condition on Saves and contexts: doc.go and
\* durable.go promise persisted progress and a Resume that goes on from it.
CompletedAlwaysStands ==
    stored.status = "completed" => \A i \in Steps : effect[i] = "done"

\* A record that says compensated leaves in effect at most one step that had
\* a Compensate: the one whose Action reported an error.  compensateDurable
\* undoes results that say completed and no others, so a step that ran before
\* a crash and failed when it was run again is not undone.
RolledBack == stored.status = "compensated" =>
                  \A i \in Compensable :
                      effect[i] = "done" => i = stored.next /\ stored.steps[i] = "failed"

\* A step's Action takes effect for the first time, or again after it was
\* undone, only on top of all the steps before it.
ForwardInOrder == [][ \A i \in Steps :
                          (effect[i] # "done" /\ effect'[i] = "done" /\ sagaFaults = 0)
                              => \A j \in 1..(i - 1) : effect[j] = "done" ]_sagaVars

\* Nothing is undone under a later step: when a Compensate takes effect, the
\* later compensable steps are undone, except one that reported an error.
BackwardInOrder == [][ \A i \in Steps :
                           (effect[i] = "done" /\ effect'[i] = "undone")
                               => \A j \in Compensable \cap (i + 1)..N :
                                      effect[j] = "done" => mem.steps[j] = "failed" ]_sagaVars

\* Once the store holds a terminal record the execution is over: no Resume,
\* late Save or compensation changes the record or the world again.
TerminalIsFinal == [][ IsTerminal(stored) => UNCHANGED <<stored, effect>> ]_sagaVars

\* Every execution that was persisted reaches a terminal record, through
\* crashes, cancelled contexts and failed Saves, as long as these end.
Settles == (stored # NoRecord) ~> IsTerminal(stored)
=============================================================================
