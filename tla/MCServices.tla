----------------------------- MODULE MCServices -----------------------------
(***************************************************************************)
(* Four components that share nothing, checked in one run: focus says      *)
(* which of them moves, the others stay in their initial states.           *)
(***************************************************************************)
EXTENDS EventBus, Workflow, DurableSaga, MCScheduler

VARIABLE focus

vars == <<busVars, wfVars, sagaVars, schedulerVars, focus>>

\* A workflow with every kind of state, a circle and a target that is missing.
MCStates == {"fetch", "fork", "left", "right", "pause", "decide",
             "again", "reject"}
MCType ==
    [s \in MCStates |->
        CASE s = "fork" -> "parallel" [] s = "pause" -> "wait"
          [] s = "decide" -> "choice" [] s = "reject" -> "fail"
          [] s = "again" -> "pass"
          [] OTHER -> "task"]
MCTargets ==
    [s \in MCStates |->
        CASE s = "fetch" -> {"fork"} [] s = "fork" -> {"decide"}
          [] s = "left" -> {"pause"}
          [] s = "decide" -> {"again", "reject", "nowhere", "right"}
          [] s = "again" -> {"decide"}
          [] OTHER -> {}]
MCStartAt == {"fetch", "legacy"}
MCBranches == [s \in MCStates |-> IF s = "fork" THEN {"left", "right"} ELSE {}]

Init ==
    /\ focus \in {"bus", "workflow", "saga", "scheduler"}
    /\ BusInit /\ WorkflowInit /\ SagaInit /\ SchedulerInit
    /\ focus # "bus" => ~async

Next ==
    /\ UNCHANGED focus
    /\ \/ /\ focus = "bus" /\ BusNext
          /\ UNCHANGED <<wfVars, sagaVars, schedulerVars>>
       \/ /\ focus = "workflow" /\ WorkflowNext
          /\ UNCHANGED <<busVars, sagaVars, schedulerVars>>
       \/ /\ focus = "saga" /\ SagaNext
          /\ UNCHANGED <<busVars, wfVars, schedulerVars>>
       \/ /\ focus = "scheduler" /\ SchedulerNext
          /\ UNCHANGED <<busVars, wfVars, sagaVars>>

\* Each component's own fairness: nothing it speaks of is enabled in a component
\* that has not begun to move.
Spec ==
    /\ Init /\ [][Next]_vars
    /\ BusFairness /\ WorkflowFairness /\ SagaFairness /\ SchedulerFairness

\* The state of the bus and its pool (worker_pool.go, events/adapters/memory)
\* and of the engine (workflow/adapters/memory) keeps its shape: no queue beyond
\* its capacity, no handler run twice.
TypeOK == BusTypeOK /\ WorkflowTypeOK
=============================================================================
