------------------------------ MODULE Workflow ------------------------------
(***************************************************************************)
(* The in-memory workflow engine, pkg/workflow/adapters/memory/memory.go:  *)
(* Start, the goroutine of runExecution with the branches of a parallel    *)
(* state, Cancel, the timeout, and Wait.                                   *)
(*                                                                         *)
(* Data are left out: a handler succeeds or fails, a choice takes any of   *)
(* its targets or none.  A branch has no parallel state in it, handlers    *)
(* return, and every execution has a timeout (with none, its ctx is the    *)
(* caller's).                                                              *)
(***************************************************************************)
EXTENDS Integers, FiniteSets

CONSTANTS
    Execs,     \* execution IDs
    Waiters,   \* goroutines that call Wait
    States,    \* names of states
    Type,      \* Type[s]: "task", "wait", "choice", "parallel", "pass", "fail"
    Targets,   \* Targets[s]: Next, or the targets of a choice; {} for End
    Branches,  \* Branches[s]: where the branches of a parallel state start
    StartAt,   \* where the registered workflows start
    Legacy     \* the StartAt of a workflow without states

ASSUME WorkflowAssumption == "none" \notin Execs

VARIABLES
    status,    \* status[e]: exec.Status, "none" before Start
    runner,    \* runner[e]: where runExecution is, see Positions
    current,   \* current[e]: its state, Legacy before Start
    begun,     \* history: how many states the loop has begun after the end
    branch,    \* branch[e][s]: the branch that started at s: its position
    ctxDone,   \* the executions whose ctx has ended: timeout or cancel()
    waiter     \* waiter[w]: the execution w waits for and what is in its channel

wfVars == <<status, runner, current, begun, branch, ctxDone, waiter>>

\* top: at the ctx test.  check: at the status test.  begin, busy: in a state.
\* join: in execParallel.  Otherwise the verdict finish is called with, or off.
Verdicts == {"completed", "failed", "timedout"}
Positions == {"off", "top", "check", "begin", "busy", "join"} \cup Verdicts

Starts == UNION {Branches[s] : s \in States}
NotWaiting == [on |-> "none", got |-> "none"]

WorkflowInit ==
    /\ status = [e \in Execs |-> "none"]
    /\ runner = [e \in Execs |-> "off"]
    /\ current = [e \in Execs |-> Legacy]
    /\ begun = [e \in Execs |-> 0]
    /\ branch = [e \in Execs |-> [s \in Starts |-> "off"]]
    /\ ctxDone = {}
    /\ waiter = [w \in Waiters |-> NotWaiting]

Goto(e, p) == runner' = [runner EXCEPT ![e] = p]

\* Start of a new execution of the workflow that starts at s.  A known key
\* returns the execution it names and a known ID is refused: nothing changes.
Start(e, s) ==
    /\ status[e] = "none"
    /\ status' = [status EXCEPT ![e] = "running"]
    /\ current' = [current EXCEPT ![e] = s]
    /\ Goto(e, IF s = Legacy THEN "busy" ELSE "top")
    /\ UNCHANGED <<begun, branch, ctxDone, waiter>>

\* The timeout of the execution, while its runner is there to use the ctx.
Timeout(e) ==
    /\ runner[e] # "off"
    /\ ctxDone' = ctxDone \cup {e}
    /\ UNCHANGED <<status, runner, current, begun, branch, waiter>>

\* A loop that forgets the ctx between two states.
TopUnchecked(e) ==
    /\ runner[e] = "top"
    /\ Goto(e, "check")
    /\ UNCHANGED <<status, current, begun, branch, ctxDone, waiter>>

\* The head of the loop: the ctx.
Top(e) ==
    /\ runner[e] = "top"
    /\ Goto(e, IF e \in ctxDone THEN "timedout" ELSE "check")
    /\ UNCHANGED <<status, current, begun, branch, ctxDone, waiter>>

\* A loop that does not look at the status.
CheckSkipped(e) ==
    /\ runner[e] = "check"
    /\ Goto(e, "begin")
    /\ UNCHANGED <<status, current, begun, branch, ctxDone, waiter>>

\* Under the lock: stop if the execution is over.  The deferred cancel() ends
\* the ctx.
Check(e) ==
    /\ runner[e] = "check"
    /\ \/ status[e] = "running" /\ Goto(e, "begin") /\ UNCHANGED ctxDone
       \/ status[e] # "running" /\ Goto(e, "off") /\ ctxDone' = ctxDone \cup {e}
    /\ UNCHANGED <<status, current, begun, branch, waiter>>

\* An unknown state and a fail state end the execution; a parallel state starts
\* its branches.
Begin(e) ==
    LET s == current[e] IN
    /\ runner[e] = "begin"
    /\ begun' = [begun EXCEPT ![e] = IF status[e] = "running" THEN @ ELSE @ + 1]
    /\ \/ /\ s \notin States
          /\ Goto(e, "failed") /\ UNCHANGED branch
       \/ /\ s \in States /\ Type[s] = "fail"
          /\ Goto(e, "failed") /\ UNCHANGED branch
       \/ /\ s \in States /\ Type[s] \in {"task", "wait", "choice", "pass"}
          /\ Goto(e, "busy") /\ UNCHANGED branch
       \/ /\ s \in States /\ Type[s] = "parallel"
          /\ Goto(e, "join")
          /\ branch' = [branch EXCEPT ![e] =
                          [b \in Starts |-> IF b \in Branches[s] THEN b ELSE @[b]]]
    /\ UNCHANGED <<status, current, ctxDone, waiter>>

\* A state that has no successor; a choice without a match is an error.
IsEnd(s) == s = Legacy \/ (Type[s] # "choice" /\ Targets[s] = {})

\* A state ends well: the execution is complete, or goes on.
Succeeds(e) ==
    LET s == current[e] IN
    IF IsEnd(s)
    THEN Goto(e, "completed") /\ UNCHANGED current
    ELSE /\ \E t \in Targets[s] : current' = [current EXCEPT ![e] = t]
         /\ Goto(e, "top")

\* A state ends with an error: the ctx decides what it is called.
Fails(e) ==
    /\ Goto(e, IF e \in ctxDone THEN "timedout" ELSE "failed")
    /\ UNCHANGED current

CanFail(s) == Type[s] \in {"task", "choice"}

\* A wait and the legacy sleep end with the ctx.
Sleeps(s) == IF s = Legacy THEN TRUE ELSE Type[s] = "wait"

\* The handler returns, the wait is over, a choice has been made.
EndState(e) ==
    LET s == current[e] IN
    /\ runner[e] = "busy"
    /\ \/ Succeeds(e)
       \/ ~Sleeps(s) /\ CanFail(s) /\ Fails(e)
       \/ Sleeps(s) /\ e \in ctxDone /\ Fails(e)
    /\ UNCHANGED <<status, begun, branch, ctxDone, waiter>>

\* execParallel: the first error ends it, the other branches go on by
\* themselves; otherwise all results are needed.
Join(e) ==
    LET bs == Branches[current[e]] IN
    /\ runner[e] = "join"
    /\ \/ (\E b \in bs : branch[e][b] = "error") /\ Fails(e)
       \/ (\A b \in bs : branch[e][b] = "ok") /\ Succeeds(e)
    /\ UNCHANGED <<status, begun, branch, ctxDone, waiter>>

\* What a state of a branch leads to: another state, or the branch's result.
Outcomes(s) ==
    IF s \notin States \/ Type[s] = "fail" THEN {"error"}
    ELSE (IF IsEnd(s) THEN {"ok"} ELSE Targets[s])
         \cup (IF CanFail(s) THEN {"error"} ELSE {})

\* One state of runBranch, from its ctx test to the next.
BranchStep(e, b) ==
    LET s == branch[e][b] IN
    /\ s \notin {"off", "ok", "error"}
    /\ \E p \in IF e \in ctxDone THEN {"error"} ELSE Outcomes(s) :
          branch' = [branch EXCEPT ![e][b] = p]
    /\ UNCHANGED <<status, runner, current, begun, ctxDone, waiter>>

\* notifyWaitersLocked: every channel of the execution gets the result.
Notify(e, st) ==
    waiter' = [w \in Waiters |->
                 IF waiter[w].on = e THEN [waiter[w] EXCEPT !.got = st] ELSE waiter[w]]

\* finish: only a running execution gets the verdict.  runExecution returns.
Finish(e) ==
    /\ runner[e] \in Verdicts
    /\ \/ /\ status[e] = "running"
          /\ status' = [status EXCEPT ![e] = runner[e]]
          /\ Notify(e, runner[e])
       \/ status[e] # "running" /\ UNCHANGED <<status, waiter>>
    /\ Goto(e, "off")
    /\ ctxDone' = ctxDone \cup {e}
    /\ UNCHANGED <<current, begun, branch>>

\* A Cancel that leaves the waiters to the runner.
CancelQuietly(e) ==
    /\ status[e] = "running"
    /\ status' = [status EXCEPT ![e] = "cancelled"]
    /\ UNCHANGED <<runner, current, begun, branch, ctxDone, waiter>>

\* Cancel: the status and the waiters; the runner is not told.
CancelExecution(e) ==
    /\ status[e] = "running"
    /\ status' = [status EXCEPT ![e] = "cancelled"]
    /\ Notify(e, "cancelled")
    /\ UNCHANGED <<runner, current, begun, branch, ctxDone>>

Over(e) == status[e] \in Verdicts \cup {"cancelled"}

\* Wait for an execution that is not over (for one that is, it returns at once).
Wait(w, e) ==
    /\ waiter[w] = NotWaiting /\ status[e] = "running"
    /\ waiter' = [waiter EXCEPT ![w].on = e]
    /\ UNCHANGED <<status, runner, current, begun, branch, ctxDone>>

\* Wait returns: the result is there, or its own ctx has ended.
WaitReturns(w) ==
    /\ waiter[w].got # "none"
    /\ waiter' = [waiter EXCEPT ![w] = NotWaiting]
    /\ UNCHANGED <<status, runner, current, begun, branch, ctxDone>>

WaitCtxDone(w) ==
    /\ waiter[w].on # "none"
    /\ waiter' = [waiter EXCEPT ![w] = NotWaiting]
    /\ UNCHANGED <<status, runner, current, begun, branch, ctxDone>>

RunExecution(e) ==
    Top(e) \/ Check(e) \/ Begin(e) \/ EndState(e) \/ Join(e) \/ Finish(e)

WorkflowNext ==
    \/ \E e \in Execs :
          \/ \E s \in StartAt : Start(e, s)
          \/ RunExecution(e) \/ Timeout(e) \/ CancelExecution(e)
          \/ \E b \in Starts : BranchStep(e, b)
          \/ \E w \in Waiters : Wait(w, e)
    \/ \E w \in Waiters : WaitReturns(w) \/ WaitCtxDone(w)

WorkflowSpec == WorkflowInit /\ [][WorkflowNext]_wfVars

\* The goroutines of an execution go on and its timer fires.  Nobody is obliged
\* to cancel, to wait or to start.
WorkflowFairness ==
    \A e \in Execs :
        /\ WF_wfVars(RunExecution(e))
        /\ WF_wfVars(Timeout(e))
        /\ \A b \in Starts : WF_wfVars(BranchStep(e, b))

-----------------------------------------------------------------------------
Statuses == {"none", "running", "cancelled"} \cup Verdicts

WorkflowTypeOK ==
    /\ status \in [Execs -> Statuses]
    /\ runner \in [Execs -> Positions]
    /\ ctxDone \in SUBSET Execs
    /\ waiter \in [Waiters -> [on : Execs \cup {"none"}, got : Statuses]]

\* No waiter is left behind: once an execution is over, by its runner or by a
\* Cancel that raced with it, every goroutine still in Wait has the final
\* status in its channel.
NoLostWaiter ==
    \A w \in Waiters : LET e == waiter[w].on IN
        e # "none" /\ Over(e) => waiter[w].got = status[e]

\* After Cancel the runner, which nobody tells, begins at most the state whose
\* status test it has already passed.
CancelStopsLoop == \A e \in Execs : begun[e] <= 1

\* Every execution ends, also one whose choices go round in a circle: the
\* timeout is tested between two states.
ExecutionEnds == \A e \in Execs : status[e] = "running" ~> Over(e)
=============================================================================
