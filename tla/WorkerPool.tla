----------------------------- MODULE WorkerPool -----------------------------
(***************************************************************************)
(* pkg/concurrency/worker_pool.go: a bounded channel of tasks and workers  *)
(* that take them until the channel is closed and empty, or until their    *)
(* context ends.  The adaptive limiter, which the event bus does not use,  *)
(* is left out.                                                            *)
(***************************************************************************)
EXTENDS Integers, Sequences, FiniteSets

CONSTANTS Workers,   \* the goroutines of Start
          QueueSize, \* the capacity of taskQueue
          NoTask,    \* a worker without a task
          Gone       \* a worker that has returned

ASSUME PoolAssumption == QueueSize \in Nat /\ NoTask # Gone

VARIABLES
    taskQueue,    \* the tasks in the channel
    queueClosed,  \* close(taskQueue)
    poolDone,     \* the workers' ctx is done
    task          \* task[w]: what w runs, NoTask, or Gone

poolVars == <<taskQueue, queueClosed, poolDone, task>>

PoolInit ==
    /\ taskQueue = <<>>
    /\ queueClosed = FALSE
    /\ poolDone = FALSE
    /\ task = [w \in Workers |-> NoTask]

\* A Submit that does not wait for a free place.
SubmitUnbounded(t) ==
    /\ ~queueClosed
    /\ taskQueue' = Append(taskQueue, t)
    /\ UNCHANGED <<queueClosed, poolDone, task>>

\* Submit: blocks while the queue is full.
Submit(t) ==
    /\ ~queueClosed
    /\ Len(taskQueue) < QueueSize
    /\ taskQueue' = Append(taskQueue, t)
    /\ UNCHANGED <<queueClosed, poolDone, task>>

\* The select of worker takes a task.
TakeTask(w) ==
    /\ task[w] = NoTask
    /\ taskQueue # <<>>
    /\ task' = [task EXCEPT ![w] = Head(taskQueue)]
    /\ taskQueue' = Tail(taskQueue)
    /\ UNCHANGED <<queueClosed, poolDone>>

\* task(ctx) returns.
EndTask(w) ==
    /\ task[w] \notin {NoTask, Gone}
    /\ task' = [task EXCEPT ![w] = NoTask]
    /\ UNCHANGED <<taskQueue, queueClosed, poolDone>>

\* worker returns: its ctx is done, whatever is queued, or the channel is closed
\* and drained.
WorkerReturns(w) ==
    /\ task[w] = NoTask
    /\ poolDone \/ (queueClosed /\ taskQueue = <<>>)
    /\ task' = [task EXCEPT ![w] = Gone]
    /\ UNCHANGED <<taskQueue, queueClosed, poolDone>>

\* Stop, up to wg.Wait; and its return.
StopBegins == queueClosed' = TRUE /\ UNCHANGED <<taskQueue, poolDone, task>>
Stopped == \A w \in Workers : task[w] = Gone

PoolTypeOK(Tasks) ==
    /\ taskQueue \in Seq(Tasks) /\ Len(taskQueue) <= QueueSize
    /\ queueClosed \in BOOLEAN /\ poolDone \in BOOLEAN
    /\ task \in [Workers -> Tasks \cup {NoTask, Gone}]
=============================================================================
