----------------------------- MODULE Scheduler -----------------------------
(***************************************************************************)
(* pkg/workflow/scheduler: one cron job registered on every node of a      *)
(* cluster, each node a Scheduler of its own with its own jobs map, all of *)
(* them with the same distlock.Locker.                                     *)
(*                                                                         *)
(* Time is counted in fire times of the cron expression: `clock` is the    *)
(* number of the last one that has passed.  A thread is a goroutine of     *)
(* executeJob, or a call of RunNow.  A Scheduler never reads its Store     *)
(* back, so the saves do not show.                                         *)
(***************************************************************************)
EXTENDS DistLock, FiniteSets

CONSTANTS Nodes,
          ThreadsOf,    \* ThreadsOf[n]: the goroutines node n may have at a time
          MaxClock,     \* bound on the fire times
          MaxFaults,    \* bound on crashes and on errors of the lock's backend
          MaxCalls      \* bound on RunNow, EnableJob and DisableJob calls

ASSUME SchedulerAssumption ==
    /\ Values = UNION {ThreadsOf[n] : n \in Nodes}
    /\ \A m, n \in Nodes : m # n => ThreadsOf[m] \cap ThreadsOf[n] = {}
    /\ {MaxClock, MaxFaults, MaxCalls} \subseteq Nat

VARIABLES clock,
          nextRun,    \* per node: job.NextRun
          enabled,    \* per node: job.Enabled
          pc,         \* per thread: where it is, "none" when there is no goroutine
          byHand,     \* the threads that are calls of RunNow
          lost,       \* history: threads whose lock's TTL passed while they held it
          faults, calls

schedulerVars == <<lock, clock, nextRun, enabled, pc, byHand, lost, faults, calls>>

Threads == Values

NodeOf(t) == CHOOSE n \in Nodes : t \in ThreadsOf[n]

Places == {"none", "started", "handler", "recorded"}

\* The threads between a successful Acquire and their deferred Release.
Inside == {t \in Threads : pc[t] \in {"handler", "recorded"}}

\* nextRunTime(schedule, now): the first fire time after now.
NextRunTime == clock + 1

SchedulerInit == /\ LockInit
                 /\ clock = 0
                 /\ nextRun = [n \in Nodes |-> 1]
                 /\ enabled = [n \in Nodes |-> TRUE]
                 /\ pc = [t \in Threads |-> "none"]
                 /\ byHand = {}
                 /\ lost = {}
                 /\ faults = 0
                 /\ calls = 0

----------------------------------------------------------------------------
(* The environment: a fire time passes, a TTL passes, a node crashes and   *)
(* registers its jobs again when it comes back.                            *)

FireTime == /\ clock < MaxClock
            /\ clock' = clock + 1
            /\ UNCHANGED <<lock, nextRun, enabled, pc, byHand, lost, faults, calls>>

TTLPasses == /\ Expire
             /\ lost' = IF lock.value \in Inside THEN lost \cup {lock.value} ELSE lost
             /\ UNCHANGED <<clock, nextRun, enabled, pc, byHand, faults, calls>>

Crash(n) == /\ faults < MaxFaults
            /\ faults' = faults + 1
            /\ nextRun' = [nextRun EXCEPT ![n] = NextRunTime]
            /\ enabled' = [enabled EXCEPT ![n] = TRUE]
            /\ pc' = [t \in Threads |-> IF t \in ThreadsOf[n] THEN "none" ELSE pc[t]]
            /\ byHand' = byHand \ ThreadsOf[n]
            /\ lost' = lost \ ThreadsOf[n]
            /\ UNCHANGED <<lock, clock, calls>>

----------------------------------------------------------------------------
(* The operations.                                                         *)

Due(n) == enabled[n] /\ nextRun[n] <= clock

\* tick: a goroutine for the due job, also while an earlier one still runs.
Tick(n) == /\ Due(n)
           /\ \E t \in ThreadsOf[n] : /\ pc[t] = "none"
                                      /\ pc' = [pc EXCEPT ![t] = "started"]
           /\ UNCHANGED <<lock, clock, nextRun, enabled, byHand, lost, faults, calls>>

RunNow(n) == /\ calls < MaxCalls
             /\ calls' = calls + 1
             /\ \E t \in ThreadsOf[n] : /\ pc[t] = "none"
                                        /\ pc' = [pc EXCEPT ![t] = "started"]
                                        /\ byHand' = byHand \cup {t}
             /\ UNCHANGED <<lock, clock, nextRun, enabled, lost, faults>>

\* EnableJob and DisableJob.
SetEnabled(n, on) == /\ calls < MaxCalls
                     /\ enabled[n] # on
                     /\ calls' = calls + 1
                     /\ enabled' = [enabled EXCEPT ![n] = on]
                     /\ UNCHANGED <<lock, clock, nextRun, pc, byHand, lost, faults>>

\* Mutant: the handler runs without waiting for what Acquire returns.
StartHandlerUnlocked(t) ==
    /\ pc[t] = "started"
    /\ lock' = IF CanTake THEN [value |-> t, live |-> TRUE] ELSE lock
    /\ pc' = [pc EXCEPT ![t] = "handler"]
    /\ UNCHANGED <<clock, nextRun, enabled, byHand, lost, faults, calls>>

\* lock.Acquire; the job's NextRun and Enabled are not looked at again.
StartHandler(t) == /\ pc[t] = "started"
                   /\ Acquire(t)
                   /\ pc' = [pc EXCEPT ![t] = "handler"]
                   /\ UNCHANGED <<clock, nextRun, enabled, byHand, lost, faults, calls>>

\* The backend does not answer a call on the lock.
LockError == faults < MaxFaults /\ faults' = faults + 1

\* Not acquired, or an error: executeJob and RunNow return.  An Acquire whose
\* answer is lost may have taken the entry, which then stays until its TTL.
GiveUp(t) == /\ pc[t] = "started"
             /\ \/ ~CanTake /\ UNCHANGED <<lock, faults>>
                \/ LockError /\ (UNCHANGED lock \/ Acquire(t))
             /\ pc' = [pc EXCEPT ![t] = "none"]
             /\ byHand' = byHand \ {t}
             /\ UNCHANGED <<clock, nextRun, enabled, lost, calls>>

\* Mutant: NextRun is computed from the run that has just ended, not from now.
RecordFromLast(t) ==
    /\ pc[t] = "handler"
    /\ t \notin byHand
    /\ nextRun' = [nextRun EXCEPT ![NodeOf(t)] = @ + 1]
    /\ pc' = [pc EXCEPT ![t] = "recorded"]
    /\ UNCHANGED <<lock, clock, enabled, byHand, lost, faults, calls>>

\* executeJob's handler has returned: the result and NextRun, under s.mu.
Record(t) == /\ pc[t] = "handler"
             /\ t \notin byHand
             /\ nextRun' = [nextRun EXCEPT ![NodeOf(t)] = NextRunTime]
             /\ pc' = [pc EXCEPT ![t] = "recorded"]
             /\ UNCHANGED <<lock, clock, enabled, byHand, lost, faults, calls>>

\* RunNow's handler has returned: the result only.
RecordNow(t) == /\ pc[t] = "handler"
                /\ t \in byHand
                /\ pc' = [pc EXCEPT ![t] = "recorded"]
                /\ UNCHANGED <<lock, clock, nextRun, enabled, byHand, lost, faults,
                               calls>>

\* The deferred Release; its error is ignored and the entry then stays.
FinishRun(t) == /\ pc[t] = "recorded"
                /\ \/ Release(t) /\ UNCHANGED faults
                   \/ LockError /\ UNCHANGED lock
                /\ pc' = [pc EXCEPT ![t] = "none"]
                /\ byHand' = byHand \ {t}
                /\ lost' = lost \ {t}
                /\ UNCHANGED <<clock, nextRun, enabled, calls>>

----------------------------------------------------------------------------
ThreadStep(t) == \/ StartHandler(t) \/ GiveUp(t)
                 \/ Record(t) \/ RecordNow(t) \/ FinishRun(t)

SchedulerNext == \/ FireTime
                 \/ TTLPasses
                 \/ \E n \in Nodes : \/ Crash(n)
                                     \/ Tick(n)
                                     \/ RunNow(n)
                                     \/ \E on \in BOOLEAN : SetEnabled(n, on)
                 \/ \E t \in Threads : ThreadStep(t)

SchedulerSpec == SchedulerInit /\ [][SchedulerNext]_schedulerVars

\* Every node's ticker fires, goroutines go on (handlers return), and time
\* passes for an entry that nobody releases.
SchedulerFairness == /\ \A n \in Nodes : WF_schedulerVars(Tick(n))
                     /\ \A t \in Threads : WF_schedulerVars(ThreadStep(t))
                     /\ WF_schedulerVars(TTLPasses)

SchedulerFairSpec == SchedulerSpec /\ SchedulerFairness

----------------------------------------------------------------------------
(* Properties.                                                             *)

\* The entry, the jobs and the goroutines agree in shape, and no node's
\* NextRun is further ahead than the next fire time.
SchedulerTypeOK == /\ lock \in LockEntries
                   /\ clock \in 0..MaxClock
                   /\ nextRun \in [Nodes -> 1..(clock + 1)]
                   /\ enabled \in [Nodes -> BOOLEAN]
                   /\ pc \in [Threads -> Places]
                   /\ byHand \subseteq {t \in Threads : pc[t] # "none"}
                   /\ lost \subseteq Inside
                   /\ faults \in 0..MaxFaults
                   /\ calls \in 0..MaxCalls

\* A handler that runs has the lock for as long as its TTL: no expiry taken
\* over, late Release of an older run, crash or RunNow takes it away.
LockedWhileRunning == \A t \in Inside \ lost : lock.value = t /\ lock.live

\* What the lock is for: two handlers of the job run at once only when the
\* lock of one of them has outlived its TTL.
NoOverlap == Cardinality(Inside \ lost) <= 1

\* The goroutines of executeJob, of any node, that are in the handler.
RunningDue == {t \in Threads \ byHand : pc[t] = "handler"}

\* A job that is due on a node and that nobody runs is run by some node, unless
\* it is disabled there or the node restarts: crashed holders, failed Releases,
\* lost answers of Acquire and nodes that take the lock from each other only
\* delay it.  (Which node runs it is not said: one may lose every race.)
DueJobRuns ==
    \A n \in Nodes :
        Due(n) /\ RunningDue = {} ~> RunningDue # {} \/ ~Due(n)
=============================================================================
