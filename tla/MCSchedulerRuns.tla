-------------------------- MODULE MCSchedulerRuns --------------------------
(* Scheduler with a history of which nodes ran the job for which fire time.*)
EXTENDS MCScheduler

VARIABLE ranBy    \* per fire time: the nodes whose executeJob ran for it

\* The handler of a due job starts.
StartsDue(t) == pc[t] = "started" /\ pc'[t] = "handler" /\ t \notin byHand

RunInit == SchedulerInit /\ ranBy = [o \in 1..(MaxClock + 1) |-> {}]

\* No TTL passes under a handler: what is found does not need an expiry.
RunNext == /\ SchedulerNext
           /\ lost' = {}
           /\ ranBy' = [o \in 1..(MaxClock + 1) |->
                           ranBy[o] \cup
                               {n \in Nodes : /\ nextRun[n] = o
                                              /\ \E t \in ThreadsOf[n] : StartsDue(t)}]

RunSpec == RunInit /\ [][RunNext]_<<schedulerVars, ranBy>>

\* scheduler.New's comment on the locker, "so only one node runs each due
\* job": no fire time of the job is run by two nodes.
OneNodeRunsEachDueJob == \A o \in DOMAIN ranBy : Cardinality(ranBy[o]) <= 1
=============================================================================
