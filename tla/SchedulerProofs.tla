-------------------------- MODULE SchedulerProofs ---------------------------
(***************************************************************************)
(* For every number of nodes, goroutines, fire times, crashes and lock     *)
(* errors: handlers of one job never overlap while their locks live.       *)
(* SchedulerTypeOK and LockedWhileRunning together are inductive.          *)
(***************************************************************************)
EXTENDS Scheduler, FiniteSetTheorems, TLAPS

SchedulerInv == SchedulerTypeOK /\ LockedWhileRunning

\* Every goroutine belongs to a node.
LEMMA NodeOfType == \A t \in Threads : NodeOf(t) \in Nodes /\ t \in ThreadsOf[NodeOf(t)]
BY SchedulerAssumption DEF Threads, NodeOf

LEMMA ThreadsOfType == \A n \in Nodes : ThreadsOf[n] \subseteq Threads
BY SchedulerAssumption DEF Threads

LEMMA InitInv == SchedulerInit => SchedulerInv
BY SchedulerAssumption, LockAssumption
   DEF SchedulerInit, LockInit, FreeLock, LockEntries, SchedulerInv, SchedulerTypeOK,
       LockedWhileRunning, Inside, Places, Threads

\* Every step preserves the shape of the state.
LEMMA NextTypeOK == SchedulerTypeOK /\ [SchedulerNext]_schedulerVars => SchedulerTypeOK'
<1> SUFFICES ASSUME SchedulerTypeOK, [SchedulerNext]_schedulerVars PROVE SchedulerTypeOK'
    OBVIOUS
<1> USE SchedulerAssumption DEF SchedulerTypeOK
<1>1. CASE FireTime
    BY <1>1 DEF FireTime, Inside
<1>2. CASE TTLPasses
    BY <1>2 DEF TTLPasses, Expire, Taken, LockEntries, Inside, Threads
<1>3. ASSUME NEW n \in Nodes, Crash(n) PROVE SchedulerTypeOK'
    BY <1>3, ThreadsOfType DEF Crash, NextRunTime, Inside, Places
<1>4. ASSUME NEW n \in Nodes, Tick(n) PROVE SchedulerTypeOK'
    BY <1>4, ThreadsOfType DEF Tick, Inside, Places
<1>5. ASSUME NEW n \in Nodes, RunNow(n) PROVE SchedulerTypeOK'
    BY <1>5, ThreadsOfType DEF RunNow, Inside, Places
<1>6. ASSUME NEW n \in Nodes, NEW on \in BOOLEAN, SetEnabled(n, on) PROVE SchedulerTypeOK'
    BY <1>6 DEF SetEnabled, Inside
<1>7. ASSUME NEW t \in Threads, StartHandler(t) PROVE SchedulerTypeOK'
    BY <1>7 DEF StartHandler, Acquire, LockEntries, Inside, Places, Threads
<1>8. ASSUME NEW t \in Threads, GiveUp(t) PROVE SchedulerTypeOK'
    <2>1. lock' \in LockEntries
        <3>1. lock' = lock \/ lock' = [value |-> t, live |-> TRUE]
            BY <1>8 DEF GiveUp, Acquire
        <3>2. [value |-> t, live |-> TRUE] \in LockEntries
            BY DEF LockEntries, Threads
        <3> QED BY <3>1, <3>2
    <2>2. faults' \in 0..MaxFaults
        BY <1>8 DEF GiveUp, LockError
    <2> QED BY <1>8, <2>1, <2>2 DEF GiveUp, Inside, Places
<1>9. ASSUME NEW t \in Threads, Record(t) PROVE SchedulerTypeOK'
    <2>1. nextRun' \in [Nodes -> 1..(clock' + 1)]
        BY <1>9, NodeOfType DEF Record, NextRunTime
    <2> QED BY <1>9, <2>1 DEF Record, Inside, Places
<1>9a. ASSUME NEW t \in Threads, RecordNow(t) PROVE SchedulerTypeOK'
    BY <1>9a DEF RecordNow, Inside, Places
<1>10. ASSUME NEW t \in Threads, FinishRun(t) PROVE SchedulerTypeOK'
    <2>1. lock' \in LockEntries
        <3>1. FreeLock \in LockEntries
            BY DEF FreeLock, LockEntries
        <3>2. lock' = FreeLock \/ lock' = lock
            BY <1>10 DEF FinishRun, Release
        <3> QED BY <3>1, <3>2
    <2> QED BY <1>10, <2>1 DEF FinishRun, LockError, Inside, Places
<1>11. CASE UNCHANGED schedulerVars
    BY <1>11 DEF schedulerVars, Inside
<1> QED
    BY <1>1, <1>2, <1>3, <1>4, <1>5, <1>6, <1>7, <1>8, <1>9, <1>9a, <1>10, <1>11
    DEF SchedulerNext, ThreadStep

\* Every step leaves the lock with the handlers that run under a live TTL:
\* Acquire only takes what nobody holds live, and Release only deletes the
\* caller's own entry.
LEMMA NextLocked == SchedulerInv /\ [SchedulerNext]_schedulerVars => LockedWhileRunning'
<1> SUFFICES ASSUME SchedulerInv, [SchedulerNext]_schedulerVars PROVE LockedWhileRunning'
    OBVIOUS
<1> USE DEF SchedulerInv, LockedWhileRunning, Inside
<1>1. CASE FireTime
    BY <1>1 DEF FireTime
<1>2. CASE TTLPasses
    BY <1>2 DEF TTLPasses, Expire, Taken, SchedulerTypeOK
<1>3. ASSUME NEW n \in Nodes, Crash(n) PROVE LockedWhileRunning'
    BY <1>3 DEF Crash
<1>4. ASSUME NEW n \in Nodes, Tick(n) PROVE LockedWhileRunning'
    BY <1>4 DEF Tick, SchedulerTypeOK
<1>5. ASSUME NEW n \in Nodes, RunNow(n) PROVE LockedWhileRunning'
    BY <1>5 DEF RunNow, SchedulerTypeOK
<1>6. ASSUME NEW n \in Nodes, NEW on \in BOOLEAN, SetEnabled(n, on)
      PROVE LockedWhileRunning'
    BY <1>6 DEF SetEnabled
<1>7. ASSUME NEW t \in Threads, StartHandler(t) PROVE LockedWhileRunning'
    BY <1>7 DEF StartHandler, Acquire, CanTake, Taken, SchedulerTypeOK
<1>8. ASSUME NEW t \in Threads, GiveUp(t) PROVE LockedWhileRunning'
    BY <1>8 DEF GiveUp, Acquire, CanTake, Taken, SchedulerTypeOK
<1>9. ASSUME NEW t \in Threads, Record(t) PROVE LockedWhileRunning'
    BY <1>9 DEF Record, SchedulerTypeOK
<1>9a. ASSUME NEW t \in Threads, RecordNow(t) PROVE LockedWhileRunning'
    BY <1>9a DEF RecordNow, SchedulerTypeOK
<1>10. ASSUME NEW t \in Threads, FinishRun(t) PROVE LockedWhileRunning'
    BY <1>10 DEF FinishRun, Release, LockError, SchedulerTypeOK
<1>11. CASE UNCHANGED schedulerVars
    BY <1>11 DEF schedulerVars
<1> QED
    BY <1>1, <1>2, <1>3, <1>4, <1>5, <1>6, <1>7, <1>8, <1>9, <1>9a, <1>10, <1>11
    DEF SchedulerNext, ThreadStep

\* The inductive invariant holds in every reachable state.
THEOREM SchedulerInvariant == SchedulerSpec => []SchedulerInv
<1>1. SchedulerInv /\ [SchedulerNext]_schedulerVars => SchedulerInv'
    BY NextTypeOK, NextLocked DEF SchedulerInv
<1> QED BY InitInv, <1>1, PTL DEF SchedulerSpec

\* tick, RunNow and the lock keep their shape: a next run at most one fire time
\* ahead, and a lock held by a goroutine of some node.
THEOREM SchedulerTypes == SchedulerSpec => []SchedulerTypeOK
BY SchedulerInvariant, PTL DEF SchedulerInv

\* executeJob and RunNow: a running handler has the lock until its TTL passes.
THEOREM SchedulerLocked == SchedulerSpec => []LockedWhileRunning
BY SchedulerInvariant, PTL DEF SchedulerInv

\* Two handlers of one job overlap only after the TTL of one of them.
THEOREM SchedulerNoOverlap == SchedulerSpec => []NoOverlap
<1>1. SchedulerInv => NoOverlap
    <2> SUFFICES ASSUME SchedulerInv PROVE Cardinality(Inside \ lost) <= 1
        BY DEF NoOverlap
    <2>1. Inside \ lost \subseteq {lock.value}
        BY DEF SchedulerInv, LockedWhileRunning
    <2>2. IsFiniteSet({lock.value}) /\ Cardinality({lock.value}) = 1
        BY FS_Singleton
    <2>3. Cardinality(Inside \ lost) <= Cardinality({lock.value})
        BY <2>1, <2>2, FS_Subset
    <2> QED BY <2>2, <2>3
<1> QED BY SchedulerInvariant, <1>1, PTL
=============================================================================
