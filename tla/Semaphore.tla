----------------------------- MODULE Semaphore ------------------------------
(***************************************************************************)
(* The weighted FIFO semaphore of pkg/concurrency/semaphore.go, and with   *)
(* MaxN = 1 the bulkhead of pkg/resilience/bulkhead.go built on it.        *)
(*                                                                         *)
(* Everything a caller does while it holds s.mu is one step, except the    *)
(* loop of notifyWaiters: each round of the loop is a step of the caller   *)
(* that runs it, so a granted waiter may already return while the loop     *)
(* goes on.  A caller is one goroutine with at most one outstanding call.  *)
(***************************************************************************)
EXTENDS Integers, Sequences, FiniteSets, Functions

CONSTANTS Procs,  \* the calling goroutines
          Size,   \* NewSemaphore(limit)
          MaxN    \* largest weight a caller asks for; 1 for a bulkhead

ASSUME SemaphoreAssumption ==
    /\ IsFiniteSet(Procs)
    /\ Size \in Nat
    /\ MaxN \in Nat \ {0}

VARIABLES
    cur,      \* s.cur
    waiters,  \* s.waiters: the callers in the queue, oldest first
    ready,    \* the callers whose w.ready channel is closed
    n,        \* n[p]: the weight of p's call, then the units p has yet to release
    place     \* place[p]: where p is, see States

semVars == <<cur, waiters, ready, n, place>>

\* idle: no call.  waiting: blocked in Acquire's select.  cancelled: took the
\* ctx.Done branch and has not locked s.mu yet.  holding: Acquire returned nil
\* or TryAcquire true.  notifying: inside notifyWaiters, holding s.mu.
States == {"idle", "waiting", "cancelled", "holding", "notifying"}

\* s.mu is free: only notifyWaiters spans several steps.
SemUnlocked == \A p \in Procs : place[p] # "notifying"

\* A test that looks at free units only, so that a newcomer passes the queue.
FitsNowBarging(k) == Size - cur >= k

\* The test shared by Acquire and TryAcquire.
FitsNow(k) == Size - cur >= k /\ waiters = <<>>

\* p has been given its units, whether or not it has noticed yet.
Owner(p) ==
    \/ place[p] = "holding"
    \/ place[p] = "notifying" /\ n[p] > 0
    \/ place[p] \in {"waiting", "cancelled"} /\ p \in ready

held == [p \in Procs |-> IF Owner(p) THEN n[p] ELSE 0]

Pool == INSTANCE SlotPool
            WITH held <- held, Procs <- Procs, Size <- Size, MaxN <- MaxN

-----------------------------------------------------------------------------
SemInit ==
    /\ cur = 0
    /\ waiters = <<>>
    /\ ready = {}
    /\ n = [p \in Procs |-> 0]
    /\ place = [p \in Procs |-> "idle"]

\* Acquire and TryAcquire when the units are free and nobody queues.
AcquireNow(p, k) ==
    /\ place[p] = "idle" /\ SemUnlocked
    /\ FitsNow(k)
    /\ cur' = cur + k
    /\ n' = [n EXCEPT ![p] = k]
    /\ place' = [place EXCEPT ![p] = "holding"]
    /\ UNCHANGED <<waiters, ready>>

\* Acquire joins the queue and blocks in the select.
Enqueue(p, k) ==
    /\ place[p] = "idle" /\ SemUnlocked
    /\ ~FitsNow(k)
    /\ waiters' = Append(waiters, p)
    /\ n' = [n EXCEPT ![p] = k]
    /\ place' = [place EXCEPT ![p] = "waiting"]
    /\ UNCHANGED <<cur, ready>>

\* The select takes the <-w.ready branch: Acquire returns nil.
WakeUp(p) ==
    /\ place[p] = "waiting" /\ p \in ready
    /\ ready' = ready \ {p}
    /\ place' = [place EXCEPT ![p] = "holding"]
    /\ UNCHANGED <<cur, waiters, n>>

\* The select takes the <-ctx.Done() branch; with both channels ready Go picks
\* either, so a granted waiter may still come here.
CtxDone(p) ==
    /\ place[p] = "waiting"
    /\ place' = [place EXCEPT ![p] = "cancelled"]
    /\ UNCHANGED <<cur, waiters, ready, n>>

\* append(s[:i], s[i+1:]...)
CutOut(s, i) == SubSeq(s, 1, i - 1) \o SubSeq(s, i + 1, Len(s))

\* The O(N) cleanup loop: cut p's waiter out of the queue if it is there.
LeaveQueue(p) ==
    \/ \E i \in 1..Len(waiters) :
          waiters[i] = p /\ waiters' = CutOut(waiters, i)
    \/ p \notin Range(waiters) /\ UNCHANGED waiters

\* A cleanup that forgets the grant that raced with the cancellation.
CancelUngrantedOnly(p) ==
    /\ place[p] = "cancelled" /\ SemUnlocked
    /\ LeaveQueue(p)
    /\ n' = [n EXCEPT ![p] = 0]
    /\ place' = [place EXCEPT ![p] = "idle"]
    /\ ready' = ready \ {p}
    /\ UNCHANGED cur

\* A cleanup that returns the raced grant but wakes nobody.
CancelWithoutNotify(p) ==
    /\ place[p] = "cancelled" /\ SemUnlocked
    /\ LeaveQueue(p)
    /\ n' = [n EXCEPT ![p] = 0]
    /\ cur' = IF p \in ready THEN cur - n[p] ELSE cur
    /\ place' = [place EXCEPT ![p] = "idle"]
    /\ ready' = ready \ {p}

\* The cleanup of a cancelled Acquire: leave the queue; if the grant came just
\* before, give the units back and run notifyWaiters, otherwise only unlock.
Cancel(p) ==
    /\ place[p] = "cancelled" /\ SemUnlocked
    /\ LeaveQueue(p)
    /\ n' = [n EXCEPT ![p] = 0]
    /\ \/ /\ p \in ready
          /\ cur' = cur - n[p]
          /\ ready' = ready \ {p}
          /\ place' = [place EXCEPT ![p] = "notifying"]
       \/ /\ p \notin ready
          /\ place' = [place EXCEPT ![p] = "idle"]
          /\ UNCHANGED <<cur, ready>>

\* Release(k) of k units the caller owns, up to the call of notifyWaiters.
Release(p, k) ==
    /\ place[p] = "holding" /\ SemUnlocked
    /\ k <= n[p]
    /\ cur' = cur - k
    /\ n' = [n EXCEPT ![p] = @ - k]
    /\ place' = [place EXCEPT ![p] = "notifying"]
    /\ UNCHANGED <<waiters, ready>>

\* A notifyWaiters that admits a head waiter one unit too early.
NotifyGrantEager(p) ==
    /\ place[p] = "notifying"
    /\ waiters # <<>>
    /\ Size - cur >= n[Head(waiters)] - 1
    /\ cur' = cur + n[Head(waiters)]
    /\ waiters' = Tail(waiters)
    /\ ready' = ready \cup {Head(waiters)}
    /\ UNCHANGED <<n, place>>

\* notifyWaiters: the head of the queue fits, grant it and go on.
NotifyGrant(p) ==
    /\ place[p] = "notifying"
    /\ waiters # <<>>
    /\ Size - cur >= n[Head(waiters)]
    /\ cur' = cur + n[Head(waiters)]
    /\ waiters' = Tail(waiters)
    /\ ready' = ready \cup {Head(waiters)}
    /\ UNCHANGED <<n, place>>

\* notifyWaiters: the queue is empty or its head does not fit; unlock, and the
\* Release or the cancelled Acquire returns.
NotifyDone(p) ==
    /\ place[p] = "notifying"
    /\ waiters # <<>> => Size - cur < n[Head(waiters)]
    /\ place' = [place EXCEPT ![p] = IF n[p] = 0 THEN "idle" ELSE "holding"]
    /\ UNCHANGED <<cur, waiters, ready, n>>

SemNext ==
    \E p \in Procs :
        \/ \E k \in 1..MaxN :
              AcquireNow(p, k) \/ Enqueue(p, k) \/ Release(p, k)
        \/ WakeUp(p) \/ CtxDone(p) \/ Cancel(p)
        \/ NotifyGrant(p) \/ NotifyDone(p)

SemSpec == SemInit /\ [][SemNext]_semVars

\* p goes on with its call: it wakes up, gets s.mu and cleans up or releases
\* what it still holds, goes through the loop of notifyWaiters.
GoesOn(p) ==
    \/ WakeUp(p) \/ Cancel(p) \/ Release(p, n[p])
    \/ NotifyGrant(p) \/ NotifyDone(p)

\* The Go scheduler runs every runnable goroutine, and sync.Mutex hands the
\* lock over (starvation mode), so a caller that is again and again able to go
\* on does.  Holders release everything eventually: Bulkhead defers the Release.
\* Nothing obliges a context to be cancelled.
SemFairness == \A p \in Procs : SF_semVars(GoesOn(p))

SemFairSpec == SemSpec /\ SemFairness

-----------------------------------------------------------------------------
\* Types; cur stays within the size, so Release never panics.
SemTypeOK ==
    /\ cur \in 0..Size
    /\ waiters \in Seq(Procs)
    /\ ready \subseteq Procs
    /\ n \in [Procs -> 0..MaxN]
    /\ place \in [Procs -> States]

\* The counter s.cur is exactly the number of units that callers own, through
\* every race of a grant with a cancellation; so units neither leak nor are
\* handed out twice, and Release never finds cur below zero and panics.
Conservation == cur = Cardinality(Pool!Units(held))

\* Bulkhead's promise: at most MaxConcurrent executions are in flight.
MaxInFlight == Cardinality({p \in Procs : place[p] = "holding"}) <= Size

\* The callers that asked before p and still queue: all of them if p is new.
Ahead(p) ==
    {q \in Range(waiters) :
        \E i \in 1..Len(waiters) :
            waiters[i] = q /\ \A j \in 1..i : waiters[j] # p}

\* FIFO (the len(s.waiters) == 0 tests and the head-first loop): nobody obtains
\* units, by queueing, by the fast path or by TryAcquire, past a caller that
\* asked before and is still queued.
NoOvertaking ==
    [][\A p \in Procs : ~Owner(p) /\ Owner(p)' => Ahead(p) = {}]_semVars

\* A queue that is not empty always has somebody who will serve it: units are
\* out, so a Release is still to come (this needs weights within the size).
NoStrandedQueue == SemUnlocked /\ waiters # <<>> => cur > 0

\* The mutex is free, and the head of the queue fits and still sleeps.
LostWakeup ==
    SemUnlocked /\ waiters # <<>> /\ Size - cur >= n[Head(waiters)]

\* p took the ctx.Done branch at the head of the queue, not granted: it was too
\* heavy for the free units.
UngrantedHead(p) ==
    place[p] = "cancelled" /\ p \notin ready /\ waiters # <<>> /\ Head(waiters) = p

\* A wake-up is lost in one way only: a caller that waits at the head for more
\* than is free gives up, and Acquire's cleanup unlocks without notifyWaiters
\* although the next one may fit.  No release, grant or raced cancellation
\* loses one, so with equal weights (the bulkhead) none is lost at all.
WakeupLostByHeadOnly ==
    [][~LostWakeup /\ LostWakeup' => \E p \in Procs : UngrantedHead(p)]_semVars

\* A caller blocked in Acquire returns: with its units or with ctx.Err().
AcquireReturns ==
    \A p \in Procs : place[p] = "waiting" ~> place[p] \in {"idle", "holding"}

\* The semaphore implements the pool of units.
ImplementsPool == Pool!PoolSpec
=============================================================================
