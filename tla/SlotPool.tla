------------------------------ MODULE SlotPool ------------------------------
(***************************************************************************)
(* What a weighted semaphore promises, without a queue, a mutex or a       *)
(* cancellation: callers own units of a pool of Size units, a grant never  *)
(* takes the pool beyond Size, and only what is owned is given back.       *)
(***************************************************************************)
EXTENDS Naturals, FiniteSets

CONSTANTS Procs,  \* the calling goroutines
          Size,   \* NewSemaphore(limit)
          MaxN    \* largest weight a caller asks for

VARIABLE held     \* held[p]: units p owns

\* The units owned under an assignment h, as a set, so that "how many" is a
\* cardinality.
Units(h) == {u \in Procs \X (1..MaxN) : u[2] <= h[u[1]]}

Used == Cardinality(Units(held))

PoolInit == held = [p \in Procs |-> 0]

\* p obtains k units, all at once, if they are free.
Grant(p, k) ==
    /\ held[p] = 0
    /\ Used + k <= Size
    /\ held' = [held EXCEPT ![p] = k]

\* p gives back k of the units it owns.
GiveBack(p, k) ==
    /\ k <= held[p]
    /\ held' = [held EXCEPT ![p] = @ - k]

PoolNext == \E p \in Procs, k \in 1..MaxN : Grant(p, k) \/ GiveBack(p, k)

PoolSpec == PoolInit /\ [][PoolNext]_held
=============================================================================
