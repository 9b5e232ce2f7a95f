------------------------------ MODULE DistLock ------------------------------
(***************************************************************************)
(* pkg/concurrency/distlock: one key of a Locker (adapters/memory and      *)
(* adapters/redis).  The entry holds the value of the Lock object that     *)
(* took it and a TTL; an entry whose TTL has passed can be taken over, and *)
(* Release deletes the entry only when it still holds the caller's value.  *)
(* Values stand for the value every NewLock generates.                     *)
(***************************************************************************)
EXTENDS Naturals

CONSTANTS Values, NoValue

ASSUME LockAssumption == NoValue \notin Values

VARIABLE lock    \* [value, live]; live: the TTL has not passed

LockEntries == [value : Values \cup {NoValue}, live : BOOLEAN]

FreeLock == [value |-> NoValue, live |-> FALSE]

LockInit == lock = FreeLock

\* The entry keeps everyone else out.
Taken == lock.live

\* Mutant: an entry whose TTL has passed still counts as taken.
CanTakeIfAbsent == lock.value = NoValue

CanTake == ~Taken

Acquire(v) == /\ CanTake
              /\ lock' = [value |-> v, live |-> TRUE]

\* Mutant: Release deletes the entry whoever it belongs to.
ReleaseAny(v) == lock' = FreeLock

Release(v) == lock' = IF lock.value = v THEN FreeLock ELSE lock

\* The TTL passes while the entry is there.
Expire == /\ Taken
          /\ lock' = [lock EXCEPT !.live = FALSE]
=============================================================================
