-------------------------- MODULE SemaphoreProofs ---------------------------
(***************************************************************************)
(* Proofs about Semaphore for every set of callers, every size and every   *)
(* bound on the weights.                                                   *)
(***************************************************************************)
EXTENDS Semaphore, FiniteSetTheorems, SequenceTheorems, TLAPS

\* The types alone.
SemTypes ==
    /\ cur \in Int
    /\ waiters \in Seq(Procs)
    /\ ready \subseteq Procs
    /\ n \in [Procs -> 0..MaxN]
    /\ place \in [Procs -> States]

\* A caller queues at most once, only while its Acquire is in progress, and
\* never after its grant.
QueueShape ==
    /\ \A i, j \in 1..Len(waiters) : waiters[i] = waiters[j] => i = j
    /\ \A i \in 1..Len(waiters) :
          /\ place[waiters[i]] \in {"waiting", "cancelled"}
          /\ waiters[i] \notin ready
    /\ \A p \in ready : place[p] \in {"waiting", "cancelled"}

\* The inductive invariant: the counter equals the units owned.
SemInv == SemTypes /\ QueueShape /\ Conservation /\ cur <= Size

\* One caller's units are a set of as many elements as it holds.
LEMMA OneCallersUnits ==
    ASSUME NEW p, NEW m \in Nat
    PROVE  /\ IsFiniteSet({p} \X (1..m))
           /\ Cardinality({p} \X (1..m)) = m
  <1>1. IsFiniteSet({p}) /\ Cardinality({p}) = 1
    BY FS_Singleton
  <1>2. IsFiniteSet(1..m) /\ Cardinality(1..m) = m
    BY FS_Interval
  <1>3. /\ IsFiniteSet({p} \X (1..m))
        /\ Cardinality({p} \X (1..m)) = Cardinality({p}) * Cardinality(1..m)
    BY <1>1, <1>2, FS_Product, Zenon
  <1> QED BY <1>1, <1>2, <1>3

\* Changing what one caller holds changes the number of units by the difference.
LEMMA UnitsChange ==
    ASSUME NEW h \in [Procs -> 0..MaxN], NEW p \in Procs, NEW k \in 0..MaxN
    PROVE  /\ Cardinality(Pool!Units(h)) \in Nat
           /\ h[p] <= Cardinality(Pool!Units(h))
           /\ Cardinality(Pool!Units([h EXCEPT ![p] = k]))
                = Cardinality(Pool!Units(h)) - h[p] + k
  <1> DEFINE h2 == [h EXCEPT ![p] = k]
             rest == {u \in Procs \X (1..MaxN) : u[1] # p /\ u[2] <= h[u[1]]}
  <1>1. MaxN \in Nat /\ IsFiniteSet(Procs)
    BY SemaphoreAssumption
  <1>2. IsFiniteSet(Procs \X (1..MaxN))
    <2>1. IsFiniteSet(1..MaxN)
      BY <1>1, FS_Interval
    <2> QED BY <1>1, <2>1, FS_Product, Zenon
  <1>3. IsFiniteSet(rest) /\ Cardinality(rest) \in Nat
    BY <1>2, FS_Subset, FS_CardinalityType
  <1>4. ASSUME NEW m \in 0..MaxN
        PROVE  /\ IsFiniteSet(rest \cup ({p} \X (1..m)))
               /\ Cardinality(rest \cup ({p} \X (1..m))) = Cardinality(rest) + m
    <2>1. rest \cap ({p} \X (1..m)) = {}
      OBVIOUS
    <2>2. m \in Nat
      BY <1>1
    <2>3. /\ IsFiniteSet({p} \X (1..m))
          /\ Cardinality({p} \X (1..m)) = m
      BY <2>2, OneCallersUnits
    <2> HIDE DEF rest
    <2>4. /\ IsFiniteSet(rest \cup ({p} \X (1..m)))
          /\ Cardinality(rest \cup ({p} \X (1..m)))
               = Cardinality(rest) + Cardinality({p} \X (1..m))
                 - Cardinality(rest \cap ({p} \X (1..m)))
      BY <1>3, <2>3, FS_Union, Zenon
    <2>5. Cardinality(rest \cap ({p} \X (1..m))) = 0
      BY <2>1, FS_EmptySet, Zenon
    <2> QED BY <1>3, <2>2, <2>3, <2>4, <2>5
  <1>5. Pool!Units(h) = rest \cup ({p} \X (1..h[p]))
    BY <1>1 DEF Pool!Units
  <1>6. Pool!Units(h2) = rest \cup ({p} \X (1..k))
    BY <1>1 DEF Pool!Units
  <1> HIDE DEF rest, h2
  <1>7. Cardinality(Pool!Units(h)) = Cardinality(rest) + h[p]
    BY <1>4, <1>5
  <1>8. Cardinality(Pool!Units(h2)) = Cardinality(rest) + k
    BY <1>4, <1>6
  <1>9. h[p] \in Nat /\ k \in Nat
    BY <1>1
  <1> QED BY <1>3, <1>7, <1>8, <1>9 DEF h2

\* Cutting the i-th element out of a sequence shifts the later ones down.
LEMMA CutOutProperties ==
    ASSUME NEW S, NEW s \in Seq(S), NEW i \in 1..Len(s)
    PROVE  /\ CutOut(s, i) \in Seq(S)
           /\ Len(CutOut(s, i)) = Len(s) - 1
           /\ \A j \in 1..(Len(s) - 1) :
                 CutOut(s, i)[j] = IF j < i THEN s[j] ELSE s[j + 1]
  <1> DEFINE t == CutOut(s, i)
             a == SubSeq(s, 1, i - 1)
             b == SubSeq(s, i + 1, Len(s))
  <1>1. Len(s) \in Nat /\ i \in Nat /\ i >= 1 /\ i <= Len(s)
    BY LenProperties
  <1>2. \A j \in 1..Len(s) : s[j] \in S
    BY ElementOfSeq
  <1>3. /\ a \in Seq(S) /\ Len(a) = i - 1
        /\ \A j \in 1..(i - 1) : a[j] = s[j]
    <2>1. \A j \in 1..(i - 1) : s[j] \in S
      BY <1>1, <1>2
    <2>2. /\ a \in Seq(S)
          /\ Len(a) = IF 1 <= i - 1 THEN (i - 1) - 1 + 1 ELSE 0
          /\ \A j \in 1..((i - 1) - 1 + 1) : a[j] = s[1 + j - 1]
      BY <1>1, <2>1, SubSeqProperties
    <2> HIDE DEF a
    <2> QED BY <1>1, <2>2
  <1>4. /\ b \in Seq(S) /\ Len(b) = Len(s) - i
        /\ \A j \in 1..(Len(s) - i) : b[j] = s[j + i]
    <2>1. \A j \in (i + 1)..Len(s) : s[j] \in S
      BY <1>1, <1>2
    <2>2. /\ b \in Seq(S)
          /\ Len(b) = IF i + 1 <= Len(s) THEN Len(s) - (i + 1) + 1 ELSE 0
          /\ \A j \in 1..(Len(s) - (i + 1) + 1) : b[j] = s[(i + 1) + j - 1]
      BY <1>1, <2>1, SubSeqProperties
    <2> HIDE DEF b
    <2>3. \A j \in 1..(Len(s) - i) : (i + 1) + j - 1 = j + i
      BY <1>1
    <2> QED BY <1>1, <2>2, <2>3
  <1>5. t = a \o b
    BY DEF CutOut
  <1> HIDE DEF a, b, t
  <1>6. /\ t \in Seq(S) /\ Len(t) = Len(a) + Len(b)
        /\ \A j \in 1..(Len(a) + Len(b)) :
              t[j] = IF j <= Len(a) THEN a[j] ELSE b[j - Len(a)]
    BY <1>3, <1>4, <1>5, ConcatProperties
  <1>7. ASSUME NEW j \in 1..(Len(s) - 1)
        PROVE  t[j] = IF j < i THEN s[j] ELSE s[j + 1]
    <2>0. /\ Len(a) + Len(b) = Len(s) - 1
          /\ t[j] = IF j <= Len(a) THEN a[j] ELSE b[j - Len(a)]
      <3>1. Len(a) + Len(b) = Len(s) - 1
        BY <1>1, <1>3, <1>4
      <3> QED BY <1>6, <3>1
    <2>1. CASE j < i
      <3>1. j \in 1..(i - 1) /\ j <= Len(a)
        BY <1>1, <1>3, <2>1
      <3> QED BY <1>3, <2>0, <2>1, <3>1
    <2>2. CASE ~(j < i)
      <3>0. ~(j <= Len(a))
        BY <1>1, <1>3, <2>2
      <3>1. t[j] = b[j - (i - 1)]
        BY <1>3, <2>0, <3>0
      <3>2. j - (i - 1) \in 1..(Len(s) - i)
        BY <1>1, <2>2
      <3>3. b[j - (i - 1)] = s[(j - (i - 1)) + i]
        BY <1>4, <3>2
      <3>4. (j - (i - 1)) + i = j + 1
        BY <1>1
      <3> QED BY <2>2, <3>1, <3>3, <3>4
    <2> QED BY <2>1, <2>2
  <1> QED BY <1>1, <1>3, <1>4, <1>6, <1>7 DEF t

\* t has no repetitions and only elements of s other than the one at i.
DistinctWithout(t, s, i) ==
    /\ \A j, l \in 1..Len(t) : t[j] = t[l] => j = l
    /\ \A j \in 1..Len(t) :
          t[j] # s[i] /\ \E l \in 1..Len(s) : t[j] = s[l]

\* Cutting an element out of a sequence without repetitions leaves one without
\* repetitions, of the other elements.
LEMMA CutOutDistinct ==
    ASSUME NEW S, NEW s \in Seq(S), NEW i \in 1..Len(s),
           \A j, l \in 1..Len(s) : s[j] = s[l] => j = l
    PROVE  DistinctWithout(CutOut(s, i), s, i)
  <1> DEFINE t == CutOut(s, i)
  <1>1. /\ Len(t) = Len(s) - 1
        /\ \A j \in 1..(Len(s) - 1) :
              t[j] = IF j < i THEN s[j] ELSE s[j + 1]
    BY CutOutProperties
  <1>2. Len(s) \in Nat /\ i \in Nat /\ i >= 1 /\ i <= Len(s)
    BY LenProperties
  <1> HIDE DEF t
  <1> DEFINE at == [j \in 1..Len(t) |-> IF j < i THEN j ELSE j + 1]
  <1>3. \A j \in 1..Len(t) : at[j] \in 1..Len(s) /\ at[j] # i /\ t[j] = s[at[j]]
    BY <1>1, <1>2
  <1>4. \A j, l \in 1..Len(t) : at[j] = at[l] => j = l
    BY <1>1, <1>2
  <1> HIDE DEF at, t
  <1>5. ASSUME NEW j \in 1..Len(t), NEW l \in 1..Len(t), t[j] = t[l]
        PROVE  j = l
    <2>1. s[at[j]] = s[at[l]] /\ at[j] \in 1..Len(s) /\ at[l] \in 1..Len(s)
      BY <1>3, <1>5
    <2>2. at[j] = at[l]
      BY <2>1
    <2> QED BY <1>4, <2>2
  <1>6. ASSUME NEW j \in 1..Len(t)
        PROVE  t[j] # s[i] /\ \E l \in 1..Len(s) : t[j] = s[l]
    <2>1. at[j] \in 1..Len(s) /\ at[j] # i /\ t[j] = s[at[j]]
      BY <1>3
    <2>2. s[at[j]] # s[i]
      BY <2>1
    <2> QED BY <2>1, <2>2
  <1>7. DistinctWithout(t, s, i)
    BY <1>5, <1>6 DEF DistinctWithout
  <1> QED BY <1>7 DEF t

\* What callers hold is a weight for each caller.
LEMMA HeldType ==
    ASSUME SemTypes
    PROVE  held \in [Procs -> 0..MaxN]
  BY SemaphoreAssumption DEF SemTypes, held

\* A step after which caller p holds k units and nobody else's holding changed
\* keeps the counter exact if it moves the counter by as much.
LEMMA CounterFollows ==
    ASSUME SemTypes, Conservation, NEW p \in Procs, NEW k \in 0..MaxN,
           held' = [held EXCEPT ![p] = k],
           cur' = cur - held[p] + k
    PROVE  Conservation'
  <1>1. held \in [Procs -> 0..MaxN]
    BY HeldType
  <1>2. Cardinality(Pool!Units([held EXCEPT ![p] = k]))
          = Cardinality(Pool!Units(held)) - held[p] + k
    BY <1>1, UnitsChange
  <1>3. Conservation' <=> cur' = Cardinality(Pool!Units(held'))
    BY DEF Conservation, Pool!Units
  <1> QED BY <1>2, <1>3 DEF Conservation

\* A step that changes neither the counter nor any holding keeps it exact.
LEMMA CounterStays ==
    ASSUME Conservation, held' = held, cur' = cur
    PROVE  Conservation'
  <1>1. Conservation' <=> cur' = Cardinality(Pool!Units(held'))
    BY DEF Conservation, Pool!Units
  <1> QED BY <1>1 DEF Conservation

\* The types survive every step.
LEMMA SemTypesStep ==
    ASSUME SemTypes, [SemNext]_semVars
    PROVE  SemTypes'
  <1> USE SemaphoreAssumption DEF SemTypes, States
  <1>1. ASSUME NEW p \in Procs, NEW k \in 1..MaxN, AcquireNow(p, k)
        PROVE  SemTypes'
    BY <1>1 DEF AcquireNow
  <1>2. ASSUME NEW p \in Procs, NEW k \in 1..MaxN, Enqueue(p, k)
        PROVE  SemTypes'
    BY <1>2, AppendProperties DEF Enqueue
  <1>3. ASSUME NEW p \in Procs, NEW k \in 1..MaxN, Release(p, k)
        PROVE  SemTypes'
    BY <1>3 DEF Release
  <1>4. ASSUME NEW p \in Procs, WakeUp(p)
        PROVE  SemTypes'
    BY <1>4 DEF WakeUp
  <1>5. ASSUME NEW p \in Procs, CtxDone(p)
        PROVE  SemTypes'
    BY <1>5 DEF CtxDone
  <1>6. ASSUME NEW p \in Procs, Cancel(p)
        PROVE  SemTypes'
    <2>1. waiters \in Seq(Procs)
      OBVIOUS
    <2>2. ASSUME NEW i \in 1..Len(waiters),
                 waiters' = CutOut(waiters, i)
          PROVE  waiters' \in Seq(Procs)
      BY <2>1, <2>2, CutOutProperties
    <2>3. waiters' \in Seq(Procs)
      BY <1>6, <2>1, <2>2 DEF Cancel, LeaveQueue
    <2>4. cur' \in Int /\ ready' \subseteq Procs
      <3>1. n[p] \in Int
        OBVIOUS
      <3> QED BY <1>6, <3>1 DEF Cancel
    <2>5. n' \in [Procs -> 0..MaxN] /\ place' \in [Procs -> States]
      BY <1>6 DEF Cancel
    <2> QED BY <2>3, <2>4, <2>5
  <1>7. ASSUME NEW p \in Procs, NotifyGrant(p)
        PROVE  SemTypes'
    <2>1. Head(waiters) \in Procs /\ Tail(waiters) \in Seq(Procs)
      BY <1>7, HeadTailProperties DEF NotifyGrant
    <2> QED BY <1>7, <2>1 DEF NotifyGrant
  <1>8. ASSUME NEW p \in Procs, NotifyDone(p)
        PROVE  SemTypes'
    BY <1>8 DEF NotifyDone
  <1>9. CASE UNCHANGED semVars
    BY <1>9 DEF semVars
  <1> QED BY <1>1, <1>2, <1>3, <1>4, <1>5, <1>6, <1>7, <1>8, <1>9 DEF SemNext

\* So does the shape of the queue.
LEMMA QueueShapeStep ==
    ASSUME SemTypes, QueueShape, [SemNext]_semVars
    PROVE  QueueShape'
  <1> USE DEF SemTypes, QueueShape
  <1>1. ASSUME NEW p \in Procs, NEW k \in 1..MaxN, AcquireNow(p, k)
        PROVE  QueueShape'
    BY <1>1 DEF AcquireNow
  <1>2. ASSUME NEW p \in Procs, NEW k \in 1..MaxN, Enqueue(p, k)
        PROVE  QueueShape'
    <2>1. \A i \in 1..Len(waiters) : waiters[i] # p
      BY <1>2 DEF Enqueue
    <2>2. p \notin ready
      BY <1>2 DEF Enqueue
    <2> QED BY <1>2, <2>1, <2>2 DEF Enqueue
  <1>3. ASSUME NEW p \in Procs, NEW k \in 1..MaxN, Release(p, k)
        PROVE  QueueShape'
    BY <1>3 DEF Release
  <1>4. ASSUME NEW p \in Procs, WakeUp(p)
        PROVE  QueueShape'
    BY <1>4 DEF WakeUp
  <1>5. ASSUME NEW p \in Procs, CtxDone(p)
        PROVE  QueueShape'
    BY <1>5 DEF CtxDone
  <1>6. ASSUME NEW p \in Procs, Cancel(p)
        PROVE  QueueShape'
    <2>1. ASSUME NEW i \in 1..Len(waiters), waiters[i] = p,
                 waiters' = CutOut(waiters, i)
          PROVE  QueueShape'
      <3>1. waiters \in Seq(Procs)
        OBVIOUS
      <3>2. \A j, l \in 1..Len(waiters) : waiters[j] = waiters[l] => j = l
        OBVIOUS
      <3>3. /\ \A j, l \in 1..Len(waiters') : waiters'[j] = waiters'[l] => j = l
            /\ \A j \in 1..Len(waiters') :
                  waiters'[j] # waiters[i]
                  /\ \E l \in 1..Len(waiters) : waiters'[j] = waiters[l]
        <4>1. DistinctWithout(CutOut(waiters, i), waiters, i)
          BY <3>1, <3>2, CutOutDistinct
        <4>2. DistinctWithout(waiters', waiters, i)
          BY <2>1, <4>1
        <4> QED BY <4>2 DEF DistinctWithout
      <3>4. ASSUME NEW j \in 1..Len(waiters')
            PROVE  /\ waiters'[j] \in Procs \ {p}
                   /\ place[waiters'[j]] \in {"waiting", "cancelled"}
                   /\ waiters'[j] \notin ready
        <4>1. PICK l \in 1..Len(waiters) : waiters'[j] = waiters[l]
          BY <3>3
        <4>2. waiters[l] \in Procs
          BY <3>1, ElementOfSeq
        <4>3. waiters'[j] # p
          BY <2>1, <3>3
        <4> QED BY <4>1, <4>2, <4>3
      <3>5. /\ ready' \subseteq ready
            /\ \A q \in Procs \ {p} : place'[q] = place[q]
            /\ p \notin ready'
        BY <1>6 DEF Cancel
      <3> QED BY <3>3, <3>4, <3>5
    <2>2. ASSUME p \notin Range(waiters), UNCHANGED waiters
          PROVE  QueueShape'
      BY <1>6, <2>2 DEF Cancel, Range
    <2> QED BY <1>6, <2>1, <2>2 DEF Cancel, LeaveQueue
  <1>7. ASSUME NEW p \in Procs, NotifyGrant(p)
        PROVE  QueueShape'
    <2>1. /\ Head(waiters) = waiters[1] /\ Len(waiters) \in Nat \ {0}
          /\ Len(waiters') = Len(waiters) - 1
          /\ \A j \in 1..Len(waiters') : waiters'[j] = waiters[j + 1]
      BY <1>7, HeadTailProperties, EmptySeq DEF NotifyGrant
    <2>a. \A j \in 1..Len(waiters') :
             j + 1 \in 1..Len(waiters) /\ 1 \in 1..Len(waiters) /\ j + 1 # 1
      BY <2>1
    <2>2. ASSUME NEW j \in 1..Len(waiters')
          PROVE  waiters'[j] # Head(waiters)
      <3>1. waiters[j + 1] # waiters[1]
        BY <2>a
      <3> QED BY <2>1, <3>1
    <2>3. ASSUME NEW j \in 1..Len(waiters'), NEW l \in 1..Len(waiters'),
                 waiters'[j] = waiters'[l]
          PROVE  j = l
      <3>1. waiters[j + 1] = waiters[l + 1]
        BY <2>1, <2>3
      <3>2. j + 1 = l + 1
        BY <2>a, <3>1
      <3> QED BY <3>2
    <2> QED BY <1>7, <2>1, <2>2, <2>3 DEF NotifyGrant
  <1>8. ASSUME NEW p \in Procs, NotifyDone(p)
        PROVE  QueueShape'
    BY <1>8 DEF NotifyDone
  <1>9. CASE UNCHANGED semVars
    BY <1>9 DEF semVars
  <1> QED BY <1>1, <1>2, <1>3, <1>4, <1>5, <1>6, <1>7, <1>8, <1>9 DEF SemNext

\* How each step moves the holdings: at most one caller's, to k units.
Moves(p, k) ==
    /\ held' = [held EXCEPT ![p] = k]
    /\ cur' = cur - held[p] + k

\* Every step moves one caller's holding, and the counter with it, or neither;
\* a grant goes to a caller that held nothing and fits into the free units.
LEMMA StepMoves ==
    ASSUME SemTypes, QueueShape, [SemNext]_semVars
    PROVE  \/ held' = held /\ cur' = cur
           \/ \E p \in Procs, k \in 1..MaxN :
                 Moves(p, k) /\ held[p] = 0 /\ cur + k <= Size
           \/ \E p \in Procs, k \in 1..MaxN :
                 k <= held[p] /\ Moves(p, held[p] - k)
  <1> DEFINE Same == held' = held /\ cur' = cur
             Up == \E p \in Procs, k \in 1..MaxN :
                      Moves(p, k) /\ held[p] = 0 /\ cur + k <= Size
             Down == \E p \in Procs, k \in 1..MaxN :
                      k <= held[p] /\ Moves(p, held[p] - k)
  <1> USE SemaphoreAssumption
  <1>t. held \in [Procs -> 0..MaxN] /\ held' \in [Procs -> 0..MaxN]
    <2>1. SemTypes'
      BY SemTypesStep
    <2> QED BY <2>1, HeldType DEF SemTypes, held
  <1>1. ASSUME NEW p \in Procs, NEW k \in 1..MaxN, AcquireNow(p, k)
        PROVE  Up
    <2>1. held[p] = 0 /\ held'[p] = k /\ \A q \in Procs \ {p} : held'[q] = held[q]
      BY <1>1 DEF AcquireNow, held, Owner, SemTypes, QueueShape
    <2>2. held' = [held EXCEPT ![p] = k]
      BY <2>1, <1>t
    <2>3. cur' = cur - held[p] + k /\ cur + k <= Size
      BY <1>1, <2>1 DEF AcquireNow, FitsNow, SemTypes
    <2> QED BY <2>1, <2>2, <2>3 DEF Moves
  <1>2. ASSUME NEW p \in Procs, NEW k \in 1..MaxN, Enqueue(p, k)
        PROVE  Same
    <2>1. \A q \in Procs : held'[q] = held[q]
      BY <1>2 DEF Enqueue, held, Owner, SemTypes, QueueShape
    <2> QED BY <1>2, <2>1, <1>t DEF Enqueue
  <1>3. ASSUME NEW p \in Procs, NEW k \in 1..MaxN, Release(p, k)
        PROVE  Down
    <2>1. /\ held[p] = n[p] /\ held'[p] = n[p] - k /\ k <= n[p]
          /\ \A q \in Procs \ {p} : held'[q] = held[q]
      BY <1>3 DEF Release, held, Owner, SemTypes, QueueShape
    <2>2. held' = [held EXCEPT ![p] = held[p] - k]
      BY <2>1, <1>t
    <2>3. cur' = cur - held[p] + (held[p] - k)
      BY <1>3, <2>1, <1>t DEF Release, SemTypes
    <2> QED BY <2>1, <2>2, <2>3 DEF Moves
  <1>4. ASSUME NEW p \in Procs, WakeUp(p)
        PROVE  Same
    <2>1. \A q \in Procs : held'[q] = held[q]
      BY <1>4 DEF WakeUp, held, Owner, SemTypes, QueueShape
    <2> QED BY <1>4, <2>1, <1>t DEF WakeUp
  <1>5. ASSUME NEW p \in Procs, CtxDone(p)
        PROVE  Same
    <2>1. \A q \in Procs : held'[q] = held[q]
      BY <1>5 DEF CtxDone, held, Owner, SemTypes, QueueShape
    <2> QED BY <1>5, <2>1, <1>t DEF CtxDone
  <1>6. ASSUME NEW p \in Procs, Cancel(p)
        PROVE  Same \/ Down
    <2>1. CASE p \in ready
      <3>1. /\ held[p] = n[p] /\ held'[p] = 0
            /\ \A q \in Procs \ {p} : held'[q] = held[q]
        BY <1>6, <2>1 DEF Cancel, held, Owner, SemTypes, QueueShape
      <3>2. cur' = cur - held[p]
        BY <1>6, <2>1, <3>1 DEF Cancel
      <3>3. held' = [held EXCEPT ![p] = 0]
        BY <3>1, <1>t
      <3>4. CASE held[p] = 0
        BY <3>2, <3>3, <3>4, <1>t DEF SemTypes
      <3>5. CASE held[p] # 0
        <4>1. held[p] \in 1..MaxN /\ held[p] - held[p] = 0
          BY <3>5, <1>t
        <4>2. held' = [held EXCEPT ![p] = held[p] - held[p]]
          BY <3>3, <4>1
        <4>3. cur' = cur - held[p] + (held[p] - held[p])
          <5> HIDE DEF held
          <5> QED BY <3>2, <4>1 DEF SemTypes
        <4>4. held[p] <= held[p]
          BY <4>1
        <4> QED BY <4>1, <4>2, <4>3, <4>4 DEF Moves
      <3> QED BY <3>4, <3>5
    <2>2. CASE p \notin ready
      <3>1. \A q \in Procs : held'[q] = held[q]
        BY <1>6, <2>2 DEF Cancel, held, Owner, SemTypes, QueueShape
      <3> QED BY <1>6, <2>2, <3>1, <1>t DEF Cancel
    <2> QED BY <2>1, <2>2
  <1>7. ASSUME NEW p \in Procs, NotifyGrant(p)
        PROVE  Same \/ Up
    <2> DEFINE h == Head(waiters)
    <2>1. h \in Procs /\ place[h] \in {"waiting", "cancelled"} /\ h \notin ready
      <3>1. Len(waiters) \in Nat \ {0} /\ h = waiters[1] /\ h \in Procs
        BY <1>7, EmptySeq, HeadTailProperties DEF NotifyGrant, SemTypes
      <3> QED BY <3>1 DEF QueueShape
    <2> HIDE DEF h
    <2>2. /\ held[h] = 0 /\ held'[h] = n[h]
          /\ \A q \in Procs \ {h} : held'[q] = held[q]
      BY <1>7, <2>1 DEF NotifyGrant, held, Owner, SemTypes, h
    <2>3. cur' = cur + n[h] /\ cur + n[h] <= Size /\ n[h] \in 0..MaxN
      BY <1>7, <2>1 DEF NotifyGrant, SemTypes, h
    <2>4. held' = [held EXCEPT ![h] = n[h]]
      BY <2>1, <2>2, <1>t
    <2>5. CASE n[h] = 0
      BY <2>1, <2>2, <2>3, <2>4, <2>5, <1>t DEF SemTypes
    <2>6. CASE n[h] # 0
      <3>1. n[h] \in 1..MaxN
        BY <2>3, <2>6
      <3>2. Moves(h, n[h])
        BY <2>2, <2>3, <2>4 DEF Moves, SemTypes
      <3> QED BY <2>1, <2>2, <2>3, <3>1, <3>2
    <2> QED BY <2>5, <2>6
  <1>8. ASSUME NEW p \in Procs, NotifyDone(p)
        PROVE  Same
    <2>1. \A q \in Procs : held'[q] = held[q]
      BY <1>8 DEF NotifyDone, held, Owner, SemTypes, QueueShape
    <2> QED BY <1>8, <2>1, <1>t DEF NotifyDone
  <1>9. ASSUME UNCHANGED semVars
        PROVE  Same
    BY <1>9 DEF semVars, held, Owner
  <1> HIDE DEF Same, Up, Down
  <1>10. Same \/ Up \/ Down
    BY <1>1, <1>2, <1>3, <1>4, <1>5, <1>6, <1>7, <1>8, <1>9 DEF SemNext
  <1> QED BY <1>10 DEF Same, Up, Down

-----------------------------------------------------------------------------
\* The initial state has no units out.
LEMMA SemInvInit == SemInit => SemInv
  <1> SUFFICES ASSUME SemInit
               PROVE  SemInv
    OBVIOUS
  <1> USE SemaphoreAssumption
  <1>1. SemTypes
    BY EmptySeq DEF SemInit, SemTypes, States
  <1>2. QueueShape
    BY EmptySeq DEF SemInit, QueueShape
  <1>3. Pool!Units(held) = {}
    BY DEF SemInit, Pool!Units, held, Owner
  <1>4. Conservation
    BY <1>3, FS_EmptySet DEF SemInit, Conservation
  <1>5. cur <= Size
    BY DEF SemInit
  <1> QED BY <1>1, <1>2, <1>4, <1>5 DEF SemInv

\* Every step keeps the inductive invariant.
LEMMA SemInvStep ==
    ASSUME SemInv, [SemNext]_semVars
    PROVE  SemInv'
  <1> USE SemaphoreAssumption
  <1>1. SemTypes /\ QueueShape /\ Conservation /\ cur <= Size
    BY DEF SemInv
  <1>2. SemTypes'
    BY <1>1, SemTypesStep
  <1>3. QueueShape'
    BY <1>1, QueueShapeStep
  <1>4. held \in [Procs -> 0..MaxN]
    BY <1>1, HeldType
  <1>5. ASSUME held' = held, cur' = cur
        PROVE  Conservation' /\ cur' <= Size
    BY <1>1, <1>5, CounterStays
  <1>6. ASSUME NEW p \in Procs, NEW k \in 1..MaxN,
               Moves(p, k), held[p] = 0, cur + k <= Size
        PROVE  Conservation' /\ cur' <= Size
    <2>1. cur' = cur - held[p] + k /\ held' = [held EXCEPT ![p] = k] /\ k \in 0..MaxN
      BY <1>6 DEF Moves
    <2>2. Conservation'
      BY <1>1, <2>1, CounterFollows
    <2>3. cur' = cur + k
      BY <1>1, <1>6, <2>1 DEF SemTypes
    <2> QED BY <1>6, <2>2, <2>3
  <1>7. ASSUME NEW p \in Procs, NEW k \in 1..MaxN,
               k <= held[p], Moves(p, held[p] - k)
        PROVE  Conservation' /\ cur' <= Size
    <2>1. held[p] - k \in 0..MaxN /\ held[p] \in Nat
      BY <1>4, <1>7
    <2>2. cur' = cur - held[p] + (held[p] - k) /\ held' = [held EXCEPT ![p] = held[p] - k]
      BY <1>7 DEF Moves
    <2>3. Conservation'
      BY <1>1, <2>1, <2>2, CounterFollows
    <2>4. cur' <= cur
      <3> HIDE DEF held
      <3> QED BY <1>1, <2>1, <2>2 DEF SemTypes
    <2>5. cur \in Int /\ cur' \in Int
      BY <1>1, <1>2 DEF SemTypes
    <2> QED BY <1>1, <2>3, <2>4, <2>5
  <1>8. Conservation' /\ cur' <= Size
    BY <1>1, <1>5, <1>6, <1>7, StepMoves
  <1> QED BY <1>2, <1>3, <1>8 DEF SemInv

\* The invariant bounds the counter from below too: a number of units.
LEMMA SemInvTypes == SemInv => SemTypeOK
  <1> SUFFICES ASSUME SemInv
               PROVE  SemTypeOK
    OBVIOUS
  <1> USE SemaphoreAssumption
  <1>1. SemTypes /\ Conservation /\ cur <= Size
    BY DEF SemInv
  <1>2. IsFiniteSet(Pool!Units(held))
    <2>1. IsFiniteSet(1..MaxN)
      BY FS_Interval
    <2>2. IsFiniteSet(Procs \X (1..MaxN))
      BY <2>1, FS_Product, Zenon
    <2>3. Pool!Units(held) \subseteq Procs \X (1..MaxN)
      BY DEF Pool!Units
    <2> QED BY <2>2, <2>3, FS_Subset
  <1>3. Cardinality(Pool!Units(held)) \in Nat
    BY <1>2, FS_CardinalityType
  <1> QED BY <1>1, <1>3 DEF SemTypeOK, SemTypes, Conservation

\* The inductive invariant holds in every reachable state.
THEOREM SemaphoreInvariant == SemSpec => []SemInv
  <1>1. SemInit => SemInv
    BY SemInvInit
  <1>2. SemInv /\ [SemNext]_semVars => SemInv'
    BY SemInvStep
  <1> QED BY <1>1, <1>2, PTL DEF SemSpec

\* Types, with 0 <= cur <= size: no grant exceeds the size and Release's panic
\* ("semaphore released more than held") is unreachable for callers that
\* release what they own.
THEOREM SemaphoreTypeCorrect == SemSpec => []SemTypeOK
  BY SemaphoreInvariant, SemInvTypes, PTL

\* No race of a grant with a cancellation leaks a unit or hands one out twice:
\* s.cur is the number of units owned.
THEOREM SemaphoreConservation == SemSpec => []Conservation
  <1>1. SemInv => Conservation
    BY DEF SemInv
  <1> QED BY <1>1, SemaphoreInvariant, PTL

\* Bulkhead.Execute: at most MaxConcurrent callers are between Acquire and
\* Release, whatever the weights, because each owns at least one unit there.
HoldersOwn == \A p \in Procs : place[p] = "holding" => n[p] > 0

\* Callers ask for at least one unit and stop holding with the last one.
AsksForUnits ==
    /\ HoldersOwn
    /\ \A p \in Procs : place[p] \in {"waiting", "cancelled"} => n[p] > 0

LEMMA AsksForUnitsInvariant == SemSpec => []AsksForUnits
  <1>1. SemInit => AsksForUnits
    BY DEF SemInit, AsksForUnits, HoldersOwn
  <1>2. SemTypes /\ AsksForUnits /\ [SemNext]_semVars => AsksForUnits'
    <2> SUFFICES ASSUME SemTypes, AsksForUnits, [SemNext]_semVars
                 PROVE  AsksForUnits'
      OBVIOUS
    <2> USE SemaphoreAssumption DEF SemTypes, AsksForUnits, HoldersOwn
    <2>1. ASSUME NEW p \in Procs, NEW k \in 1..MaxN,
                 AcquireNow(p, k) \/ Enqueue(p, k) \/ Release(p, k)
          PROVE  AsksForUnits'
      <3>1. CASE AcquireNow(p, k)
        BY <3>1 DEF AcquireNow
      <3>2. CASE Enqueue(p, k)
        BY <3>2 DEF Enqueue
      <3>3. CASE Release(p, k)
        BY <3>3 DEF Release
      <3> QED BY <2>1, <3>1, <3>2, <3>3
    <2>2. ASSUME NEW p \in Procs, WakeUp(p) \/ CtxDone(p) \/ Cancel(p)
          PROVE  AsksForUnits'
      BY <2>2 DEF WakeUp, CtxDone, Cancel
    <2>3. ASSUME NEW p \in Procs, NotifyGrant(p) \/ NotifyDone(p)
          PROVE  AsksForUnits'
      BY <2>3 DEF NotifyGrant, NotifyDone
    <2>4. CASE UNCHANGED semVars
      BY <2>4 DEF semVars
    <2> QED BY <2>1, <2>2, <2>3, <2>4 DEF SemNext
  <1>3. SemInv => SemTypes
    BY DEF SemInv
  <1> QED BY <1>1, <1>2, <1>3, SemaphoreInvariant, PTL DEF SemSpec

\* Bulkhead's promise for every limit and every number of callers.
THEOREM BulkheadLimit == SemSpec => []MaxInFlight
  <1>1. SemInv /\ AsksForUnits => MaxInFlight
    <2> SUFFICES ASSUME SemInv, AsksForUnits
                 PROVE  MaxInFlight
      OBVIOUS
    <2> USE SemaphoreAssumption
    <2> DEFINE F == {p \in Procs : place[p] = "holding"}
               U == Pool!Units(held)
               f == [p \in F |-> <<p, 1>>]
    <2>1. IsFiniteSet(U)
      <3>1. IsFiniteSet(1..MaxN)
        BY FS_Interval
      <3>2. IsFiniteSet(Procs \X (1..MaxN))
        BY <3>1, FS_Product, Zenon
      <3>3. U \subseteq Procs \X (1..MaxN)
        BY DEF Pool!Units
      <3> QED BY <3>2, <3>3, FS_Subset
    <2>2. \A p \in F : <<p, 1>> \in U
      BY DEF Pool!Units, held, Owner, AsksForUnits, HoldersOwn, SemInv, SemTypes
    <2> HIDE DEF U
    <2>3. f \in Injection(F, U)
      BY <2>2 DEF Injection, IsInjective
    <2> HIDE DEF f, F
    <2>4. Cardinality(F) <= Cardinality(U)
      BY <2>1, <2>3, FS_Injection
    <2>5. Cardinality(U) = cur /\ cur <= Size /\ cur \in Int
      BY DEF SemInv, SemTypes, Conservation, U
    <2>6. IsFiniteSet(F) /\ Cardinality(F) \in Nat
      BY <2>1, <2>3, FS_Injection, FS_CardinalityType
    <2> QED BY <2>4, <2>5, <2>6 DEF MaxInFlight, F
  <1> QED BY <1>1, SemaphoreInvariant, AsksForUnitsInvariant, PTL

\* With weights within the size, a non-empty queue is never left without a
\* holder whose Release will serve it.
THEOREM SemaphoreNoStrandedQueue ==
    ASSUME MaxN <= Size
    PROVE  SemSpec => []NoStrandedQueue
  <1>1. SemInit => NoStrandedQueue
    BY DEF SemInit, NoStrandedQueue
  <1>2. SemTypes /\ NoStrandedQueue /\ [SemNext]_semVars => NoStrandedQueue'
    <2> SUFFICES ASSUME SemTypes, NoStrandedQueue, [SemNext]_semVars
                 PROVE  NoStrandedQueue'
      OBVIOUS
    <2> USE SemaphoreAssumption DEF SemTypes, NoStrandedQueue, SemUnlocked
    <2>1. ASSUME NEW p \in Procs, NEW k \in 1..MaxN, AcquireNow(p, k)
          PROVE  NoStrandedQueue'
      BY <2>1 DEF AcquireNow, FitsNow
    <2>2. ASSUME NEW p \in Procs, NEW k \in 1..MaxN, Enqueue(p, k)
          PROVE  NoStrandedQueue'
      BY <2>2 DEF Enqueue, FitsNow
    <2>3. ASSUME NEW p \in Procs, NEW k \in 1..MaxN, Release(p, k)
          PROVE  NoStrandedQueue'
      BY <2>3 DEF Release
    <2>4. ASSUME NEW p \in Procs, WakeUp(p) \/ CtxDone(p)
          PROVE  NoStrandedQueue'
      BY <2>4 DEF WakeUp, CtxDone
    <2>5. ASSUME NEW p \in Procs, Cancel(p)
          PROVE  NoStrandedQueue'
      <3>1. CASE p \in ready
        BY <2>5, <3>1 DEF Cancel
      <3>2. CASE p \notin ready /\ waiters = <<>>
        <4>1. ~\E i \in 1..Len(waiters) : waiters[i] = p
          BY <3>2, EmptySeq
        <4> QED BY <2>5, <3>2, <4>1 DEF Cancel, LeaveQueue
      <3>3. CASE p \notin ready /\ waiters # <<>>
        BY <2>5, <3>3 DEF Cancel
      <3> QED BY <3>1, <3>2, <3>3
    <2>6. ASSUME NEW p \in Procs, NotifyGrant(p)
          PROVE  NoStrandedQueue'
      BY <2>6 DEF NotifyGrant
    <2>7. ASSUME NEW p \in Procs, NotifyDone(p)
          PROVE  NoStrandedQueue'
      <3>1. CASE waiters # <<>>
        <4>1. Head(waiters) \in Procs
          BY <3>1, HeadTailProperties
        <4> QED BY <2>7, <3>1, <4>1 DEF NotifyDone
      <3>2. CASE waiters = <<>>
        BY <2>7, <3>2 DEF NotifyDone
      <3> QED BY <3>1, <3>2
    <2>8. CASE UNCHANGED semVars
      BY <2>8 DEF semVars
    <2> QED BY <2>1, <2>2, <2>3, <2>4, <2>5, <2>6, <2>7, <2>8 DEF SemNext
  <1>3. SemInv => SemTypes
    BY DEF SemInv
  <1> QED BY <1>1, <1>2, <1>3, SemaphoreInvariant, PTL DEF SemSpec

\* The queue, the mutex and the cancellation race implement the plain pool:
\* every step is a grant that fits, a give-back, or invisible.
THEOREM SemaphoreImplementsPool == SemSpec => ImplementsPool
  <1> USE SemaphoreAssumption
  <1>1. SemInit => Pool!PoolInit
    BY DEF SemInit, Pool!PoolInit, held, Owner
  <1>2. SemInv /\ [SemNext]_semVars => [Pool!PoolNext]_held
    <2> SUFFICES ASSUME SemInv, [SemNext]_semVars
                 PROVE  [Pool!PoolNext]_held
      OBVIOUS
    <2>1. SemTypes /\ QueueShape /\ Conservation
      BY DEF SemInv
    <2>2. Pool!Used = cur
      <3>1. Pool!Used = Cardinality(Pool!Units(held))
        BY Zenon DEF Pool!Used, Pool!Cardinality, Cardinality
      <3> QED BY <2>1, <3>1 DEF Conservation
    <2>3. ASSUME NEW p \in Procs, NEW k \in 1..MaxN,
                 Moves(p, k), held[p] = 0, cur + k <= Size
          PROVE  Pool!Grant(p, k)
      BY <2>2, <2>3 DEF Pool!Grant, Moves
    <2>4. ASSUME NEW p \in Procs, NEW k \in 1..MaxN,
                 k <= held[p], Moves(p, held[p] - k)
          PROVE  Pool!GiveBack(p, k)
      BY <2>4 DEF Pool!GiveBack, Moves
    <2> HIDE DEF held
    <2> QED BY <2>1, <2>3, <2>4, StepMoves DEF Pool!PoolNext
  <1> QED BY <1>1, <1>2, SemaphoreInvariant, PTL
            DEF SemSpec, ImplementsPool, Pool!PoolSpec

\* FIFO admission for every number of callers and every mix of weights.
THEOREM SemaphoreFIFO == SemSpec => NoOvertaking
  <1> DEFINE Fifo == \A p \in Procs : ~Owner(p) /\ Owner(p)' => Ahead(p) = {}
  <1>1. SemInv /\ [SemNext]_semVars => [Fifo]_semVars
    <2> SUFFICES ASSUME SemInv, SemNext, NEW p \in Procs, ~Owner(p), Owner(p)'
                 PROVE  Ahead(p) = {}
      OBVIOUS
    <2> USE SemaphoreAssumption DEF SemInv, SemTypes, QueueShape
    <2>1. ASSUME NEW q \in Procs, NEW k \in 1..MaxN, AcquireNow(q, k)
          PROVE  Ahead(p) = {}
      <3>1. Len(waiters) = 0
        BY <2>1, EmptySeq DEF AcquireNow, FitsNow
      <3> QED BY <3>1 DEF Ahead
    <2>2. ASSUME NEW q \in Procs, NEW k \in 1..MaxN, Enqueue(q, k)
          PROVE  FALSE
      BY <2>2 DEF Enqueue, Owner
    <2>3. ASSUME NEW q \in Procs, NEW k \in 1..MaxN, Release(q, k)
          PROVE  FALSE
      BY <2>3 DEF Release, Owner
    <2>4. ASSUME NEW q \in Procs, WakeUp(q) \/ CtxDone(q)
          PROVE  FALSE
      BY <2>4 DEF WakeUp, CtxDone, Owner
    <2>5. ASSUME NEW q \in Procs, Cancel(q)
          PROVE  FALSE
      BY <2>5 DEF Cancel, Owner
    <2>6. ASSUME NEW q \in Procs, NotifyGrant(q)
          PROVE  Ahead(p) = {}
      <3>1. Len(waiters) \in Nat \ {0} /\ Head(waiters) = waiters[1]
        BY <2>6, EmptySeq DEF NotifyGrant
      <3>2. p = Head(waiters)
        BY <2>6 DEF NotifyGrant, Owner
      <3> QED BY <3>1, <3>2 DEF Ahead
    <2>7. ASSUME NEW q \in Procs, NotifyDone(q)
          PROVE  FALSE
      BY <2>7 DEF NotifyDone, Owner
    <2> QED BY <2>1, <2>2, <2>3, <2>4, <2>5, <2>6, <2>7 DEF SemNext
  <1>2. [Fifo]_semVars => [\A p \in Procs : ~Owner(p) /\ Owner(p)' => Ahead(p) = {}]_semVars
    OBVIOUS
  <1> QED BY <1>1, <1>2, SemaphoreInvariant, PTL DEF SemSpec, NoOvertaking

\* A step that leaves the mutex, the head of the queue, its weight and cur alone
\* loses no wake-up.
LEMMA SameHead ==
    ASSUME cur' = cur, waiters # <<>>, waiters' # <<>>,
           Head(waiters') = Head(waiters), n'[Head(waiters)] = n[Head(waiters)],
           SemUnlocked, LostWakeup'
    PROVE  LostWakeup
  BY DEF LostWakeup

\* A grant, a release, a raced cancellation or a newcomer never leaves behind
\* a free mutex and a head of the queue that fits: only a caller that gives up at
\* the head does, since Acquire's cleanup unlocks without notifyWaiters.
THEOREM SemaphoreWakeups == SemSpec => WakeupLostByHeadOnly
  <1> DEFINE ByHead == ~LostWakeup /\ LostWakeup' => \E p \in Procs : UngrantedHead(p)
  <1>1. SemInv /\ [SemNext]_semVars => [ByHead]_semVars
    <2> SUFFICES ASSUME SemInv, SemNext, ~LostWakeup, LostWakeup'
                 PROVE  \E p \in Procs : UngrantedHead(p)
      OBVIOUS
    <2> USE SemaphoreAssumption DEF SemInv, SemTypes, QueueShape
    <2>0. /\ SemUnlocked' /\ waiters' # <<>>
          /\ Size - cur' >= n'[Head(waiters')]
      BY DEF LostWakeup
    <2>1. ASSUME NEW p \in Procs, NEW k \in 1..MaxN, AcquireNow(p, k)
          PROVE  FALSE
      BY <2>0, <2>1 DEF AcquireNow, FitsNow
    <2>2. ASSUME NEW p \in Procs, NEW k \in 1..MaxN, Enqueue(p, k)
          PROVE  FALSE
      <3>1. CASE waiters = <<>>
        <4>1. waiters' = <<p>> /\ n'[p] = k /\ cur' = cur /\ Size - cur < k
          BY <2>2, <3>1 DEF Enqueue, FitsNow
        <4>2. Head(waiters') = p
          BY <4>1
        <4> QED BY <2>0, <4>1, <4>2
      <3>2. CASE waiters # <<>>
        <4>1. Len(waiters) \in Nat \ {0} /\ Head(waiters) = waiters[1]
          BY <3>2, EmptySeq
        <4>2. waiters' = Append(waiters, p) /\ cur' = cur /\ SemUnlocked /\ place[p] = "idle"
          BY <2>2 DEF Enqueue
        <4>3. Head(waiters') = Head(waiters)
          BY <4>1, <4>2
        <4>4. n'[Head(waiters)] = n[Head(waiters)]
          BY <2>2, <4>1, <4>2 DEF Enqueue
        <4> QED BY <2>0, <3>2, <4>2, <4>3, <4>4, SameHead
      <3> QED BY <3>1, <3>2
    <2>3. ASSUME NEW p \in Procs, NEW k \in 1..MaxN, Release(p, k)
          PROVE  FALSE
      BY <2>0, <2>3 DEF Release, SemUnlocked
    <2>4. ASSUME NEW p \in Procs, WakeUp(p) \/ CtxDone(p)
          PROVE  FALSE
      <3>1. SemUnlocked
        BY <2>0, <2>4 DEF WakeUp, CtxDone, SemUnlocked
      <3> QED BY <2>0, <2>4, <3>1 DEF WakeUp, CtxDone, LostWakeup
    <2>5. ASSUME NEW p \in Procs, Cancel(p)
          PROVE  UngrantedHead(p)
      <3>1. place[p] = "cancelled" /\ SemUnlocked
        BY <2>5 DEF Cancel
      <3>2. p \notin ready /\ cur' = cur
        BY <2>0, <2>5 DEF Cancel, SemUnlocked
      <3>3. waiters # <<>>
        <4>1. CASE waiters = <<>>
          <5>1. ~\E i \in 1..Len(waiters) : waiters[i] = p
            BY <4>1, EmptySeq
          <5> QED BY <2>0, <2>5, <4>1, <5>1 DEF Cancel, LeaveQueue
        <4> QED BY <4>1
      <3>4. Len(waiters) \in Nat \ {0} /\ Head(waiters) = waiters[1]
        BY <3>3, EmptySeq
      <3>5. CASE Head(waiters) # p
        <4>1. Head(waiters') = Head(waiters)
          <5>1. CASE UNCHANGED waiters
            BY <5>1
          <5>2. ASSUME NEW i \in 1..Len(waiters), waiters[i] = p,
                       waiters' = CutOut(waiters, i)
                PROVE  Head(waiters') = Head(waiters)
            <6>1. i > 1 /\ Len(waiters) > 1
              BY <3>4, <3>5, <5>2
            <6>2. /\ waiters' \in Seq(Procs) /\ Len(waiters') = Len(waiters) - 1
                  /\ waiters'[1] = waiters[1]
              <7>1. 1 \in 1..(Len(waiters) - 1)
                BY <6>1, <3>4
              <7> QED BY <5>2, <6>1, <7>1, CutOutProperties
            <6> QED BY <2>0, <3>4, <6>2, EmptySeq
          <5> QED BY <2>5, <5>1, <5>2 DEF Cancel, LeaveQueue
        <4>2. n'[Head(waiters)] = n[Head(waiters)]
          BY <2>5, <3>4, <3>5 DEF Cancel
        <4> QED BY <2>0, <3>1, <3>2, <3>3, <4>1, <4>2, SameHead
      <3> QED BY <3>1, <3>2, <3>3, <3>5 DEF UngrantedHead
    <2>6. ASSUME NEW p \in Procs, NotifyGrant(p)
          PROVE  FALSE
      BY <2>0, <2>6 DEF NotifyGrant, SemUnlocked
    <2>7. ASSUME NEW p \in Procs, NotifyDone(p)
          PROVE  FALSE
      <3>1. Head(waiters) \in Procs /\ waiters # <<>>
        BY <2>0, <2>7, HeadTailProperties DEF NotifyDone
      <3> QED BY <2>0, <2>7, <3>1 DEF NotifyDone
    <2> QED BY <2>1, <2>2, <2>3, <2>4, <2>5, <2>6, <2>7 DEF SemNext
  <1>2. [ByHead]_semVars =>
          [~LostWakeup /\ LostWakeup' => \E p \in Procs : UngrantedHead(p)]_semVars
    OBVIOUS
  <1> QED BY <1>1, <1>2, SemaphoreInvariant, PTL DEF SemSpec, WakeupLostByHeadOnly
=============================================================================
