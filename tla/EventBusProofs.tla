--------------------------- MODULE EventBusProofs ---------------------------
(***************************************************************************)
(* The event bus on its worker pool, for any number of publishers,         *)
(* handlers, workers and any queue capacity: no Submit meets the closed    *)
(* queue, and when the Close that won has returned every event a Publish   *)
(* vouched for has been handled exactly once.                              *)
(***************************************************************************)
EXTENDS EventBus, TLAPS

-----------------------------------------------------------------------------
(* Sequences without duplicates                                            *)

Elem(s, t) == \E i \in 1..Len(s) : s[i] = t
Distinct(s) == \A i, j \in 1..Len(s) : s[i] = s[j] => i = j

LEMMA AppendFacts ==
    ASSUME NEW S, NEW s \in Seq(S), NEW x \in S
    PROVE  /\ Append(s, x) \in Seq(S) /\ Len(Append(s, x)) = Len(s) + 1
           /\ \A t : Elem(Append(s, x), t) <=> (Elem(s, t) \/ t = x)
           /\ Distinct(s) /\ ~Elem(s, x) => Distinct(Append(s, x))
<1>1. /\ Append(s, x) \in Seq(S) /\ Len(Append(s, x)) = Len(s) + 1 /\ Len(s) \in Nat
      /\ Append(s, x)[Len(s) + 1] = x
      /\ \A i \in 1..Len(s) : Append(s, x)[i] = s[i]
    OBVIOUS
<1>2. \A i \in 1..(Len(s) + 1) : i \in 1..Len(s) \/ i = Len(s) + 1
    BY <1>1
<1>3. \A i \in 1..Len(s) : i \in 1..(Len(s) + 1)
    BY <1>1
<1>4. Len(s) + 1 \in 1..(Len(s) + 1)
    BY <1>1
<1>5. \A t : Elem(Append(s, x), t) <=> (Elem(s, t) \/ t = x)
    BY <1>1, <1>2, <1>3, <1>4 DEF Elem
<1>6. ASSUME Distinct(s), ~Elem(s, x) PROVE Distinct(Append(s, x))
    BY <1>1, <1>2, <1>6 DEF Distinct, Elem
<1> QED BY <1>1, <1>5, <1>6

LEMMA TailFacts ==
    ASSUME NEW S, NEW s \in Seq(S), s # <<>>
    PROVE  /\ Tail(s) \in Seq(S) /\ Len(Tail(s)) = Len(s) - 1
           /\ Head(s) \in S /\ Elem(s, Head(s))
           /\ \A t : Elem(Tail(s), t) => Elem(s, t)
           /\ \A t : Elem(s, t) => t = Head(s) \/ Elem(Tail(s), t)
           /\ Distinct(s) => Distinct(Tail(s)) /\ ~Elem(Tail(s), Head(s))
<1>1. /\ Tail(s) \in Seq(S) /\ Len(Tail(s)) = Len(s) - 1 /\ Len(s) \in Nat /\ Len(s) # 0
      /\ Head(s) = s[1] /\ Head(s) \in S
      /\ \A i \in 1..(Len(s) - 1) : Tail(s)[i] = s[i + 1]
    OBVIOUS
<1>2. \A i \in 1..(Len(s) - 1) : i + 1 \in 1..Len(s) /\ i + 1 # 1
    BY <1>1
<1>3. \A j \in 1..Len(s) : j = 1 \/ (j - 1 \in 1..(Len(s) - 1) /\ (j - 1) + 1 = j)
    BY <1>1
<1>4. 1 \in 1..Len(s)
    BY <1>1
<1>5. \A t : Elem(Tail(s), t) => Elem(s, t)
    BY <1>1, <1>2 DEF Elem
<1>6. \A t : Elem(s, t) => t = Head(s) \/ Elem(Tail(s), t)
    BY <1>1, <1>3 DEF Elem
<1>7. ASSUME Distinct(s) PROVE Distinct(Tail(s)) /\ ~Elem(Tail(s), Head(s))
    BY <1>1, <1>2, <1>4, <1>7 DEF Elem, Distinct
<1> QED BY <1>1, <1>4, <1>5, <1>6, <1>7 DEF Elem

LEMMA RemoveAtFacts ==
    ASSUME NEW S, NEW s \in Seq(S), NEW i \in DOMAIN s
    PROVE  /\ RemoveAt(s, i) \in Seq(S)
           /\ Distinct(s) => Distinct(RemoveAt(s, i))
<1> DEFINE r == RemoveAt(s, i)
<1>1. Len(s) \in Nat /\ i \in 1..Len(s)
    OBVIOUS
<1>2. /\ SubSeq(s, 1, i - 1) \in Seq(S) /\ Len(SubSeq(s, 1, i - 1)) = i - 1
      /\ \A j \in 1..(i - 1) : SubSeq(s, 1, i - 1)[j] = s[j]
    BY <1>1
<1>3. /\ SubSeq(s, i + 1, Len(s)) \in Seq(S) /\ Len(SubSeq(s, i + 1, Len(s))) = Len(s) - i
      /\ \A j \in 1..(Len(s) - i) : SubSeq(s, i + 1, Len(s))[j] = s[i + j]
    BY <1>1
<1>4. /\ r \in Seq(S) /\ Len(r) = Len(s) - 1
      /\ \A j \in 1..(Len(s) - 1) : r[j] = IF j < i THEN s[j] ELSE s[j + 1]
    <2> DEFINE x == SubSeq(s, 1, i - 1)
               y == SubSeq(s, i + 1, Len(s))
    <2>1. r = x \o y
        BY DEF RemoveAt
    <2> HIDE DEF x, y
    <2>2. x \in Seq(S) /\ y \in Seq(S) /\ Len(x) = i - 1 /\ Len(y) = Len(s) - i
        BY <1>2, <1>3 DEF x, y
    <2>3. r \in Seq(S) /\ Len(r) = Len(x) + Len(y)
        BY <2>1, <2>2
    <2>4. ASSUME NEW j \in 1..(Len(s) - 1)
          PROVE  r[j] = IF j < i THEN s[j] ELSE s[j + 1]
        <3>1. CASE j < i
            <4>1. j \in 1..(i - 1) /\ j \in 1..Len(x)
                BY <1>1, <2>2, <3>1
            <4>2. r[j] = x[j]
                BY <2>1, <2>2, <4>1
            <4> QED BY <1>2, <3>1, <4>1, <4>2 DEF x
        <3>2. CASE ~(j < i)
            <4>1. j - Len(x) \in 1..(Len(s) - i) /\ j - Len(x) \in 1..Len(y)
                  /\ i + (j - Len(x)) = j + 1
                BY <1>1, <2>2, <3>2
            <4>2. r[j] = y[j - Len(x)]
                <5>1. j \in 1..(Len(x) + Len(y)) /\ ~(j <= Len(x))
                    BY <1>1, <2>2, <3>2
                <5> QED BY <2>1, <2>2, <5>1
            <4> QED BY <1>3, <3>2, <4>1, <4>2 DEF y
        <3> QED BY <3>1, <3>2
    <2> QED BY <1>1, <2>2, <2>3, <2>4
<1>5. ASSUME Distinct(s) PROVE Distinct(r)
    <2> HIDE DEF r
    <2> SUFFICES ASSUME NEW j \in 1..Len(r), NEW k \in 1..Len(r), r[j] = r[k]
                 PROVE  j = k
        BY DEF Distinct
    <2> DEFINE at(m) == IF m < i THEN m ELSE m + 1
    <2>1. at(j) \in 1..Len(s) /\ at(k) \in 1..Len(s) /\ s[at(j)] = s[at(k)]
        BY <1>1, <1>4
    <2>2. at(j) = at(k)
        BY <1>5, <2>1 DEF Distinct
    <2> QED BY <1>1, <1>4, <2>2
<1> QED BY <1>4, <1>5

-----------------------------------------------------------------------------
(* The inductive invariant                                                 *)

Sending(p) == publish[p].pc \in {"next", "count", "submit"}

\* Close lets every Publish finish before it waits for the handlers, and every
\* handler before it stops the pool.
CloseInv ==
    /\ closed <=> closer # "open"
    /\ queueClosed => closer \in {"stop", "returned"}
    /\ closer \in {"wg", "stop", "returned"} => \A p \in Publishers : ~Sending(p)
    /\ closer \in {"stop", "returned"} => submitted = {}
    /\ closer = "returned" /\ async => Stopped

\* Without async dispatch there is no pool.
SyncInv ==
    ~async => /\ taskQueue = <<>> /\ submitted = {}
              /\ \A p \in Publishers : publish[p].pc \notin {"count", "submit"}

Held(t) == \E w \in Workers : task[w] = t

\* A task is queued or held by one worker, at most once in all, and counted in
\* wg until its handler has run.
QueueInv ==
    /\ Distinct(taskQueue)
    /\ \A t \in Tasks : Elem(taskQueue, t) => t \in submitted /\ ~Held(t)
    /\ \A w \in Workers : task[w] \in Tasks =>
          /\ task[w] \in submitted
          /\ \A x \in Workers : task[x] = task[w] => x = w
    /\ \A t \in submitted : handled[t] = 0

\* What a Publish may rely on of a task: nobody knows it; wg.Add is done for it
\* and it is not yet in the queue; it is on its way or its handler has run.
Untouched(t) == handled[t] = 0 /\ t \notin submitted
AtHand(t) == t \in submitted /\ ~Elem(taskQueue, t) /\ ~Held(t)
Settled(t) == handled[t] = 1 \/ t \in submitted

PublishOK(p) ==
    /\ \A k \in 1..MaxPublish, h \in Handlers :
          k > publish[p].k \/ (k = publish[p].k /\ publish[p].pc \in {"add", "snapshot"}) =>
              Untouched(<<p, k, h>>)
    /\ Distinct(publish[p].todo)
    /\ publish[p].todo # <<>> => Sending(p)
    /\ publish[p].pc \in {"count", "submit"} => publish[p].todo # <<>>
    /\ publish[p].pc # "idle" => publish[p].k \in 1..MaxPublish
    /\ \A t \in Tasks : Elem(publish[p].todo, t) =>
          /\ t[1] = p /\ t[2] = publish[p].k
          /\ IF publish[p].pc = "submit" /\ t = Head(publish[p].todo)
             THEN AtHand(t) ELSE Untouched(t)
    /\ Sending(p) => \A t \in publish[p].snapshot : Elem(publish[p].todo, t) \/ Settled(t)

AcceptedInv == \A t \in accepted : Settled(t)

BusInv ==
    /\ BusTypeOK /\ CloseInv /\ SyncInv /\ QueueInv /\ AcceptedInv /\ Distinct(subs)
    /\ \A p \in Publishers : PublishOK(p)

PublishStates ==
    [pc : {"idle", "add", "snapshot", "next", "count", "submit"}, k : 0..MaxPublish,
     todo : Seq(Tasks), snapshot : SUBSET Tasks]

LEMMA InitBusInv == BusInit => BusInv
<1> SUFFICES ASSUME BusInit PROVE BusInv
    OBVIOUS
<1> USE DEF BusInit, PoolInit
<1>1. Idle \in PublishStates
    <2>1. <<>> \in Seq(Tasks) /\ 0 \in 0..MaxPublish
        BY BusAssumption
    <2> QED BY <2>1 DEF Idle, PublishStates
<1>2. publish \in [Publishers -> PublishStates]
    BY <1>1
<1>3. PoolTypeOK(Tasks)
    <2>1. taskQueue \in Seq(Tasks) /\ Len(taskQueue) <= QueueSize
        BY PoolAssumption
    <2>2. task \in [Workers -> Tasks \cup {NoTask, Gone}]
        OBVIOUS
    <2>3. queueClosed \in BOOLEAN /\ poolDone \in BOOLEAN
        OBVIOUS
    <2> QED BY <2>1, <2>2, <2>3 DEF PoolTypeOK
<1>4. BusTypeOK
    <2>1. async \in BOOLEAN /\ closed \in BOOLEAN
        OBVIOUS
    <2>2. subs \in Seq(Handlers) /\ handled \in [Tasks -> 0..1]
        OBVIOUS
    <2>3. closer \in {"open", "clear", "inflight", "wg", "stop", "returned"}
        OBVIOUS
    <2>4. submitted \in SUBSET Tasks /\ accepted \in SUBSET Tasks
        OBVIOUS
    <2> QED BY <1>2, <1>3, <2>1, <2>2, <2>3, <2>4 DEF BusTypeOK, PublishStates
<1>5. CloseInv /\ SyncInv /\ AcceptedInv
    BY DEF CloseInv, SyncInv, AcceptedInv, Sending, Idle
<1>6. QueueInv
    BY BusAssumption DEF QueueInv, Distinct, Elem
<1>7. Distinct(subs)
    BY DEF Distinct
<1>8. \A p \in Publishers : PublishOK(p)
    <2> TAKE p \in Publishers
    <2>1. publish[p].pc = "idle" /\ publish[p].todo = <<>>
        BY DEF Idle
    <2>2. \A t \in Tasks : Untouched(t)
        BY DEF Untouched
    <2>3. \A k \in 1..MaxPublish, h \in Handlers : <<p, k, h>> \in Tasks
        BY DEF Tasks
    <2> QED BY <2>1, <2>2, <2>3 DEF PublishOK, Distinct, Elem, Sending
<1> QED BY <1>4, <1>5, <1>6, <1>7, <1>8 DEF BusInv

LEMMA PublishType ==
    ASSUME BusTypeOK, NEW p \in Publishers
    PROVE  /\ publish \in [Publishers -> PublishStates] /\ publish[p] \in PublishStates
           /\ publish[p].k \in Nat /\ publish[p].todo \in Seq(Tasks)
           /\ publish[p].snapshot \in SUBSET Tasks
BY BusAssumption DEF BusTypeOK, PublishStates

\* The tasks of publisher q mean to it what they meant.
Keeps(q) ==
    /\ \A t \in Tasks : t[1] = q =>
          (Untouched(t) => Untouched(t)') /\ (AtHand(t) => AtHand(t)')
    /\ \A t \in Tasks : Settled(t) => Settled(t)'

LEMMA OtherPublisher ==
    ASSUME BusTypeOK, NEW q \in Publishers, PublishOK(q), publish'[q] = publish[q], Keeps(q)
    PROVE  PublishOK(q)'
<1>1. \A k \in 1..MaxPublish, h \in Handlers : <<q, k, h>> \in Tasks /\ <<q, k, h>>[1] = q
    BY DEF Tasks
<1>2. \A k \in 1..MaxPublish, h \in Handlers :
         k > publish[q].k \/ (k = publish[q].k /\ publish[q].pc \in {"add", "snapshot"}) =>
             Untouched(<<q, k, h>>)'
    BY <1>1 DEF PublishOK, Keeps
<1>3. \A t \in Tasks : Elem(publish[q].todo, t) =>
          /\ t[1] = q /\ t[2] = publish[q].k
          /\ IF publish[q].pc = "submit" /\ t = Head(publish[q].todo)
             THEN AtHand(t)' ELSE Untouched(t)'
    BY DEF PublishOK, Keeps
<1>4. Sending(q) => \A t \in publish[q].snapshot : Elem(publish[q].todo, t) \/ Settled(t)'
    BY PublishType DEF PublishOK, Keeps
<1> QED BY <1>2, <1>3, <1>4 DEF PublishOK, Sending

\* A step of p that changes its locals, and what Publish has vouched for.
LEMMA PublisherMoves ==
    ASSUME BusInv, NEW p \in Publishers, NEW r \in PublishStates,
           publish' = [publish EXCEPT ![p] = r],
           UNCHANGED <<poolVars, async, closed, subs, closer, submitted, handled>>,
           accepted' \in SUBSET Tasks, \A t \in accepted' : t \in accepted \/ Settled(t),
           closer \in {"wg", "stop", "returned"} => r.pc \notin {"next", "count", "submit"},
           ~async => r.pc \notin {"count", "submit"},
           PublishOK(p)'
    PROVE  BusInv'
<1>1. /\ publish' \in [Publishers -> PublishStates] /\ publish'[p] = r
      /\ \A q \in Publishers : q # p => publish'[q] = publish[q]
    BY PublishType DEF BusInv
<1>2. BusTypeOK'
    BY <1>1 DEF BusInv, BusTypeOK, PoolTypeOK, PublishStates, poolVars
<1>3. CloseInv' /\ SyncInv'
    BY <1>1 DEF BusInv, CloseInv, SyncInv, Sending, Stopped, poolVars
<1>4. QueueInv' /\ AcceptedInv' /\ Distinct(subs)'
    BY DEF BusInv, QueueInv, AcceptedInv, Settled, Distinct, Elem, Held, poolVars
<1>5. \A q \in Publishers : Keeps(q)
    BY DEF Keeps, Untouched, AtHand, Settled, Elem, Held, poolVars
<1>6. \A q \in Publishers : q # p => PublishOK(q)'
    BY <1>1, <1>5, OtherPublisher DEF BusInv
<1> QED BY <1>2, <1>3, <1>4, <1>6 DEF BusInv

\* Publish returns: done is what nil vouches for.
LEMMA ReturnBus ==
    ASSUME BusInv, NEW p \in Publishers, NEW done \in SUBSET Tasks, ReturnFrom(p, done),
           \A t \in done : Settled(t),
           UNCHANGED <<poolVars, async, closed, subs, closer, submitted, handled>>
    PROVE  BusInv'
<1> DEFINE r == [publish[p] EXCEPT !.pc = "idle", !.todo = <<>>, !.snapshot = {}]
<1>1. publish' = [publish EXCEPT ![p] = r] /\ accepted' = accepted \cup done
    BY DEF ReturnFrom, GoOn
<1>2. publish[p] \in PublishStates /\ <<>> \in Seq(Tasks)
    BY PublishType DEF BusInv
<1>3. /\ r \in PublishStates /\ r.pc = "idle" /\ r.todo = <<>> /\ r.snapshot = {}
      /\ r.k = publish[p].k
    BY <1>2 DEF PublishStates
<1> HIDE DEF r
<1>4. publish'[p] = r
    BY <1>1, PublishType DEF BusInv
<1>5. PublishOK(p)'
    <2>1. PublishOK(p)
        BY DEF BusInv
    <2> QED BY <1>3, <1>4, <2>1 DEF PublishOK, Untouched, Sending, Distinct, Elem
<1>6. accepted' \in SUBSET Tasks
    BY <1>1 DEF BusInv, BusTypeOK
<1> QED BY <1>1, <1>3, <1>5, <1>6, PublisherMoves

LEMMA PublishBus ==
    ASSUME BusInv, NEW p \in Publishers, Publish(p)
    PROVE  BusInv'
<1> DEFINE r == [publish[p] EXCEPT !.pc = "add", !.k = publish[p].k + 1]
<1>1. /\ publish' = [publish EXCEPT ![p] = r] /\ publish[p].pc = "idle"
      /\ UNCHANGED <<poolVars, async, closed, subs, closer, submitted, handled, accepted>>
    BY DEF Publish, GoOn, histVars
<1>2. publish[p] \in PublishStates /\ publish[p].k \in Nat
    BY PublishType DEF BusInv
<1>3. publish[p].k + 1 \in 0..MaxPublish /\ publish[p].k + 1 \in 1..MaxPublish
    BY <1>2, BusAssumption DEF Publish, PublishStates
<1>4. /\ r \in PublishStates /\ r.pc = "add" /\ r.todo = publish[p].todo
      /\ r.k = publish[p].k + 1
    BY <1>2, <1>3 DEF PublishStates
<1> HIDE DEF r
<1>5. publish'[p] = r
    BY <1>1, PublishType DEF BusInv
<1>6. PublishOK(p)'
    <2>1. PublishOK(p) /\ publish[p].todo = <<>>
        BY <1>1 DEF BusInv, PublishOK, Sending
    <2>2. \A k \in 1..MaxPublish : k >= publish[p].k + 1 => k > publish[p].k
        BY <1>2
    <2>3. \A k \in 1..MaxPublish, h \in Handlers :
             k > r.k \/ k = r.k => Untouched(<<p, k, h>>)
        BY <1>2, <1>4, <2>1, <2>2 DEF PublishOK
    <2>4. \A t \in Tasks : ~Elem(publish[p].todo, t)
        BY <2>1 DEF Elem
    <2>5. \A k \in 1..MaxPublish, h \in Handlers :
             k > r.k \/ k = r.k => Untouched(<<p, k, h>>)'
        BY <1>1, <2>3 DEF Untouched
    <2>6. Distinct(r.todo) /\ r.todo = <<>>
        BY <1>4, <2>1 DEF Distinct
    <2> QED BY <1>3, <1>4, <1>5, <2>4, <2>5, <2>6 DEF PublishOK, Sending
<1>7. accepted' \in SUBSET Tasks
    BY <1>1 DEF BusInv, BusTypeOK
<1> QED BY <1>1, <1>4, <1>6, <1>7, PublisherMoves

LEMMA AddInflightBus ==
    ASSUME BusInv, NEW p \in Publishers, AddInflight(p)
    PROVE  BusInv'
<1> DEFINE r == [publish[p] EXCEPT !.pc = "snapshot"]
<1>1. /\ publish' = [publish EXCEPT ![p] = r] /\ publish[p].pc = "add"
      /\ UNCHANGED <<poolVars, async, closed, subs, closer, submitted, handled, accepted>>
    BY DEF AddInflight, GoOn, histVars
<1>2. publish[p] \in PublishStates
    BY PublishType DEF BusInv
<1>3. /\ r \in PublishStates /\ r.pc = "snapshot" /\ r.todo = publish[p].todo
      /\ r.k = publish[p].k
    BY <1>2 DEF PublishStates
<1> HIDE DEF r
<1>4. publish'[p] = r
    BY <1>1, PublishType DEF BusInv
<1>5. PublishOK(p)'
    <2>1. PublishOK(p) /\ publish[p].todo = <<>>
        BY <1>1 DEF BusInv, PublishOK, Sending
    <2> QED BY <1>1, <1>3, <1>4, <2>1 DEF PublishOK, Sending, Untouched, Elem
<1>6. accepted' \in SUBSET Tasks
    BY <1>1 DEF BusInv, BusTypeOK
<1> QED BY <1>1, <1>3, <1>5, <1>6, PublisherMoves

LEMMA SnapshotBus ==
    ASSUME BusInv, NEW p \in Publishers, Snapshot(p)
    PROVE  BusInv'
<1> DEFINE k == publish[p].k
           tasks == [i \in DOMAIN subs |-> <<p, k, subs[i]>>]
           r == [publish[p] EXCEPT !.pc = "next", !.todo = tasks, !.snapshot = ToSet(tasks)]
<1>1. /\ publish[p].pc = "snapshot"
      /\ UNCHANGED <<poolVars, async, closed, subs, closer, submitted, handled>>
    BY DEF Snapshot
<1>2. CASE ReturnFrom(p, {})
    BY <1>1, <1>2, ReturnBus
<1>3. CASE ~closed /\ publish' = [publish EXCEPT ![p] = r] /\ UNCHANGED accepted
    <2>1. publish[p] \in PublishStates /\ k \in 1..MaxPublish /\ PublishOK(p)
        BY <1>1, PublishType DEF BusInv, PublishOK
    <2>2. subs \in Seq(Handlers) /\ Distinct(subs)
        BY DEF BusInv, BusTypeOK
    <2>3. /\ Len(subs) \in Nat /\ DOMAIN subs = 1..Len(subs)
          /\ \A i \in 1..Len(subs) : subs[i] \in Handlers
        BY <2>2
    <2>4. \A i \in 1..Len(subs) : tasks[i] = <<p, k, subs[i]>> /\ tasks[i] \in Tasks
        BY <2>1, <2>3 DEF Tasks
    <2>5. tasks \in Seq(Tasks) /\ Len(tasks) = Len(subs)
        <3> HIDE DEF k
        <3> QED BY <2>3, <2>4
    <2>6. \A t \in ToSet(tasks) : t \in Tasks /\ Elem(tasks, t)
        <3>1. ASSUME NEW t \in ToSet(tasks) PROVE t \in Tasks /\ Elem(tasks, t)
            <4>1. PICK i \in 1..Len(subs) : t = tasks[i]
                BY <2>3, <3>1 DEF ToSet
            <4> QED BY <2>4, <2>5, <4>1 DEF Elem
        <3> QED BY <3>1
    <2>7. Distinct(tasks)
        BY <2>2, <2>4, <2>5 DEF Distinct
    <2>8. \A t \in Tasks : Elem(tasks, t) => t[1] = p /\ t[2] = k /\ Untouched(t)
        <3>1. ASSUME NEW i \in 1..Len(subs)
              PROVE  tasks[i][1] = p /\ tasks[i][2] = k /\ Untouched(tasks[i])
            <4>1. Untouched(<<p, k, subs[i]>>)
                BY <1>1, <2>1, <2>3 DEF PublishOK
            <4> QED BY <2>4, <4>1
        <3> QED BY <2>5, <3>1 DEF Elem
    <2> HIDE DEF tasks
    <2>9. r \in PublishStates
        BY <2>1, <2>5, <2>6 DEF PublishStates
    <2>10. /\ r.pc = "next" /\ r.todo = tasks /\ r.snapshot = ToSet(tasks)
           /\ r.k = k
        BY <2>1 DEF PublishStates
    <2> HIDE DEF r
    <2>11. publish'[p] = r
        BY <1>3, PublishType DEF BusInv
    <2>12. PublishOK(p)'
        <3>1. \A j \in 1..MaxPublish, h \in Handlers : j > k => Untouched(<<p, j, h>>)'
            BY <1>1, <2>1 DEF PublishOK, Untouched
        <3>2. \A t \in Tasks : Elem(tasks, t) => t[1] = p /\ t[2] = k /\ Untouched(t)'
            BY <1>1, <2>8 DEF Untouched
        <3> HIDE DEF k
        <3> QED BY <2>1, <2>6, <2>7, <2>10, <2>11, <3>1, <3>2 DEF PublishOK, Sending
    <2>13. closer = "open"
        BY <1>3 DEF BusInv, CloseInv
    <2>14. accepted' \in SUBSET Tasks
        BY <1>3 DEF BusInv, BusTypeOK
    <2> QED BY <1>1, <1>3, <2>9, <2>10, <2>12, <2>13, <2>14, PublisherMoves
<1> QED BY <1>2, <1>3 DEF Snapshot, GoOn

\* The round of publishSync: the handler of the next task runs.
LEMMA SyncRoundBus ==
    ASSUME BusInv, NEW p \in Publishers, publish[p].pc = "next", publish[p].todo # <<>>, ~async,
           handled' = [handled EXCEPT ![Head(publish[p].todo)] = @ + 1],
           publish' = [publish EXCEPT ![p] = [publish[p] EXCEPT !.todo = Tail(publish[p].todo)]],
           UNCHANGED <<poolVars, async, closed, subs, closer, submitted, accepted>>
    PROVE  BusInv'
<1> DEFINE todo == publish[p].todo
           r == [publish[p] EXCEPT !.todo = Tail(todo)]
<1>1. /\ publish[p] \in PublishStates /\ todo \in Seq(Tasks) /\ PublishOK(p)
      /\ publish \in [Publishers -> PublishStates] /\ handled \in [Tasks -> 0..1]
    BY PublishType DEF BusInv, BusTypeOK
<1>2. PICK t \in Tasks :
         /\ t = Head(todo) /\ Elem(todo, t) /\ Tail(todo) \in Seq(Tasks)
         /\ Distinct(Tail(todo)) /\ ~Elem(Tail(todo), t)
         /\ \A u : Elem(Tail(todo), u) => Elem(todo, u)
         /\ \A u : Elem(todo, u) => u = t \/ Elem(Tail(todo), u)
    BY <1>1, TailFacts DEF PublishOK
<1>3. t[1] = p /\ t[2] = publish[p].k /\ handled[t] = 0
    BY <1>1, <1>2 DEF PublishOK, Untouched
<1>4. /\ r \in PublishStates /\ r.pc = "next" /\ r.k = publish[p].k /\ r.todo = Tail(todo)
      /\ r.snapshot = publish[p].snapshot
    BY <1>1, <1>2 DEF PublishStates
<1>5. publish' = [publish EXCEPT ![p] = r]
    OBVIOUS
<1> HIDE DEF r, todo
<1>6. /\ publish' \in [Publishers -> PublishStates] /\ publish'[p] = r
      /\ \A q \in Publishers : q # p => publish'[q] = publish[q]
    BY <1>1, <1>4, <1>5
<1>7. /\ handled' \in [Tasks -> 0..1] /\ handled'[t] = 1
      /\ \A u \in Tasks : u # t => handled'[u] = handled[u]
    BY <1>1, <1>2, <1>3 DEF todo
<1>8. BusTypeOK'
    BY <1>6, <1>7 DEF BusInv, BusTypeOK, PoolTypeOK, PublishStates, poolVars
<1>9. CloseInv' /\ SyncInv'
    BY <1>4, <1>6 DEF BusInv, CloseInv, SyncInv, Sending, Stopped, poolVars
<1>10. submitted = {} /\ taskQueue = <<>>
    BY DEF BusInv, SyncInv
<1>11. QueueInv' /\ Distinct(subs)'
    BY <1>10 DEF BusInv, QueueInv, Distinct, Elem, Held, poolVars
<1>12. \A u \in Tasks : Settled(u) => Settled(u)'
    BY <1>7 DEF Settled
<1>13. AcceptedInv'
    BY <1>12 DEF BusInv, BusTypeOK, AcceptedInv
<1>14. \A u \in Tasks : u # t => (Untouched(u) => Untouched(u)') /\ (AtHand(u) => AtHand(u)')
    BY <1>7 DEF Untouched, AtHand, Elem, Held, poolVars
<1>15. \A q \in Publishers : q # p => PublishOK(q)'
    <2> TAKE q \in Publishers
    <2> HAVE q # p
    <2>1. Keeps(q)
        BY <1>3, <1>12, <1>14 DEF Keeps
    <2> QED BY <1>6, <2>1, OtherPublisher DEF BusInv
<1>16. PublishOK(p)'
    <2>1. \A k \in 1..MaxPublish, h \in Handlers :
             k > publish[p].k => Untouched(<<p, k, h>>)'
        <3> TAKE k \in 1..MaxPublish, h \in Handlers
        <3> HAVE k > publish[p].k
        <3>1. <<p, k, h>> \in Tasks /\ <<p, k, h>>[2] = k /\ k # publish[p].k
            BY <1>1 DEF Tasks, PublishStates
        <3>2. Untouched(<<p, k, h>>)
            BY <1>1 DEF PublishOK
        <3> QED BY <1>3, <1>14, <3>1, <3>2
    <2>2. \A u \in Tasks : Elem(Tail(todo), u) => u[1] = p /\ u[2] = publish[p].k /\ Untouched(u)'
        BY <1>1, <1>2, <1>14 DEF PublishOK, todo
    <2>3. \A u \in publish[p].snapshot : Elem(Tail(todo), u) \/ Settled(u)'
        <3> TAKE u \in publish[p].snapshot
        <3>1. u \in Tasks /\ (Elem(todo, u) \/ Settled(u))
            BY <1>1 DEF PublishOK, PublishStates, Sending, todo
        <3>2. Settled(t)'
            BY <1>7 DEF Settled
        <3> QED BY <1>2, <1>12, <3>1, <3>2
    <2> QED BY <1>1, <1>2, <1>4, <1>6, <2>1, <2>2, <2>3 DEF PublishOK, Sending
<1> QED BY <1>8, <1>9, <1>11, <1>13, <1>15, <1>16 DEF BusInv

LEMMA NextTaskBus ==
    ASSUME BusInv, NEW p \in Publishers, NextTask(p)
    PROVE  BusInv'
<1> DEFINE r == publish[p]
           r2 == [r EXCEPT !.pc = "count"]
<1>1. /\ r.pc = "next" /\ UNCHANGED <<poolVars, async, closed, subs, closer, submitted>>
      /\ r \in PublishStates /\ PublishOK(p)
    BY PublishType DEF NextTask, BusInv
<1>2. CASE r.todo = <<>> /\ ReturnFrom(p, r.snapshot) /\ UNCHANGED handled
    <2>1. \A t \in r.snapshot : Settled(t)
        BY <1>1, <1>2 DEF PublishOK, Sending, Elem
    <2>2. r.snapshot \in SUBSET Tasks
        BY <1>1 DEF PublishStates
    <2> QED BY <1>1, <1>2, <2>1, <2>2, ReturnBus
<1>3. CASE ReturnFrom(p, {}) /\ UNCHANGED handled
    BY <1>1, <1>3, ReturnBus
<1>4. CASE /\ r.todo # <<>> /\ async /\ ~closed
           /\ GoOn(p, r2) /\ UNCHANGED histVars
    <2>1. /\ r2 \in PublishStates /\ r2.pc = "count" /\ r2.todo = r.todo /\ r2.k = r.k
          /\ r2.snapshot = r.snapshot
        BY <1>1 DEF PublishStates
    <2>2. publish' = [publish EXCEPT ![p] = r2]
        BY <1>4 DEF GoOn
    <2> HIDE DEF r2
    <2>3. publish'[p] = r2 /\ UNCHANGED <<handled, accepted>>
        BY <1>4, <2>2, PublishType DEF BusInv, histVars
    <2>4. PublishOK(p)'
        <3>1. \A t \in Tasks : /\ Untouched(t) => Untouched(t)'
                               /\ Settled(t) => Settled(t)'
            BY <1>1, <2>3 DEF Untouched, Settled
        <3>2. \A k \in 1..MaxPublish, h \in Handlers :
                 k > r.k => Untouched(<<p, k, h>>)'
            BY <1>1, <2>3 DEF PublishOK, Untouched
        <3>3. \A t \in Tasks : Elem(r.todo, t) => t[1] = p /\ t[2] = r.k /\ Untouched(t)'
            BY <1>1, <3>1 DEF PublishOK
        <3>4. \A t \in r.snapshot : Elem(r.todo, t) \/ Settled(t)'
            BY <1>1, <2>3 DEF PublishOK, Sending, Settled
        <3>5. r.k \in 1..MaxPublish /\ Distinct(r.todo)
            BY <1>1 DEF PublishOK
        <3> QED BY <1>4, <2>1, <2>3, <3>2, <3>3, <3>4, <3>5 DEF PublishOK, Sending
    <2>5. closer = "open" /\ accepted' \in SUBSET Tasks
        BY <1>4, <2>3 DEF BusInv, CloseInv, BusTypeOK
    <2> QED BY <1>1, <1>4, <2>1, <2>2, <2>3, <2>4, <2>5, PublisherMoves
<1>5. CASE /\ r.todo # <<>> /\ ~async
           /\ handled' = [handled EXCEPT ![Head(r.todo)] = @ + 1]
           /\ GoOn(p, [r EXCEPT !.todo = Tail(@)])
           /\ UNCHANGED accepted
    <2>1. publish' = [publish EXCEPT ![p] = [publish[p] EXCEPT !.todo = Tail(publish[p].todo)]]
        BY <1>1, <1>5 DEF GoOn
    <2> QED BY <1>1, <1>5, <2>1, SyncRoundBus
<1> QED BY <1>2, <1>3, <1>4, <1>5 DEF NextTask

LEMMA SyncCtxDoneBus ==
    ASSUME BusInv, NEW p \in Publishers, SyncCtxDone(p)
    PROVE  BusInv'
BY ReturnBus DEF SyncCtxDone

LEMMA AddTaskBus ==
    ASSUME BusInv, NEW p \in Publishers, AddTask(p)
    PROVE  BusInv'
<1> DEFINE todo == publish[p].todo
           r == [publish[p] EXCEPT !.pc = "submit"]
<1>1. /\ publish[p].pc = "count" /\ publish' = [publish EXCEPT ![p] = r]
      /\ submitted' = submitted \cup {Head(todo)}
      /\ UNCHANGED <<poolVars, async, closed, subs, closer, handled, accepted>>
    BY DEF AddTask, GoOn, histVars
<1>2. /\ publish[p] \in PublishStates /\ todo \in Seq(Tasks) /\ PublishOK(p)
      /\ publish \in [Publishers -> PublishStates] /\ todo # <<>>
    BY <1>1, PublishType DEF BusInv, PublishOK
<1>3. PICK t \in Tasks : t = Head(todo) /\ Elem(todo, t)
    BY <1>2, TailFacts
<1>4. t[1] = p /\ t[2] = publish[p].k /\ handled[t] = 0 /\ t \notin submitted
    BY <1>1, <1>2, <1>3 DEF PublishOK, Untouched
<1>5. /\ r \in PublishStates /\ r.pc = "submit" /\ r.k = publish[p].k /\ r.todo = todo
      /\ r.snapshot = publish[p].snapshot
    BY <1>2 DEF PublishStates
<1> HIDE DEF r, todo
<1>6. /\ publish' \in [Publishers -> PublishStates] /\ publish'[p] = r
      /\ \A q \in Publishers : q # p => publish'[q] = publish[q]
    BY <1>1, <1>2, <1>5
<1>7. submitted' = submitted \cup {t} /\ submitted' \in SUBSET Tasks
    BY <1>1, <1>3 DEF BusInv, BusTypeOK
<1>8. BusTypeOK'
    BY <1>1, <1>6, <1>7 DEF BusInv, BusTypeOK, PoolTypeOK, PublishStates, poolVars
<1>9. async /\ closer \notin {"wg", "stop", "returned"}
    BY <1>1 DEF BusInv, SyncInv, CloseInv, Sending
<1>10. CloseInv' /\ SyncInv'
    BY <1>1, <1>9 DEF BusInv, CloseInv, SyncInv, poolVars
<1>11. QueueInv' /\ Distinct(subs)'
    BY <1>1, <1>4, <1>7 DEF BusInv, QueueInv, Distinct, Elem, Held, poolVars
<1>12. \A u \in Tasks : Settled(u) => Settled(u)'
    BY <1>1, <1>7 DEF Settled
<1>13. AcceptedInv'
    BY <1>1, <1>12 DEF BusInv, BusTypeOK, AcceptedInv
<1>14. \A u \in Tasks : u # t => (Untouched(u) => Untouched(u)') /\ (AtHand(u) => AtHand(u)')
    BY <1>1, <1>7 DEF Untouched, AtHand, Elem, Held, poolVars
<1>15. \A q \in Publishers : q # p => PublishOK(q)'
    <2> TAKE q \in Publishers
    <2> HAVE q # p
    <2>1. Keeps(q)
        BY <1>4, <1>12, <1>14 DEF Keeps
    <2> QED BY <1>6, <2>1, OtherPublisher DEF BusInv
<1>16. PublishOK(p)'
    <2>1. \A k \in 1..MaxPublish, h \in Handlers :
             k > publish[p].k => Untouched(<<p, k, h>>)'
        <3> TAKE k \in 1..MaxPublish, h \in Handlers
        <3> HAVE k > publish[p].k
        <3>1. <<p, k, h>> \in Tasks /\ <<p, k, h>>[2] = k /\ k # publish[p].k
            BY <1>2 DEF Tasks, PublishStates
        <3>2. Untouched(<<p, k, h>>)
            BY <1>2 DEF PublishOK
        <3> QED BY <1>4, <1>14, <3>1, <3>2
    <2>2. AtHand(t)'
        <3>1. ~Elem(taskQueue, t) /\ ~Held(t)
            BY <1>4 DEF BusInv, QueueInv, Held
        <3> QED BY <1>1, <1>7, <3>1 DEF AtHand, Elem, Held, poolVars
    <2>3. \A u \in Tasks : Elem(todo, u) =>
             /\ u[1] = p /\ u[2] = publish[p].k
             /\ IF u = Head(todo) THEN AtHand(u)' ELSE Untouched(u)'
        BY <1>1, <1>2, <1>3, <1>14, <2>2 DEF PublishOK, todo
    <2>4. \A u \in publish[p].snapshot : Elem(todo, u) \/ Settled(u)'
        BY <1>1, <1>2, <1>12 DEF PublishOK, PublishStates, Sending, todo
    <2>5. Distinct(todo) /\ publish[p].k \in 1..MaxPublish
        BY <1>1, <1>2 DEF PublishOK, todo
    <2> QED BY <1>2, <1>5, <1>6, <2>1, <2>3, <2>4, <2>5 DEF PublishOK, Sending
<1> QED BY <1>8, <1>10, <1>11, <1>13, <1>15, <1>16 DEF BusInv

LEMMA SubmitTaskBus ==
    ASSUME BusInv, NEW p \in Publishers, SubmitTask(p)
    PROVE  BusInv'
<1> DEFINE todo == publish[p].todo
           r == [publish[p] EXCEPT !.pc = "next", !.todo = Tail(todo)]
<1>1. /\ publish[p].pc = "submit" /\ publish' = [publish EXCEPT ![p] = r]
      /\ Len(taskQueue) < QueueSize /\ taskQueue' = Append(taskQueue, Head(todo))
      /\ UNCHANGED <<queueClosed, poolDone, task>>
      /\ UNCHANGED <<async, closed, subs, closer, submitted, handled, accepted>>
    BY PublishType DEF SubmitTask, Submit, GoOn, histVars, BusInv, PublishStates
<1>2. /\ publish[p] \in PublishStates /\ todo \in Seq(Tasks) /\ PublishOK(p)
      /\ publish \in [Publishers -> PublishStates] /\ todo # <<>>
      /\ taskQueue \in Seq(Tasks)
    BY <1>1, PublishType DEF BusInv, PublishOK, BusTypeOK, PoolTypeOK
<1>3. PICK t \in Tasks :
         /\ t = Head(todo) /\ Elem(todo, t) /\ Tail(todo) \in Seq(Tasks)
         /\ Distinct(Tail(todo)) /\ ~Elem(Tail(todo), t)
         /\ \A u : Elem(Tail(todo), u) => Elem(todo, u)
         /\ \A u : Elem(todo, u) => u = t \/ Elem(Tail(todo), u)
    BY <1>2, TailFacts DEF PublishOK
<1>4. t[1] = p /\ t[2] = publish[p].k /\ AtHand(t)
    BY <1>1, <1>2, <1>3 DEF PublishOK
<1>5. /\ r \in PublishStates /\ r.pc = "next" /\ r.k = publish[p].k /\ r.todo = Tail(todo)
      /\ r.snapshot = publish[p].snapshot
    BY <1>2, <1>3 DEF PublishStates
<1> HIDE DEF r, todo
<1>6. /\ publish' \in [Publishers -> PublishStates] /\ publish'[p] = r
      /\ \A q \in Publishers : q # p => publish'[q] = publish[q]
    BY <1>1, <1>2, <1>5
<1>7. /\ taskQueue' \in Seq(Tasks) /\ Len(taskQueue') = Len(taskQueue) + 1
      /\ Distinct(taskQueue')
      /\ \A u : Elem(taskQueue', u) <=> (Elem(taskQueue, u) \/ u = t)
    BY <1>1, <1>2, <1>3, <1>4, AppendFacts DEF BusInv, QueueInv, AtHand
<1>8. Len(taskQueue') <= QueueSize
    BY <1>1, <1>2, <1>7, PoolAssumption
<1>9. BusTypeOK'
    BY <1>1, <1>6, <1>7, <1>8 DEF BusInv, BusTypeOK, PoolTypeOK, PublishStates
<1>10. async /\ closer \notin {"wg", "stop", "returned"}
    BY <1>1 DEF BusInv, SyncInv, CloseInv, Sending
<1>11. CloseInv' /\ SyncInv'
    BY <1>1, <1>10 DEF BusInv, CloseInv, SyncInv
<1>12. QueueInv' /\ Distinct(subs)'
    <2>1. \A u \in Tasks : Elem(taskQueue', u) => u \in submitted /\ ~Held(u)
        BY <1>4, <1>7 DEF BusInv, QueueInv, AtHand
    <2> QED BY <1>1, <1>7, <2>1 DEF BusInv, QueueInv, Held, Distinct
<1>13. \A u \in Tasks : (Settled(u) => Settled(u)') /\ (Untouched(u) => Untouched(u)')
    BY <1>1 DEF Settled, Untouched
<1>14. AcceptedInv'
    BY <1>1, <1>13 DEF BusInv, BusTypeOK, AcceptedInv
<1>15. \A u \in Tasks : u # t => (AtHand(u) => AtHand(u)')
    BY <1>1, <1>7 DEF AtHand, Held
<1>16. \A q \in Publishers : q # p => PublishOK(q)'
    <2> TAKE q \in Publishers
    <2> HAVE q # p
    <2>1. Keeps(q)
        BY <1>4, <1>13, <1>15 DEF Keeps
    <2> QED BY <1>6, <2>1, OtherPublisher DEF BusInv
<1>17. PublishOK(p)'
    <2>1. \A k \in 1..MaxPublish, h \in Handlers :
             k > publish[p].k => Untouched(<<p, k, h>>)'
        BY <1>1, <1>2 DEF PublishOK, Untouched
    <2>2. \A u \in Tasks : Elem(Tail(todo), u) => u[1] = p /\ u[2] = publish[p].k /\ Untouched(u)'
        BY <1>2, <1>3, <1>13 DEF PublishOK, todo
    <2>3. \A u \in publish[p].snapshot : Elem(Tail(todo), u) \/ Settled(u)'
        <3> TAKE u \in publish[p].snapshot
        <3>1. u \in Tasks /\ (Elem(todo, u) \/ Settled(u))
            BY <1>1, <1>2 DEF PublishOK, PublishStates, Sending, todo
        <3>2. Settled(t)
            BY <1>4 DEF Settled, AtHand
        <3> QED BY <1>3, <1>13, <3>1, <3>2
    <2>4. publish[p].k \in 1..MaxPublish
        BY <1>1, <1>2 DEF PublishOK
    <2> QED BY <1>3, <1>5, <1>6, <2>1, <2>2, <2>3, <2>4 DEF PublishOK, Sending
<1> QED BY <1>9, <1>11, <1>12, <1>14, <1>16, <1>17 DEF BusInv

\* Steps of nobody's Publish.
LEMMA PublishersKeep ==
    ASSUME BusInv, UNCHANGED publish, \A q \in Publishers : Keeps(q)
    PROVE  \A q \in Publishers : PublishOK(q)'
BY OtherPublisher DEF BusInv

LEMMA TakeTaskBus ==
    ASSUME BusInv, NEW w \in Workers, async, BusTakeTask(w)
    PROVE  BusInv'
<1>1. /\ task[w] = NoTask /\ taskQueue # <<>>
      /\ task' = [task EXCEPT ![w] = Head(taskQueue)] /\ taskQueue' = Tail(taskQueue)
      /\ UNCHANGED <<queueClosed, poolDone>>
      /\ UNCHANGED <<async, closed, subs, publish, closer, submitted, handled, accepted>>
    BY DEF BusTakeTask, TakeTask, histVars
<1>2. /\ taskQueue \in Seq(Tasks) /\ Distinct(taskQueue) /\ Len(taskQueue) <= QueueSize
      /\ task \in [Workers -> Tasks \cup {NoTask, Gone}] /\ submitted \in SUBSET Tasks
    BY DEF BusInv, BusTypeOK, PoolTypeOK, QueueInv
<1>3. PICK t \in Tasks :
         /\ t = Head(taskQueue) /\ Elem(taskQueue, t) /\ Tail(taskQueue) \in Seq(Tasks)
         /\ Len(Tail(taskQueue)) = Len(taskQueue) - 1
         /\ Distinct(Tail(taskQueue)) /\ ~Elem(Tail(taskQueue), t)
         /\ \A u : Elem(Tail(taskQueue), u) => Elem(taskQueue, u)
    BY <1>1, <1>2, TailFacts
<1>4. /\ task' \in [Workers -> Tasks \cup {NoTask, Gone}] /\ task'[w] = t
      /\ \A x \in Workers : x # w => task'[x] = task[x]
    BY <1>1, <1>2, <1>3
<1>5. t \in submitted /\ ~Held(t) /\ submitted # {}
    BY <1>3 DEF BusInv, QueueInv
<1>6. Len(taskQueue') <= QueueSize /\ taskQueue' \in Seq(Tasks)
    BY <1>1, <1>2, <1>3, PoolAssumption
<1>7. BusTypeOK'
    BY <1>1, <1>4, <1>6 DEF BusInv, BusTypeOK, PoolTypeOK
<1>8. CloseInv' /\ SyncInv'
    BY <1>1, <1>5 DEF BusInv, CloseInv, SyncInv, Sending
<1>9. \A u : Held(u)' => Held(u) \/ u = t
    BY <1>4 DEF Held
<1>10. QueueInv'
    <2>1. \A u \in Tasks : Elem(taskQueue', u) => u \in submitted /\ ~Held(u)'
        BY <1>1, <1>3, <1>9 DEF BusInv, QueueInv
    <2>2. \A x \in Workers : task'[x] \in Tasks =>
             /\ task'[x] \in submitted
             /\ \A y \in Workers : task'[y] = task'[x] => y = x
        BY <1>4, <1>5 DEF BusInv, QueueInv, Held
    <2> QED BY <1>1, <1>3, <2>1, <2>2 DEF BusInv, QueueInv
<1>11. AcceptedInv' /\ Distinct(subs)'
    BY <1>1 DEF BusInv, AcceptedInv, Settled, Distinct
<1>12. \A q \in Publishers : Keeps(q)
    <2>1. \A u \in Tasks : AtHand(u) => AtHand(u)'
        BY <1>1, <1>3, <1>9 DEF AtHand
    <2> QED BY <1>1, <2>1 DEF Keeps, Untouched, Settled
<1> QED BY <1>1, <1>7, <1>8, <1>10, <1>11, <1>12, PublishersKeep DEF BusInv

LEMMA RunHandlerBus ==
    ASSUME BusInv, NEW w \in Workers, async, RunHandler(w)
    PROVE  BusInv'
<1>1. /\ task[w] \notin {NoTask, Gone} /\ task' = [task EXCEPT ![w] = NoTask]
      /\ handled' = [handled EXCEPT ![task[w]] = @ + 1] /\ submitted' = submitted \ {task[w]}
      /\ UNCHANGED <<taskQueue, queueClosed, poolDone>>
      /\ UNCHANGED <<async, closed, subs, publish, closer, accepted>>
    BY DEF RunHandler, EndTask
<1>2. /\ task \in [Workers -> Tasks \cup {NoTask, Gone}] /\ submitted \in SUBSET Tasks
      /\ handled \in [Tasks -> 0..1]
    BY DEF BusInv, BusTypeOK, PoolTypeOK
<1>3. PICK t \in Tasks : t = task[w]
    BY <1>1, <1>2
<1>4. t \in submitted /\ handled[t] = 0 /\ Held(t) /\ ~Elem(taskQueue, t)
    BY <1>3 DEF BusInv, QueueInv, Held
<1>5. /\ task' \in [Workers -> Tasks \cup {NoTask, Gone}] /\ task'[w] = NoTask
      /\ \A x \in Workers : x # w => task'[x] = task[x]
    BY <1>1, <1>2
<1>6. /\ handled' \in [Tasks -> 0..1] /\ handled'[t] = 1
      /\ \A u \in Tasks : u # t => handled'[u] = handled[u]
      /\ submitted' = submitted \ {t} /\ submitted' \in SUBSET Tasks
    BY <1>1, <1>2, <1>3, <1>4
<1>7. BusTypeOK'
    BY <1>1, <1>5, <1>6 DEF BusInv, BusTypeOK, PoolTypeOK
<1>8. CloseInv' /\ SyncInv'
    BY <1>1, <1>4 DEF BusInv, CloseInv, SyncInv, Sending
<1>9. \A u : u # NoTask /\ Held(u)' => Held(u)
    BY <1>5 DEF Held
<1>10. QueueInv'
    <2>1. \A u \in Tasks : Elem(taskQueue', u) => u \in submitted' /\ ~Held(u)'
        BY <1>1, <1>4, <1>6, <1>9, BusAssumption DEF BusInv, QueueInv
    <2>2. \A x \in Workers : task'[x] \in Tasks =>
             /\ task'[x] \in submitted'
             /\ \A y \in Workers : task'[y] = task'[x] => y = x
        BY <1>3, <1>5, <1>6, BusAssumption DEF BusInv, QueueInv
    <2>3. \A u \in submitted' : handled'[u] = 0
        BY <1>2, <1>6 DEF BusInv, QueueInv
    <2> QED BY <1>1, <2>1, <2>2, <2>3 DEF BusInv, QueueInv, Distinct
<1>11. \A u \in Tasks : Settled(u) => Settled(u)'
    BY <1>6 DEF Settled
<1>12. AcceptedInv' /\ Distinct(subs)'
    BY <1>1, <1>11 DEF BusInv, BusTypeOK, AcceptedInv, Distinct
<1>13. \A q \in Publishers : Keeps(q)
    <2>1. \A u \in Tasks : AtHand(u) => AtHand(u)'
        BY <1>1, <1>4, <1>6, <1>9, BusAssumption DEF AtHand, Elem
    <2>2. \A u \in Tasks : Untouched(u) => Untouched(u)'
        BY <1>4, <1>6 DEF Untouched
    <2> QED BY <1>11, <2>1, <2>2 DEF Keeps
<1> QED BY <1>1, <1>7, <1>8, <1>10, <1>12, <1>13, PublishersKeep DEF BusInv

LEMMA WorkerReturnsBus ==
    ASSUME BusInv, NEW w \in Workers, async, BusWorkerReturns(w)
    PROVE  BusInv'
<1>1. /\ task[w] = NoTask /\ task' = [task EXCEPT ![w] = Gone]
      /\ UNCHANGED <<taskQueue, queueClosed, poolDone>>
      /\ UNCHANGED <<async, closed, subs, publish, closer, submitted, handled, accepted>>
    BY DEF BusWorkerReturns, WorkerReturns, histVars
<1>2. task \in [Workers -> Tasks \cup {NoTask, Gone}]
    BY DEF BusInv, BusTypeOK, PoolTypeOK
<1>3. /\ task' \in [Workers -> Tasks \cup {NoTask, Gone}] /\ task'[w] = Gone
      /\ \A x \in Workers : x # w => task'[x] = task[x]
    BY <1>1, <1>2
<1>4. \A u \in Tasks : Held(u)' => Held(u)
    BY <1>3, BusAssumption DEF Held
<1>5. BusTypeOK'
    BY <1>1, <1>3 DEF BusInv, BusTypeOK, PoolTypeOK
<1>6. CloseInv' /\ SyncInv'
    BY <1>1, <1>3 DEF BusInv, CloseInv, SyncInv, Sending, Stopped
<1>7. QueueInv' /\ AcceptedInv' /\ Distinct(subs)'
    BY <1>1, <1>3, <1>4, BusAssumption DEF BusInv, QueueInv, AcceptedInv, Settled, Distinct
<1>8. \A q \in Publishers : Keeps(q)
    BY <1>1, <1>4 DEF Keeps, Untouched, AtHand, Settled, Elem
<1> QED BY <1>1, <1>5, <1>6, <1>7, <1>8, PublishersKeep DEF BusInv

LEMMA SubscribeBus ==
    ASSUME BusInv, NEW h \in Handlers, Subscribe(h) \/ Unsubscribe(h)
    PROVE  BusInv'
<1>1. UNCHANGED <<poolVars, async, closed, publish, closer, submitted, handled, accepted>>
    BY DEF Subscribe, Unsubscribe, histVars
<1>2. subs' \in Seq(Handlers) /\ Distinct(subs')
    <2>1. subs \in Seq(Handlers) /\ Distinct(subs)
        BY DEF BusInv, BusTypeOK
    <2>2. CASE Subscribe(h)
        BY <2>1, <2>2, AppendFacts DEF Subscribe, Contains, Elem
    <2>3. CASE Unsubscribe(h)
        BY <2>1, <2>3, RemoveAtFacts DEF Unsubscribe
    <2> QED BY <2>2, <2>3
<1>3. BusTypeOK'
    BY <1>1, <1>2 DEF BusInv, BusTypeOK, PoolTypeOK, poolVars
<1>4. CloseInv' /\ SyncInv'
    BY <1>1 DEF BusInv, CloseInv, SyncInv, Sending, Stopped, poolVars
<1>5. QueueInv' /\ AcceptedInv'
    BY <1>1 DEF BusInv, QueueInv, AcceptedInv, Settled, Distinct, Elem, Held, poolVars
<1>6. \A q \in Publishers : Keeps(q)
    BY <1>1 DEF Keeps, Untouched, AtHand, Settled, Elem, Held, poolVars
<1> QED BY <1>1, <1>2, <1>3, <1>4, <1>5, <1>6, PublishersKeep DEF BusInv

\* What every step of Close leaves alone.
LEMMA CloseKeeps ==
    ASSUME BusInv, UNCHANGED <<taskQueue, task, async, publish, submitted, handled, accepted>>
    PROVE  /\ SyncInv' /\ QueueInv' /\ AcceptedInv'
           /\ \A q \in Publishers : PublishOK(q)'
<1>1. SyncInv' /\ QueueInv' /\ AcceptedInv'
    BY DEF BusInv, SyncInv, QueueInv, AcceptedInv, Settled, Distinct, Elem, Held
<1>2. \A q \in Publishers : Keeps(q)
    BY DEF Keeps, Untouched, AtHand, Settled, Elem, Held
<1> QED BY <1>1, <1>2, PublishersKeep

LEMMA CloseBus ==
    ASSUME BusInv, BusClose
    PROVE  BusInv'
<1>1. UNCHANGED <<taskQueue, task, async, publish, submitted, handled, accepted>>
    BY DEF BusClose, Close, ClearSubs, InflightWait, HandlersWait, StopBegins, StopReturns,
           poolVars, histVars
<1>2. /\ SyncInv' /\ QueueInv' /\ AcceptedInv'
      /\ \A q \in Publishers : PublishOK(q)'
    BY <1>1, CloseKeeps
<1>3. subs' \in Seq(Handlers) /\ Distinct(subs')
    <2>1. subs \in Seq(Handlers) /\ Distinct(subs)
        BY DEF BusInv, BusTypeOK
    <2>2. CASE ClearSubs
        BY <2>2 DEF ClearSubs, Distinct
    <2>3. CASE UNCHANGED subs
        BY <2>1, <2>3
    <2> QED BY <2>2, <2>3 DEF BusClose, Close, InflightWait, HandlersWait, StopReturns
<1>4. /\ closer' \in {"open", "clear", "inflight", "wg", "stop", "returned"}
      /\ closed' \in BOOLEAN /\ queueClosed' \in BOOLEAN /\ poolDone' \in BOOLEAN
    <2> USE DEF CloseGoesOn, BusInv, BusTypeOK, PoolTypeOK, poolVars
    <2>1. CASE Close
        BY <2>1 DEF Close
    <2>2. CASE ClearSubs
        BY <2>2 DEF ClearSubs
    <2>3. CASE InflightWait
        BY <2>3 DEF InflightWait
    <2>4. CASE HandlersWait
        BY <2>4 DEF HandlersWait, StopBegins
    <2>5. CASE StopReturns
        BY <2>5 DEF StopReturns
    <2> QED BY <2>1, <2>2, <2>3, <2>4, <2>5 DEF BusClose
<1>5. BusTypeOK'
    BY <1>1, <1>3, <1>4 DEF BusInv, BusTypeOK, PoolTypeOK
<1>6. CloseInv'
    <2> USE DEF CloseGoesOn, BusInv, CloseInv, poolVars
    <2>1. CASE Close
        BY <1>1, <2>1 DEF Close, Sending
    <2>2. CASE ClearSubs
        BY <1>1, <2>2 DEF ClearSubs, Sending
    <2>3. CASE InflightWait
        <3>1. \A p \in Publishers : ~Sending(p)
            BY <2>3 DEF InflightWait, Inflight, Sending
        <3> QED BY <1>1, <2>3, <3>1 DEF InflightWait, Sending
    <2>4. CASE HandlersWait
        BY <1>1, <2>4 DEF HandlersWait, StopBegins, Sending
    <2>5. CASE StopReturns
        BY <1>1, <2>5 DEF StopReturns, Sending, Stopped
    <2> QED BY <2>1, <2>2, <2>3, <2>4, <2>5 DEF BusClose
<1> QED BY <1>2, <1>3, <1>5, <1>6 DEF BusInv

LEMMA NextBusInv == BusInv /\ [BusNext]_busVars => BusInv'
<1> SUFFICES ASSUME BusInv, [BusNext]_busVars PROVE BusInv'
    OBVIOUS
<1>1. ASSUME NEW p \in Publishers, Publish(p) \/ BusPublish(p) \/ SyncCtxDone(p)
      PROVE  BusInv'
    BY <1>1, PublishBus, AddInflightBus, SnapshotBus, NextTaskBus, AddTaskBus, SubmitTaskBus,
       SyncCtxDoneBus DEF BusPublish
<1>2. ASSUME NEW w \in Workers, async, BusWork(w)
      PROVE  BusInv'
    BY <1>2, TakeTaskBus, RunHandlerBus, WorkerReturnsBus DEF BusWork
<1>3. CASE UNCHANGED busVars
    <2>1. /\ UNCHANGED <<taskQueue, task, async, publish, submitted, handled, accepted>>
          /\ UNCHANGED <<queueClosed, poolDone, closed, subs, closer>>
        BY <1>3 DEF busVars, poolVars, histVars
    <2>2. /\ SyncInv' /\ QueueInv' /\ AcceptedInv'
          /\ \A q \in Publishers : PublishOK(q)'
        BY <2>1, CloseKeeps
    <2>3. BusTypeOK' /\ CloseInv' /\ Distinct(subs)'
        BY <2>1 DEF BusInv, BusTypeOK, PoolTypeOK, CloseInv, Sending, Stopped, Distinct
    <2> QED BY <2>2, <2>3 DEF BusInv
<1> QED BY <1>1, <1>2, <1>3, SubscribeBus, CloseBus DEF BusNext, CloseAgain

\* memory.go and worker_pool.go: the bus's inductive invariant.
THEOREM BusInvariant == BusSpec => []BusInv
BY InitBusInv, NextBusInv, PTL DEF BusSpec

\* MemoryBus: types; the queue holds at most its capacity and no handler runs
\* twice for one event.
THEOREM BusTypes == BusSpec => []BusTypeOK
BY BusInvariant, PTL DEF BusInv

\* MemoryBus.Close: no Publish is in pool.Submit once the queue is closed, so
\* no Submit panics.
THEOREM BusNoSubmitAfterStop == BusSpec => []NoSubmitAfterStop
<1>1. BusInv => NoSubmitAfterStop
    BY DEF BusInv, CloseInv, Sending, NoSubmitAfterStop
<1> QED BY <1>1, BusInvariant, PTL

\* MemoryBus.Close: after the call that won the swap of closed has returned,
\* every handler that a successful Publish vouched for has run exactly once and
\* nothing is queued or running, however many further Close calls returned
\* before it.
THEOREM BusCloseDrains == BusSpec => []CloseDrains
<1>1. BusInv => CloseDrains
    <2> SUFFICES ASSUME BusInv, closer = "returned"
                 PROVE  /\ \A t \in accepted : handled[t] = 1
                        /\ taskQueue = <<>> /\ submitted = {}
                        /\ async => Stopped
        BY DEF CloseDrains
    <2>1. submitted = {} /\ (async => Stopped)
        BY DEF BusInv, CloseInv
    <2>2. \A t \in accepted : handled[t] = 1
        BY <2>1 DEF BusInv, AcceptedInv, Settled
    <2>3. taskQueue = <<>>
        <3>1. taskQueue \in Seq(Tasks) /\ \A t \in Tasks : ~Elem(taskQueue, t)
            BY <2>1 DEF BusInv, BusTypeOK, PoolTypeOK, QueueInv
        <3> QED BY <3>1, TailFacts
    <2> QED BY <2>1, <2>2, <2>3
<1> QED BY <1>1, BusInvariant, PTL
=============================================================================
