------------------------------ MODULE EventBus ------------------------------
(***************************************************************************)
(* pkg/events/adapters/memory/memory.go, one topic, with async dispatch    *)
(* over the worker pool or sync dispatch in the publisher.  Each atomic    *)
(* access and each critical section is a step: closed.Load, inflight.Add,  *)
(* the snapshot under the lock, closed.Load before each task, Submit.      *)
(* Handlers return and do not publish on the bus they serve; an error of   *)
(* one changes what a sync Publish returns and nothing else.               *)
(***************************************************************************)
EXTENDS WorkerPool, SequencesExt

CONSTANTS Publishers,  \* goroutines that call Publish
          Handlers,    \* the handlers that may subscribe
          MaxPublish   \* bound on the Publish calls of a publisher

VARIABLES
    async,      \* config.Async
    closed,     \* m.closed
    subs,       \* the subscriptions of the topic, in order
    publish,    \* publish[p]: the locals of Publish, see Idle
    closer,     \* where the Close is that won the swap of closed
    submitted,  \* m.wg: the tasks that are added and not done
    handled,    \* history: handled[t]: how often t's handler ran
    accepted    \* history: the tasks of the Publish calls that returned nil

histVars == <<handled, accepted>>

busVars == <<poolVars, async, closed, subs, publish, closer, submitted,
             histVars>>

\* A task is the k-th event of p for handler h.
Tasks == Publishers \X (1..MaxPublish) \X Handlers

ASSUME BusAssumption ==
    /\ MaxPublish \in Nat
    /\ NoTask \notin Tasks /\ Gone \notin Tasks

\* pc: idle, add, snapshot, next, count, submit.  todo: the tasks left of the snapshot.
Idle == [pc |-> "idle", k |-> 0, todo |-> <<>>, snapshot |-> {}]

BusInit ==
    /\ PoolInit
    /\ async \in BOOLEAN
    /\ closed = FALSE
    /\ subs = <<>>
    /\ publish = [p \in Publishers |-> Idle]
    /\ closer = "open"
    /\ submitted = {}
    /\ handled = [t \in Tasks |-> 0]
    /\ accepted = {}

-----------------------------------------------------------------------------
(* Subscribe and Unsubscribe: the closed test under the lock decides.      *)

Subscribe(h) ==
    /\ ~closed /\ ~Contains(subs, h)
    /\ subs' = Append(subs, h)
    /\ UNCHANGED <<poolVars, async, closed, publish, closer, submitted, histVars>>

Unsubscribe(h) ==
    /\ ~closed
    /\ \E i \in DOMAIN subs : subs[i] = h /\ subs' = RemoveAt(subs, i)
    /\ UNCHANGED <<poolVars, async, closed, publish, closer, submitted, histVars>>

-----------------------------------------------------------------------------
(* Publish                                                                 *)

GoOn(p, r) == publish' = [publish EXCEPT ![p] = r]

\* Publish returns an error or nil; done tells which tasks nil vouches for.
ReturnFrom(p, done) ==
    /\ GoOn(p, [publish[p] EXCEPT !.pc = "idle", !.todo = <<>>, !.snapshot = {}])
    /\ accepted' = accepted \cup done

\* The first closed.Load().
Publish(p) ==
    LET r == publish[p] IN
    /\ r.pc = "idle" /\ r.k < MaxPublish
    /\ ~closed
    /\ GoOn(p, [r EXCEPT !.pc = "add", !.k = @ + 1])
    /\ UNCHANGED <<poolVars, async, closed, subs, closer, submitted, histVars>>

\* inflight.Add(1)
AddInflight(p) ==
    /\ publish[p].pc = "add"
    /\ GoOn(p, [publish[p] EXCEPT !.pc = "snapshot"])
    /\ UNCHANGED <<poolVars, async, closed, subs, closer, submitted, histVars>>

\* Under RLock: closed once more, then the copy of the subscriptions.
Snapshot(p) ==
    LET r == publish[p]
        tasks == [i \in DOMAIN subs |-> <<p, r.k, subs[i]>>]
    IN
    /\ r.pc = "snapshot"
    /\ \/ closed /\ ReturnFrom(p, {})
       \/ /\ ~closed
          /\ GoOn(p, [r EXCEPT !.pc = "next", !.todo = tasks, !.snapshot = ToSet(tasks)])
          /\ UNCHANGED accepted
    /\ UNCHANGED <<poolVars, async, closed, subs, closer, submitted, handled>>

\* The closed.Load of publishAsync, or a round of publishSync, or the end.
NextTask(p) ==
    LET r == publish[p] IN
    /\ r.pc = "next"
    /\ \/ /\ r.todo = <<>>
          /\ ReturnFrom(p, r.snapshot)
          /\ UNCHANGED handled
       \/ /\ r.todo # <<>> /\ async /\ closed
          /\ ReturnFrom(p, {})
          /\ UNCHANGED handled
       \/ /\ r.todo # <<>> /\ async /\ ~closed
          /\ GoOn(p, [r EXCEPT !.pc = "count"])
          /\ UNCHANGED histVars
       \/ /\ r.todo # <<>> /\ ~async
          /\ handled' = [handled EXCEPT ![Head(r.todo)] = @ + 1]
          /\ GoOn(p, [r EXCEPT !.todo = Tail(@)])
          /\ UNCHANGED accepted
    /\ UNCHANGED <<poolVars, async, closed, subs, closer, submitted>>

\* wg.Add(1)
AddTask(p) ==
    LET r == publish[p] IN
    /\ r.pc = "count"
    /\ submitted' = submitted \cup {Head(r.todo)}
    /\ GoOn(p, [r EXCEPT !.pc = "submit"])
    /\ UNCHANGED <<poolVars, async, closed, subs, closer, histVars>>

\* pool.Submit
SubmitTask(p) ==
    LET r == publish[p] IN
    /\ r.pc = "submit"
    /\ Submit(Head(r.todo))
    /\ GoOn(p, [r EXCEPT !.pc = "next", !.todo = Tail(@)])
    /\ UNCHANGED <<async, closed, subs, closer, submitted, histVars>>

\* publishSync gives up between two handlers when the caller's ctx has ended.
SyncCtxDone(p) ==
    /\ publish[p].pc = "next" /\ publish[p].todo # <<>> /\ ~async
    /\ ReturnFrom(p, {})
    /\ UNCHANGED <<poolVars, async, closed, subs, closer, submitted, handled>>

-----------------------------------------------------------------------------
(* The workers run handlers                                                *)

BusTakeTask(w) ==
    /\ TakeTask(w)
    /\ UNCHANGED <<async, closed, subs, publish, closer, submitted, histVars>>

\* A task that does not run wg.Done.
RunHandlerNotDone(w) ==
    /\ EndTask(w)
    /\ handled' = [handled EXCEPT ![task[w]] = @ + 1]
    /\ UNCHANGED <<async, closed, subs, publish, closer, submitted, accepted>>

\* The handler has run, and the deferred wg.Done.
RunHandler(w) ==
    /\ EndTask(w)
    /\ handled' = [handled EXCEPT ![task[w]] = @ + 1]
    /\ submitted' = submitted \ {task[w]}
    /\ UNCHANGED <<async, closed, subs, publish, closer, accepted>>

BusWorkerReturns(w) ==
    /\ WorkerReturns(w)
    /\ UNCHANGED <<async, closed, subs, publish, closer, submitted, histVars>>

-----------------------------------------------------------------------------
(* Close                                                                   *)

CloseGoesOn(from, to) == closer = from /\ closer' = to

\* closed.CompareAndSwap(false, true) succeeds.
Close ==
    /\ CloseGoesOn("open", "clear")
    /\ closed' = TRUE
    /\ UNCHANGED <<poolVars, async, subs, publish, submitted, histVars>>

\* It fails: this further Close returns nil at once and waits for nothing, so
\* publishers, queue and handlers are wherever the first one has let them get.
CloseAgain == closed /\ UNCHANGED busVars

\* The subscriptions are dropped, under the lock.
ClearSubs ==
    /\ CloseGoesOn("clear", "inflight")
    /\ subs' = <<>>
    /\ UNCHANGED <<poolVars, async, closed, publish, submitted, histVars>>

Inflight == {p \in Publishers : publish[p].pc \notin {"idle", "add"}}

\* A Close that does not wait for the Publish calls.
InflightWaitSkipped ==
    /\ CloseGoesOn("inflight", "wg")
    /\ UNCHANGED <<poolVars, async, closed, subs, publish, submitted, histVars>>

\* inflight.Wait()
InflightWait ==
    /\ CloseGoesOn("inflight", "wg")
    /\ Inflight = {}
    /\ UNCHANGED <<poolVars, async, closed, subs, publish, submitted, histVars>>

\* wg.Wait(), then pool.Stop closes the queue (there is no pool in sync mode).
HandlersWait ==
    /\ CloseGoesOn("wg", IF async THEN "stop" ELSE "returned")
    /\ submitted = {}
    /\ IF async THEN StopBegins ELSE UNCHANGED poolVars
    /\ UNCHANGED <<async, closed, subs, publish, submitted, histVars>>

\* A Close that cancels the workers and does not wait for them.
StopWaitSkipped ==
    /\ CloseGoesOn("stop", "returned")
    /\ poolDone' = TRUE
    /\ UNCHANGED <<taskQueue, queueClosed, task>>
    /\ UNCHANGED <<async, closed, subs, publish, submitted, histVars>>

\* The workers are gone: Stop returns, poolCancel, Close returns.
StopReturns ==
    /\ CloseGoesOn("stop", "returned")
    /\ Stopped
    /\ poolDone' = TRUE
    /\ UNCHANGED <<taskQueue, queueClosed, task>>
    /\ UNCHANGED <<async, closed, subs, publish, submitted, histVars>>

\* The Close that won.
BusClose == Close \/ ClearSubs \/ InflightWait \/ HandlersWait \/ StopReturns

BusPublish(p) ==
    \/ AddInflight(p) \/ Snapshot(p) \/ NextTask(p) \/ AddTask(p) \/ SubmitTask(p)

BusWork(w) == BusTakeTask(w) \/ RunHandler(w) \/ BusWorkerReturns(w)

BusNext ==
    \/ \E p \in Publishers : Publish(p) \/ BusPublish(p) \/ SyncCtxDone(p)
    \/ \E h \in Handlers : Subscribe(h) \/ Unsubscribe(h)
    \/ \E w \in Workers : async /\ BusWork(w)
    \/ BusClose
    \/ CloseAgain

BusSpec == BusInit /\ [][BusNext]_busVars

\* Goroutines that can go on do: the Close that has begun, the Publish calls and
\* the workers.  Nobody is obliged to publish, to subscribe or to close.
BusFairness ==
    /\ WF_busVars(BusClose /\ closer # "open")
    /\ \A p \in Publishers : WF_busVars(BusPublish(p))
    /\ \A w \in Workers : WF_busVars(async /\ BusWork(w))

-----------------------------------------------------------------------------
BusTypeOK ==
    /\ PoolTypeOK(Tasks)
    /\ async \in BOOLEAN /\ closed \in BOOLEAN
    /\ subs \in Seq(Handlers)
    /\ publish \in [Publishers ->
          [pc : {"idle", "add", "snapshot", "next", "count", "submit"}, k : 0..MaxPublish,
           todo : Seq(Tasks), snapshot : SUBSET Tasks]]
    /\ closer \in {"open", "clear", "inflight", "wg", "stop", "returned"}
    /\ submitted \in SUBSET Tasks /\ accepted \in SUBSET Tasks
    /\ handled \in [Tasks -> 0..1]

\* No Publish that is past its checks meets a closed queue, where Submit would
\* panic: Close lets every Publish that is in flight finish first, and one that
\* comes later sees closed.
NoSubmitAfterStop ==
    queueClosed => \A p \in Publishers : publish[p].pc # "submit"

\* When the Close that won the swap has returned, every handler a successful
\* Publish vouched for has run exactly once, nothing is queued or running, and
\* no handler runs later.  (Of a Close that lost the swap this is not true.)
CloseDrains ==
    closer = "returned" =>
        /\ \A t \in accepted : handled[t] = 1
        /\ taskQueue = <<>> /\ submitted = {}
        /\ async => Stopped

\* The Close that won returns, with the queue full and publishers blocked in
\* Submit when it is called.
CloseReturns == closer = "clear" ~> closer = "returned"
=============================================================================
