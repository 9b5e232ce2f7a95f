# Formal models of go-hyperforge

TLA+ models of the parts of go-hyperforge in which concurrency, crashes and
timeouts decide whether the code is right, the TLC configurations that check
them, and TLAPS proofs of their safety properties. Paths are relative to the
repository; `PROJECT.json` maps every definition to the lines it models.

## The system

go-hyperforge is a Go library of platform packages (`pkg/`). Most of it is
adapters: an interface, a cloud SDK behind it, an in-memory double for tests,
and wrappers for tracing and retries. The parts with protocols of their own:

| component | state | operations | what makes it hard | what makes it right |
|---|---|---|---|---|
| Semaphore (`concurrency/semaphore.go`), Bulkhead (`resilience/bulkhead.go`) | counter, FIFO queue, one channel per waiter | Acquire, TryAcquire, Release, notifyWaiters | a grant races with a cancellation; a wake-up can be lost | units are conserved, FIFO, no stranded queue, every Acquire returns |
| Circuit breaker (`resilience/circuitbreaker.go`), mesh facade (`servicemesh/circuitbreaker`) | five atomics, a mutex for state changes only | Execute, Reset, ForceOpen, ForceClose | decisions from unlocked reads carried out later; stores of one transition seen one by one | legal transitions, no lost trip or recovery, recovers when the dependency does |
| Durable saga (`workflow/saga/durable.go`, stores) | persisted record, in-memory copy, the effects of steps | Execute, Resume, ResumeAll | crash at any point, a context that ends, best-effort Saves | terminal records tell the truth, steps and compensations in order, finality, termination |
| Scheduler (`workflow/scheduler`), distributed lock (`concurrency/distlock`) | a jobs map per node, one shared lock entry with a TTL | tick, executeJob, RunNow, Enable/Disable | several nodes and ticks, expiry under a running handler, dead lock holders | no overlap while the lock lives, due jobs run |
| Raft (`algorithms/consensus/raft`) | term, vote, log, commit index, leader's indexes, one goroutine per RPC | run loop, Propose, RPC handlers, answers | answers of old elections and terms, lost calls, `State()` read outside the lock | one leader per term, log matching, nodes apply the same |
| Paxos (`algorithms/consensus/paxos`) | promises, accepted pairs, learner counts, log | Propose, Prepare, Accept, Observe, ProposeSlot | duelling proposers with equal numbers, lost answers | one value per slot; the learner and the log hold it |
| Worker pool, memory event bus (`concurrency/worker_pool.go`, `events/adapters/memory`) | bounded queue, subscriptions, in-flight counters | Submit, Stop, Publish, Subscribe, Close | Close against publishers in the middle of a fan-out, a full queue | no send on a closed queue, Close drains and returns |
| WebSocket hub (`api/websocket/hub.go`) | clients, rooms, send channels | register, unregister, join, leave, broadcasts, Shutdown | snapshots used after the lock; removals from three sides | a channel is closed once; rooms hold open clients |
| Workflow engine (`workflow/adapters/memory`) | executions, waiters, one runner each with branches | Start, Cancel, Wait, timeouts | Cancel and timeout against the runner's own end | waiters hear the verdict, executions end |
| SWIM (`algorithms/gossip/swim`) | member table, incarnations | probe, suspect, refute, merge | reordered gossip | an alive member refutes a suspicion |
| Memory broker (`messaging/adapters/memory`) | a channel per subscriber group | Publish, Consume, Close | Close against Publish, full subscribers | no loss without an error |
| Event sourcing (`enterprise/eventsource`) | streams, snapshots, checkpoints | Append, projections | optimistic versions, order of LoadAll | a projection sees every event once, in order |

How they meet: Bulkhead is the semaphore with weight one; the mesh breaker is
the resilience breaker with other defaults; the scheduler calls the distributed
lock; the event bus runs on the worker pool. Everything else listed in
`PROJECT.json` is I/O over SDKs, data or packaging and is not modelled; the
reasons are there.

## Modules

* `SlotPool` – what a semaphore promises: units of a pool are granted within
  its size and given back. `Semaphore` – the code: `cur`, `waiters`, `ready`
  (closed channels), `n` (weights) and the `place` of each caller. One step
  per critical section, except that each round of notifyWaiters is a step.
  `Semaphore` instantiates `SlotPool` with `held`, the units each caller owns.
* `CircuitBreaker` – one step per atomic operation, inside and outside the
  mutex. `pc[c]` is the next operation of a caller, so a decision that was taken
  from an old read sits in `pc` until it is carried out. `cooled` stands for the
  comparison of lastFailure with Timeout. `MCBreakerCooldown` adds a history
  variable for the open period, `MCBreakerProbes` one for the calls that were
  admitted in a half-open period: the code only has a counter, which resets erase.
* `DurableSaga` – one execution: `stored` survives a crash, `mem` does not,
  `effect` is the world. Every Save is a step that can fail, because the ctx is
  done or the file store errs; the model follows the code in which errors
  return and which are dropped. A failing Action may have had its effect.
* `DistLock` – one lock entry; `Scheduler` extends it: several nodes, each with
  its own NextRun, goroutines that Acquire, run, record and Release. A lock call
  may fail, and an Acquire whose answer is lost may have taken the entry.
  `MCSchedulerRuns` adds the history of who ran which fire time.
* `Paxos` – a call is one goroutine in ProposeSlot; each RPC of its two loops is
  a step that may be lost on the way out or on the way back. A report to the
  learner (NotifyLearn) may be lost too, and unnoticed; a transport without it
  loses all. Nodes outside `Wired` have a learner of their own that hears of
  nothing (NewMultiPaxos with nil). `votes` is a history of all acceptances: what
  is chosen is read off it.
* `Raft` – `calls` holds the RPC goroutines: a request, then its answer, until
  the goroutine has acted on it under n.mu. `loop[n]` is the place of the run
  loop, `proposing` a Propose between its append and its replication. `slips` is
  a history of three things the code does and Raft would not: it forgets a vote
  (a late refusal, raft.go:325), campaigns as a leader (raft.go:283), or takes
  an acknowledgement for entries the call did not carry (raft.go:415).
* `WorkerPool`, and `EventBus`, which extends it: one topic, publishers, the
  workers, Close; every atomic load, counter and critical section is a step.
  `closer` is the Close that won the compare-and-swap; `CloseAgain` is one that
  lost it, which returns at once and changes nothing.
* `Hub` – Run, both pumps of each client and goroutines that broadcast to one
  room. An unbuffered send and its receive are one step of Run. `panic` says which
  statement has panicked, if any; it stops the model as it stops the process.
* `Workflow` – `runner[e]` is the place of runExecution, `branch[e]` of its
  parallel branches; handlers succeed or fail, choices go to any target.
* `MCResilience` (semaphore, breaker), `MCServices` (bus, engine, saga,
  scheduler) and `MCSafety` (Paxos, hub) – components that share nothing, checked
  in one run: the variable `focus` picks one, the others stay in their initial
  states. `MCScheduler`, `MCPaxos` and `MCRaft` only name values for constants.
* `SemaphoreProofs`, `CircuitBreakerProofs`, `SchedulerProofs`, `SagaProofs`,
  `PaxosProofs`, `RaftProofs`, `EventBusProofs` and `ServicesProofs` (hub and
  engine) – the theorems.

Definitions commented as mutants, or with the name of the definition they
alter, are deliberate bugs: each property of a passing run is violated when one
of them takes the place of the code's definition.

## Runs

| run | instance | shows |
|---|---|---|
| `resilience` | semaphore: 3 callers, size 2, weights 1–2; breaker: 2 callers, thresholds 2, 3 slots, a panic, one Reset or ForceOpen | types, conservation, FIFO, no stranded queue, the one way to lose a wake-up, Acquire returns, refinement of `SlotPool`; legal transitions, no missed trip or close, the breaker closes for good after the dependency is back |
| `services` | bus: 2 publishers, 2 handlers, 2 workers, a queue of 1; engine: an execution of 8 states with a fork and a circle, 2 waiters; saga: 4 steps, one without Compensate, 2 crashes, 2 faults; scheduler: a node with 2 goroutines and one with 1, 2 fire times, 1 fault, 1 call | the bus drains and closes; waiters hear the verdict, cancelled and circling executions end; truth of terminal records, order, finality and termination of the saga; no overlap while the lock lives, due jobs run |
| `paxos_hub` | Paxos: 3 acceptors, 2 nodes with a caller each, one of them wired to the learner, 2 proposals each, 2 values, lost calls and reports; hub: 2 clients, a channel of 1, a room broadcast and a message each | one value chosen and learned, logged slots decided; channels closed once, rooms hold open clients |
| `raft` | 3 nodes, 2 of them campaign, 2 terms, logs of 2, 2 rounds of replication, one lost call | one leader per term, log matching and equal commits, but for the slips |
| `breaker_mesh_defaults` | 1 slot, 2 successes | **violated**: stuck half-open |
| `breaker_cooldown` | 2 callers, threshold 1 | **violated**: half-open without a cooldown |
| `breaker_probes` | 2 callers, thresholds 1, 1 slot | **violated**: two probes at once |
| `saga_lost_rollback` | 3 steps, one cancelled context | **violated**: completed over undone steps |
| `scheduler_two_nodes` | as in `services`, no fault, no expiry | **violated**: both nodes run one fire time |
| `paxos_log` | as in `paxos_hub`, both nodes wired | **violated**: a log entry that was not chosen |
| `raft_commit` | as in `raft` with 2 calls out to a peer | **violated**: an entry is committed that only the leader has |
| `hub_panic` | as in `paxos_hub` | **violated**: a join, or a send, of a removed client ends the process |

Why the bounds are enough: the races need at most three parties (one granted,
one cancelled, one waiting; one stale reader, one that trips, one that closes;
a late releaser, the holder, a newcomer). Thresholds of two distinguish "one
too early" from "reached". Two crashes let a rollback be interrupted, started
over and interrupted again. Two fire times let a goroutine be late by one;
two goroutines of one node and one of another are the parties of a race for the
lock. `faults`, `sagaFaults`, `crashes`, `calls`, `clock`, `adminLeft` and
`panicsLeft` bound the environment only. In Paxos each of two nodes has two proposals, numbered 1
and 2 by both: one that the other refuses or overtakes, and one that must find the
other's value. In Raft two
campaigners, two terms and two sends are what it takes to overwrite an entry of
a deposed leader; the third node decides both elections. `MaxCalls = 1` lets a
Propose wait for the goroutines of the last tick; with 2, and so an
acknowledgement that is older than an entry, the commit rule fails
(`raft_commit`). In the bus a queue of one place blocks a publisher at its
second handler; in the hub a channel of one message makes a client stale at the
second broadcast; the engine's workflow has each kind of state, a target that does
not exist, and a circle of a choice and a pass state.

The scheduler's `MaxClock` ends the fire times, so a run cannot show what depends
on contention for ever: `DueJobRuns` asks for a run by some node, not by each, and
that does not rest on the bound (whoever finds the entry taken gives way to a
holder that runs the job, or to an entry that expires; `MaxCalls` bounds the
RunNow calls, which could otherwise hold the entry for ever).

Fairness. Each component states its own, next to its specification. Weak
fairness of the steps of goroutines that can run; in the semaphore and the
breaker strong fairness of what a caller does next, one formula per caller,
because Go mutexes do not starve a waiter. Holders release (Bulkhead defers it),
protected functions, Actions and handlers return, TTLs and timeouts pass, tickers
fire, and an operator calls ResumeAll while executions are incomplete. Nothing
obliges a context to end, a node to crash, anyone to call Reset, or a dependency
to recover. A Close that was called goes on, publishers in Publish and workers go
on; nobody need publish, cancel, wait or start. Deadlock checking is off for
`services`, `paxos_hub` and `raft`, whose bounded behaviours end.

Eight runs end in a violation. Each states what a comment of the repository says
and shows a behaviour of the code that contradicts it; `findings` in
`PROJECT.json` quotes the lines. Next to three of them stands what the code does
guarantee: `BreakerTypeOK` bounds the counter halfOpenCount, not the probes;
`LoggedSlotDecided` says that a logged slot is decided, not with which value;
`NoDoubleClose` and `RoomsHoldOpenClients` hold of the hub up to its first panic.
In `hub_panic` TLC stops at the shortest behaviour, a JoinRoom after the client's
connection has ended; without it, a send on a closed channel is reached as well.

Conditions a reader should know. `NoStrandedQueue` needs weights within the
size: an Acquire of more than the size that is cancelled leaves a queue behind
it asleep. `Recovers` needs as many half-open slots as successes, and one more
for every panic. `CompletedStands` and `ForwardInOrder` are for executions in
which no Save failed; `RolledBack`, `BackwardInOrder`, `TerminalIsFinal` and
`Settles` hold with failed Saves as well. `RolledBack` admits one exception: the
step that reported an error is never undone. `CloseDrains` and `CloseReturns` are
about the Close that won; a second Close returns while handlers run, against the
comment at events memory.go:239. `OneLeaderPerTerm`, `LogMatching` and
`AppliedAgree` hold until one of the slips above happens: they say that these are
the only holes.

## Proofs

All theorems are of the form `Spec => []P` or `Spec => A` for every value of the
constants, from the named assumptions of the modules (finite sets of callers or
nodes, natural bounds, thresholds above zero, disjoint goroutines, marks such as
`Nobody` or `NoTask` that are none of the real values). The bounds of the runs
are constants too, so the theorems hold for any number of crashes, losses, terms,
proposals or publications.

* Semaphore. The inductive invariant `SemInv` is the types, `QueueShape` (the
  queue has no repetition; a queued caller is waiting or cancelled and not
  granted; a granted one is waiting or cancelled), `Conservation` and
  `cur <= Size`.
  Conservation is not inductive alone: that a cancelled caller is either in the
  queue or granted, never both, is what makes its cleanup give back the right
  number. The sums are cardinalities of sets of units. From it follow the
  types, the bulkhead limit, `NoStrandedQueue` (for MaxN <= Size), FIFO, the
  refinement of `SlotPool`, and that a wake-up is lost by a cancelled head only.
* Circuit breaker. The types and the two "no missed" invariants are inductive
  together (`BreakerInv`): whoever takes a counter across its threshold is the
  one that goes for the mutex. The legal transitions follow step by step.
* Scheduler. The types and `LockedWhileRunning` are inductive together; that no
  two live handlers overlap follows, since both would be the entry's value.
* Durable saga. `SagaInv` relates three things: the record, the copy the running
  call works on (`CallShape`: how far it is ahead at each place of the call), and
  the world (`WorldBehind`, `CompensationSound`, and, while every Save went
  through, `SavedForward`). The order of actions and compensations and the
  finality of terminal records are read off it step by step.
* Paxos. A call counts promises and forgets who gave them, and proposal numbers
  may coincide. The invariant says that there is a set `H` of heard promises that
  explains every count (`PaxosInv` quantifies it); with it, every accepted pair
  is safe at its number in the usual sense, and any two majorities meet
  (`Agreement`). The learner's counters are bounded by the acceptances that were
  reported (`CountInv`, `ReportInv`), which gives `LearnedIsChosen`. A
  call's accepts are bounded by the acceptances of its own proposal, which gives
  `LoggedSlotDecided`.
* Raft. The state forgets who was counted in which election, for whom a node
  voted in an earlier term, who led, and which logs there have been. `RaftInv`
  says that there are such records (`E`, `H`, `V`, `L`, `A` in `RaftProofs`) that
  agree with the state as long as no vote is forgotten and no leader campaigns:
  elections count votes that were given, one per node and term; two majorities
  meet, so a term has one leader; a leader's log has every index its term was
  ever written at; all logs match; calls carry the end of one of these logs.
  `OneLeaderPerTerm` and `LogMatching` follow. The types hold in any case.
  `AppliedAgree` needs a further record `K` of who has had which entry while the
  entry's term was its own (`CommitRecords`, as long as no acknowledgement is
  taken for more than its call carried either). An entry is chosen when a
  majority has had it so, and choosable when each node of a majority has had it
  or is not past its term yet; no step makes an entry choosable. A choosable
  entry stays where it is, and it is in the log of every leader of a later term
  and in every log with an entry of a later term: each winner has a voter that
  had it, and the voter compared the logs. What is committed lies below a chosen
  entry.
* Event bus. `BusInv` follows each task from Publish to its handler: untouched,
  at hand (counted, not queued), queued or held by one worker, handled once
  (`QueueInv`, `PublishOK`), and ties the phases of the winning Close to publishers
  in the middle of a fan-out (`CloseInv`).
* Hub. `LifeCycle` (the hub's clients have open channels; a closed channel goes
  with a nil rooms map until the loop has stopped) and `RoomAgrees` (up to the
  first panic the room and the clients' own maps agree): whoever comes second to
  remove a client finds it gone, so no channel is closed twice.
* Workflow engine. `NoLostWaiter` with the registered waiters, and `LoopEnds` for
  the runner's place after a Cancel.

Each inductive invariant was model-checked before it was proved, the records of
Paxos and Raft as history variables that the actions maintain. The proof of Raft
corrected the model's type invariant: a commit index within the log, which the
small instance satisfies, is false when an overclaimed acknowledgement commits
an entry and a later leader truncates it; it is now part of `AppliedAgree`.

Only model-checked: liveness (`AcquireReturns`, `Recovers`, `Settles`,
`DueJobRuns`, `CloseReturns`, `ExecutionEnds`), which is beyond the prover's
reach.

## Not modelled

* SWIM, event-sourcing projections and the in-process saga: worth a module each.
* The memory broker: Publish checks `closed` and then sends on channels that
  Close may close in between (memory.go:167); a full subscriber ends a fan-out in
  the middle (memory.go:171), so a retry reaches the earlier ones twice. Every
  property worth stating fails to these, and no document promises one.
* Inside modelled components: ResumeAll's loop over executions, which ends at the
  first one that cannot be resumed (durable.go:97), and concurrent calls for one
  saga execution (durable.go:92); one-time jobs and re-registration
  (scheduler.go:318) and Start/Stop (scheduler.go:230) of the scheduler; OnStateChange callbacks, which
  run under the breaker's mutex (circuitbreaker.go:193); Raft's Stop and its
  apply channel, which drops commands when it is full (raft.go:243), two Proposes
  of one node that are both between append and replication (raft.go:147), and a
  request that arrives after its call was reported lost; a second
  caller of ProposeSlot on one node, which reads the same slot (paxos.go:252);
  handlers that publish on the bus they serve, and the misuse checks of its
  WaitGroup (events memory.go:109); the adaptive limiter of the worker pool;
  signals and queries of the workflow engine.
* Most of the repository's lines: some 1300 files of adapters over cloud,
  database, AI, payment and messaging SDKs, in-memory doubles that are a map
  under a mutex, instrumentation wrappers, configuration, services and
  templates. They translate one call into one call; what could go wrong in them
  is in the SDK's behaviour or in data, not in an order of steps. A model of
  them would restate their assignments, so the share of lines covered stays
  small.

## Plan

1. Done: semaphore, bulkhead, breaker, durable saga, scheduler and lock, Paxos,
   Raft, worker pool and event bus, WebSocket hub, workflow engine.
2. Done: theorems for every invariant and action property of the passing runs.
3. Modules to come: SWIM, projections, two concurrent calls of the durable saga,
   one-time jobs of the scheduler.
