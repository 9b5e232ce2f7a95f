--------------------------- MODULE ServicesProofs ---------------------------
(***************************************************************************)
(* The WebSocket hub, for any number of clients and broadcasting           *)
(* goroutines and any channel capacity, and the workflow engine, for any   *)
(* workflow and any number of executions and waiters.                      *)
(*                                                                         *)
(* HubInv is inductive.  Its part LifeCycle ties the five places in which  *)
(* a client can be known (its life, the hub's map, the room, its own rooms *)
(* map, the closed channels) together.                                     *)
(* WorkflowInv is inductive: the loop of an execution begins a state after *)
(* the end at most once, because it is past its status test by then.       *)
(***************************************************************************)
EXTENDS Hub, Workflow, TLAPS

-----------------------------------------------------------------------------
(* The WebSocket hub                                                       *)

\* A client of the hub has an open channel, and one that is not registered yet
\* is nowhere; until the loop has stopped, a closed channel goes with a nil
\* rooms map, and after it the hub has no clients.
LifeCycle ==
    /\ clients \cap closedCh = {}
    /\ \A c \in Clients : ~Registered(c) => c \notin clients \cup closedCh
    /\ \A c \in closedCh : run.pc = "stopped" \/ inRoom[c] = "nil"
    /\ run.pc = "stopped" => clients = {}

\* The hub's room and the clients' rooms maps agree, and both leave out the
\* clients whose channel is closed.
RoomAgrees ==
    panic = "none" => \A c \in members : inRoom[c] = "in" /\ c \notin closedCh

HubInv == HubTypeOK /\ LifeCycle /\ RoomAgrees /\ NoDoubleClose

-----------------------------------------------------------------------------
LEMMA HubInitInv == HubInit => HubInv
<1> SUFFICES ASSUME HubInit PROVE HubInv
    OBVIOUS
<1>1. HubTypeOK
    <2>1. NoCast \in Casts
        BY DEF NoCast, Casts
    <2>2. run \in Casts /\ caster \in [Casters -> Casts]
        BY <2>1 DEF HubInit
    <2>3. send \in [Clients -> 0..SendCap] /\ shouts \in [Clients -> 0..MaxShout]
        BY HubAssumption DEF HubInit
    <2> QED BY <2>2, <2>3 DEF HubInit, HubTypeOK, Panics
<1>2. LifeCycle /\ RoomAgrees
    BY DEF HubInit, LifeCycle, RoomAgrees, NoCast
<1>3. NoDoubleClose
    BY DEF HubInit, NoDoubleClose
<1> QED BY <1>1, <1>2, <1>3 DEF HubInv

\* What removeClient does, by whomever it is called, while the invariant holds:
\* it never closes a channel a second time.
LEMMA RemoveClientSafe ==
    ASSUME HubInv, panic = "none", NEW c \in Clients, RemoveClient(c)
    PROVE  /\ clients' = clients \ {c}
           /\ members' = members \ {c} \/ (c \notin clients /\ members' = members)
           /\ closedCh' \in {closedCh, closedCh \cup {c}}
           /\ inRoom' \in [Clients -> {"out", "in", "nil"}]
           /\ panic' = "none"
           /\ \A d \in closedCh' \ closedCh : d = c /\ inRoom'[c] = "nil" /\ c \in clients
           /\ \A d \in Clients \ {c} : inRoom'[d] = inRoom[d]
           /\ c \in clients => inRoom'[c] = "nil" /\ c \in closedCh'
           /\ c \notin clients => UNCHANGED <<inRoom, closedCh>>
BY DEF RemoveClient, HubInv, HubTypeOK, LifeCycle, RoomAgrees
-----------------------------------------------------------------------------
\* Steps that touch neither the room, nor the channels, nor a snapshot.
LEMMA ConnectionSteps ==
    ASSUME HubInv, panic = "none", NEW c \in Clients,
           \/ ServeWs(c) \/ ReadMessage(c) \/ ReadEnds(c)
           \/ WriteMessage(c) \/ WriteEnds(c) \/ Register(c)
    PROVE  HubInv'
<1> USE HubAssumption DEF HubInv
<1>1. CASE ServeWs(c)
    BY <1>1 DEF ServeWs, HubTypeOK, LifeCycle, RoomAgrees, NoDoubleClose, Registered
<1>2. CASE ReadMessage(c)
    BY <1>2 DEF ReadMessage, HubTypeOK, LifeCycle, RoomAgrees, NoDoubleClose, Registered
<1>3. CASE ReadEnds(c)
    BY <1>3 DEF ReadEnds, HubTypeOK, LifeCycle, RoomAgrees, NoDoubleClose, Registered
<1>4. CASE WriteMessage(c)
    BY <1>4 DEF WriteMessage, HubTypeOK, LifeCycle, RoomAgrees, NoDoubleClose, Registered
<1>5. CASE WriteEnds(c)
    BY <1>5 DEF WriteEnds, HubTypeOK, LifeCycle, RoomAgrees, NoDoubleClose, Registered
<1>6. CASE Register(c)
    BY <1>6 DEF Register, Serving, HubTypeOK, LifeCycle, RoomAgrees,
                NoDoubleClose, Registered
<1> QED BY <1>1, <1>2, <1>3, <1>4, <1>5, <1>6

\* JoinRoom and LeaveRoom.
LEMMA RoomSteps ==
    ASSUME HubInv, panic = "none", NEW c \in Clients, JoinRoom(c) \/ LeaveRoom(c)
    PROVE  HubInv'
<1> USE DEF HubInv
<1>1. CASE JoinRoom(c)
    <2>1. HubTypeOK'
        BY <1>1 DEF JoinRoom, HubTypeOK, Panics
    <2>2. LifeCycle' /\ RoomAgrees'
        BY <1>1 DEF JoinRoom, Serving, Registered, HubTypeOK, LifeCycle, RoomAgrees
    <2>3. NoDoubleClose'
        BY <1>1 DEF JoinRoom, NoDoubleClose
    <2> QED BY <2>1, <2>2, <2>3
<1>2. CASE LeaveRoom(c)
    BY <1>2 DEF LeaveRoom, Serving, HubTypeOK, LifeCycle, RoomAgrees,
                NoDoubleClose, Registered
<1> QED BY <1>1, <1>2

\* A broadcast takes its snapshot from what has open channels.
LEMMA SnapshotSteps ==
    ASSUME HubInv, panic = "none",
           \/ \E c \in Clients : Broadcast(c)
           \/ \E b \in Casters : BroadcastToRoom(b)
    PROVE  HubInv'
<1> USE DEF HubInv
<1>1. ASSUME NEW c \in Clients, Broadcast(c) PROVE HubInv'
    BY <1>1 DEF Broadcast, Serving, HubTypeOK, Casts, LifeCycle, RoomAgrees,
                NoDoubleClose, Registered
<1>2. ASSUME NEW b \in Casters, BroadcastToRoom(b) PROVE HubInv'
    BY <1>2 DEF BroadcastToRoom, HubTypeOK, Casts, LifeCycle, RoomAgrees,
                NoDoubleClose, Registered
<1> QED BY <1>1, <1>2

\* A message of a broadcast meets a closed channel only after a race, and a
\* channel takes no more than it holds.
LEMMA SendSteps ==
    ASSUME HubInv, panic = "none", BroadcastSend \/ \E b \in Casters : RoomSend(b)
    PROVE  HubInv'
<1> USE DEF HubInv
<1>1. ASSUME NEW r \in Casts, NEW c \in r.todo
      PROVE  /\ Sent(r, c) \in Casts /\ Sent(r, c).pc = r.pc
             /\ Sent(r, c).todo = r.todo \ {c}
    <2>1. c \in Clients
        BY DEF Casts
    <2>2. (IF send[c] = SendCap THEN r.stale \cup {c} ELSE r.stale) \in SUBSET Clients
        BY <2>1 DEF Casts
    <2> HIDE DEF HubInv
    <2> QED BY <2>2 DEF Sent, Casts
<1>2. ASSUME NEW c \in Clients, SendTo(c)
      PROVE  /\ send' \in [Clients -> 0..SendCap]
             /\ panic' \in {"none", "send"}
    BY <1>2, HubAssumption DEF SendTo, HubTypeOK
<1>3. ASSUME BroadcastSend PROVE HubInv'
    <2>1. PICK c \in run.todo : SendTo(c) /\ run' = Sent(run, c)
        BY <1>3 DEF BroadcastSend
    <2>2. c \in Clients /\ run \in Casts
        BY DEF HubTypeOK, Casts
    <2>3. HubTypeOK'
        <3>1. send' \in [Clients -> 0..SendCap] /\ panic' \in Panics
            BY <1>2, <2>1, <2>2 DEF Panics
        <3>2. run' \in Casts
            BY <1>1, <2>1, <2>2
        <3> QED BY <1>3, <3>1, <3>2 DEF BroadcastSend, HubTypeOK
    <2>4. LifeCycle' /\ RoomAgrees'
        BY <1>1, <1>3, <2>1, <2>2 DEF BroadcastSend, LifeCycle, RoomAgrees, Registered
    <2>5. NoDoubleClose'
        BY <1>2, <2>1, <2>2 DEF NoDoubleClose
    <2> QED BY <2>3, <2>4, <2>5
<1>4. ASSUME NEW b \in Casters, RoomSend(b) PROVE HubInv'
    <2>1. PICK c \in caster[b].todo :
             SendTo(c) /\ caster' = [caster EXCEPT ![b] = Sent(@, c)]
        BY <1>4 DEF RoomSend
    <2>2. c \in Clients /\ caster[b] \in Casts
        BY DEF HubTypeOK, Casts
    <2>3. HubTypeOK'
        <3>1. send' \in [Clients -> 0..SendCap] /\ panic' \in Panics
            BY <1>2, <2>1, <2>2 DEF Panics
        <3>2. caster' \in [Casters -> Casts]
            BY <1>1, <2>1, <2>2 DEF HubTypeOK
        <3> QED BY <1>4, <3>1, <3>2 DEF RoomSend, HubTypeOK
    <2>4. LifeCycle' /\ RoomAgrees'
        BY <1>4 DEF RoomSend, LifeCycle, RoomAgrees, Registered
    <2>5. NoDoubleClose'
        BY <1>2, <2>1, <2>2 DEF NoDoubleClose
    <2> QED BY <2>3, <2>4, <2>5
<1> QED BY <1>3, <1>4

\* Shutdown, and the loop that closes what is left and stops.
LEMMA ShutdownSteps ==
    ASSUME HubInv, panic = "none", Shutdown \/ CloseAllClients
    PROVE  HubInv'
<1> USE DEF HubInv
<1>1. CASE Shutdown
    BY <1>1 DEF Shutdown, HubTypeOK, LifeCycle, RoomAgrees, NoDoubleClose, Registered
<1>2. CASE CloseAllClients
    <2>1. HubTypeOK'
        BY <1>2 DEF CloseAllClients, Serving, HubTypeOK, Casts, Panics
    <2>2. LifeCycle' /\ RoomAgrees'
        BY <1>2 DEF CloseAllClients, Serving, LifeCycle, RoomAgrees, Registered,
                    HubTypeOK, Casts
    <2>3. NoDoubleClose'
        BY <1>2 DEF CloseAllClients, LifeCycle, NoDoubleClose
    <2> QED BY <2>1, <2>2, <2>3
<1> QED BY <1>1, <1>2

\* A client leaves: by its unregister, or as a stale client of a broadcast.
LEMMA RemoveSteps ==
    ASSUME HubInv, panic = "none", NEW c \in Clients, RemoveClient(c),
           life' \in [Clients -> {"new", "registering", "reading", "shouting",
                                  "leaving", "gone"}],
           \A d \in Clients : Registered(d) = Registered(d)',
           UNCHANGED <<send, writing, done, shouts>>,
           run' \in Casts, caster' \in [Casters -> Casts],
           run'.pc = run.pc, run'.todo = run.todo,
           \A b \in Casters : caster'[b].todo = caster[b].todo
    PROVE  HubInv'
<1> USE DEF HubInv
<1>1. HubTypeOK'
    <2>1. /\ clients' \in SUBSET Clients /\ members' \in SUBSET Clients
          /\ closedCh' \in SUBSET Clients
          /\ inRoom' \in [Clients -> {"out", "in", "nil"}]
        BY DEF RemoveClient, HubTypeOK
    <2>2. panic' = "none"
        BY RemoveClientSafe
    <2> QED BY <2>1, <2>2 DEF HubTypeOK, Panics
<1>2. LifeCycle'
    BY RemoveClientSafe DEF LifeCycle, HubTypeOK
<1>3. RoomAgrees'
    BY DEF RemoveClient, RoomAgrees, HubTypeOK, LifeCycle
<1>4. NoDoubleClose'
    BY RemoveClientSafe DEF NoDoubleClose
<1> QED BY <1>1, <1>2, <1>3, <1>4

\* The steps that remove a client, and the end of a broadcast.
LEMMA LeavingSteps ==
    ASSUME HubInv, panic = "none",
           \/ \E c \in Clients : Unregister(c)
           \/ BroadcastStale
           \/ \E b \in Casters : RoomStale(b)
    PROVE  HubInv'
<1>1. ASSUME NEW c \in Clients, Unregister(c) PROVE HubInv'
    BY <1>1, RemoveSteps DEF Unregister, Registered, HubInv, HubTypeOK
<1>2. ASSUME BroadcastStale PROVE HubInv'
    <2>1. ASSUME NEW c \in run.stale, RemoveClient(c), run' = [run EXCEPT !.stale = @ \ {c}]
          PROVE  HubInv'
        BY <1>2, <2>1, RemoveSteps DEF BroadcastStale, Registered, HubInv, HubTypeOK, Casts
    <2>2. CASE /\ run.stale = {} /\ run' = NoCast
               /\ UNCHANGED <<clients, members, inRoom, closedCh, panic>>
        BY <1>2, <2>2 DEF BroadcastStale, NoCast, HubInv, HubTypeOK, Casts, LifeCycle,
                          RoomAgrees, NoDoubleClose, Registered
    <2> QED BY <1>2, <2>1, <2>2 DEF BroadcastStale
<1>3. ASSUME NEW b \in Casters, RoomStale(b) PROVE HubInv'
    <2>1. ASSUME NEW c \in caster[b].stale, RemoveClient(c),
                 caster' = [caster EXCEPT ![b].stale = @ \ {c}]
          PROVE  HubInv'
        BY <1>3, <2>1, RemoveSteps DEF RoomStale, Registered, HubInv, HubTypeOK, Casts
    <2>2. CASE /\ caster[b].stale = {}
               /\ caster' = [caster EXCEPT ![b].pc = "done"]
               /\ UNCHANGED <<clients, members, inRoom, closedCh, panic>>
        BY <1>3, <2>2 DEF RoomStale, HubInv, HubTypeOK, Casts, LifeCycle,
                          RoomAgrees, NoDoubleClose, Registered
    <2> QED BY <1>3, <2>1, <2>2 DEF RoomStale
<1> QED BY <1>1, <1>2, <1>3

LEMMA HubNextInv == HubInv /\ [HubNext]_hubVars => HubInv'
<1> SUFFICES ASSUME HubInv, [HubNext]_hubVars PROVE HubInv'
    OBVIOUS
<1>1. CASE UNCHANGED hubVars
    BY <1>1 DEF hubVars, HubInv, HubTypeOK, LifeCycle, RoomAgrees, NoDoubleClose, Registered
<1>2. CASE HubNext
    BY <1>2, ConnectionSteps, RoomSteps, SnapshotSteps, SendSteps, ShutdownSteps,
       LeavingSteps DEF HubNext, HubLoop
<1> QED BY <1>1, <1>2

-----------------------------------------------------------------------------
\* The inductive invariant holds in every state the hub can reach.
THEOREM HubInvariant == HubSpec => []HubInv
BY HubInitInv, HubNextInv, PTL DEF HubSpec

\* hub.go: the hub's state keeps its shape; no send channel holds more than its
\* capacity.
THEOREM HubTypes == HubSpec => []HubTypeOK
BY HubInvariant, PTL DEF HubInv

\* removeClient and closeAllClients: no send channel is closed twice, whatever
\* the number of clients, broadcasts and goroutines that remove the same client.
THEOREM HubNoDoubleClose == HubSpec => []NoDoubleClose
BY HubInvariant, PTL DEF HubInv

\* removeClient and closeAllClients leave no closed channel in the room.
THEOREM HubRoomsHoldOpenClients == HubSpec => []RoomsHoldOpenClients
<1>1. HubInv => RoomsHoldOpenClients
    BY DEF HubInv, RoomAgrees, RoomsHoldOpenClients
<1> QED BY HubInvariant, <1>1, PTL

-----------------------------------------------------------------------------
(* The workflow engine                                                     *)

\* An execution that has not been started has no runner, and nobody waits for
\* it; whoever waits has nothing in its channel before the end.
WaitersKnown ==
    \A w \in Waiters : waiter[w].on # "none" => status[waiter[w].on] # "none"

\* The loop begins a state after the end at most once: then it is past its
\* status test, and does not pass it again.
LoopEnds ==
    \A e \in Execs :
        /\ status[e] = "none" => runner[e] = "off"
        /\ begun[e] \in {0, 1}
        /\ begun[e] = 1 => Over(e) /\ runner[e] # "begin"

WorkflowInv == WorkflowTypeOK /\ begun \in [Execs -> {0, 1}]
               /\ WaitersKnown /\ NoLostWaiter /\ LoopEnds

LEMMA WorkflowInitInv == WorkflowInit => WorkflowInv
BY DEF WorkflowInit, WorkflowInv, WorkflowTypeOK, WaitersKnown, NoLostWaiter,
       LoopEnds, Statuses, Positions, NotWaiting, Over

\* A step that leaves the statuses and the waiters alone disturbs the loops only.
LEMMA RunnerSteps ==
    ASSUME WorkflowInv, NEW e \in Execs,
           UNCHANGED <<status, waiter>>,
           ctxDone' \in SUBSET Execs,
           NEW p \in Positions, Goto(e, p),
           p = "begin" => status[e] = "running",
           p # "off" => status[e] # "none",
           \/ UNCHANGED begun
           \/ /\ runner[e] = "begin" /\ p # "begin"
              /\ begun' = [begun EXCEPT ![e] = IF status[e] = "running" THEN @ ELSE @ + 1]
    PROVE  WorkflowInv'
<1> USE DEF WorkflowInv, Goto
<1>1. WorkflowTypeOK' /\ WaitersKnown' /\ NoLostWaiter'
    BY DEF WorkflowTypeOK, WaitersKnown, NoLostWaiter, Over
<1>2. begun' \in [Execs -> {0, 1}]
    BY DEF WorkflowTypeOK, LoopEnds
<1>3. LoopEnds'
    <2>1. ASSUME NEW f \in Execs, f # e
          PROVE  runner'[f] = runner[f] /\ begun'[f] = begun[f]
        BY <2>1 DEF WorkflowTypeOK
    <2>2. runner'[e] = p
        BY DEF WorkflowTypeOK
    <2>3. begun'[e] = begun[e] \/ (runner[e] = "begin" /\ p # "begin" /\ status[e] # "running")
        BY DEF WorkflowTypeOK
    <2>4. status[e] # "running" /\ status[e] # "none" => Over(e)
        BY DEF WorkflowTypeOK, Over, Statuses
    <2>5. \A f \in Execs : Over(f)' <=> Over(f)
        BY DEF Over
    <2>6. \A f \in Execs : begun'[f] \in {0, 1}
        BY <1>2
    <2>7. /\ status'[e] = "none" => runner'[e] = "off"
          /\ begun'[e] = 1 => Over(e)' /\ runner'[e] # "begin"
        BY <2>2, <2>3, <2>4, <2>5, <2>6 DEF LoopEnds, Over, Verdicts
    <2> QED BY <2>1, <2>5, <2>6, <2>7 DEF LoopEnds
<1> QED BY <1>1, <1>2, <1>3

\* The statements of runExecution up to finish, and the timeout.
LEMMA LoopSteps ==
    ASSUME WorkflowInv, NEW e \in Execs,
           \/ Top(e) \/ Check(e) \/ Begin(e) \/ EndState(e) \/ Join(e) \/ Timeout(e)
    PROVE  WorkflowInv'
<1> USE DEF WorkflowInv, Positions, Verdicts
<1>0. runner[e] # "off" => status[e] # "none"
    BY DEF LoopEnds
<1>1. CASE Top(e)
    <2> DEFINE p == IF e \in ctxDone THEN "timedout" ELSE "check"
    <2>1. p \in Positions /\ Goto(e, p) /\ p # "begin"
        BY <1>1 DEF Top
    <2> HIDE DEF p
    <2> QED BY <1>0, <1>1, <2>1, RunnerSteps DEF Top, WorkflowTypeOK
<1>2. CASE Check(e)
    <2>1. CASE status[e] = "running" /\ Goto(e, "begin") /\ UNCHANGED ctxDone
        BY <1>2, <2>1, RunnerSteps DEF Check, WorkflowTypeOK
    <2>2. CASE status[e] # "running" /\ Goto(e, "off") /\ ctxDone' = ctxDone \cup {e}
        BY <1>2, <2>2, RunnerSteps DEF Check, WorkflowTypeOK
    <2> QED BY <1>2, <2>1, <2>2 DEF Check
<1>3. CASE Begin(e)
    <2>1. PICK p \in {"failed", "busy", "join"} : Goto(e, p)
        BY <1>3 DEF Begin
    <2> QED BY <1>0, <1>3, <2>1, RunnerSteps DEF Begin, WorkflowTypeOK
<1>4. CASE EndState(e)
    <2>1. PICK p \in {"completed", "top", "timedout", "failed"} : Goto(e, p)
        BY <1>4 DEF EndState, Succeeds, Fails
    <2> QED BY <1>0, <1>4, <2>1, RunnerSteps DEF EndState, WorkflowTypeOK
<1>5. CASE Join(e)
    <2>1. PICK p \in {"completed", "top", "timedout", "failed"} : Goto(e, p)
        BY <1>5 DEF Join, Succeeds, Fails
    <2> QED BY <1>0, <1>5, <2>1, RunnerSteps DEF Join, WorkflowTypeOK
<1>6. CASE Timeout(e)
    BY <1>6 DEF Timeout, WorkflowTypeOK, WaitersKnown, NoLostWaiter, LoopEnds, Over
<1> QED BY <1>1, <1>2, <1>3, <1>4, <1>5, <1>6

\* An execution ends, by finish or by Cancel: whoever waits is told.
LEMMA EndSteps ==
    ASSUME WorkflowInv, NEW e \in Execs, NEW st \in Verdicts \cup {"cancelled"},
           status[e] = "running",
           status' = [status EXCEPT ![e] = st],
           Notify(e, st),
           ctxDone' \in SUBSET Execs,
           runner' = runner \/ Goto(e, "off"),
           UNCHANGED begun
    PROVE  WorkflowInv'
<1> USE DEF WorkflowInv
<1>1. runner' \in [Execs -> Positions]
    BY DEF WorkflowTypeOK, Goto, Positions
<1>2. status' \in [Execs -> Statuses]
    BY DEF WorkflowTypeOK, Statuses
<1>3. waiter' \in [Waiters -> [on : Execs \cup {"none"}, got : Statuses]]
    BY DEF WorkflowTypeOK, Notify, Statuses
<1>4. \A w \in Waiters : /\ waiter'[w].on = waiter[w].on
                          /\ waiter'[w].got = IF waiter[w].on = e THEN st ELSE waiter[w].got
    BY DEF WorkflowTypeOK, Notify
<1>5. WaitersKnown' /\ NoLostWaiter'
    BY <1>2, <1>4, WorkflowAssumption
    DEF WaitersKnown, NoLostWaiter, Over, WorkflowTypeOK, Verdicts
<1>6. LoopEnds'
    BY <1>1, <1>2 DEF LoopEnds, Over, WorkflowTypeOK, Verdicts, Goto
<1> QED BY <1>1, <1>2, <1>3, <1>5, <1>6 DEF WorkflowTypeOK

LEMMA WorkflowNextInv == WorkflowInv /\ [WorkflowNext]_wfVars => WorkflowInv'
<1> SUFFICES ASSUME WorkflowInv, [WorkflowNext]_wfVars PROVE WorkflowInv'
    OBVIOUS
<1>1. ASSUME NEW e \in Execs, NEW s \in StartAt, Start(e, s) PROVE WorkflowInv'
    <2> USE <1>1 DEF WorkflowInv, Start
    <2>1. runner' \in [Execs -> Positions] /\ status' \in [Execs -> Statuses]
        BY DEF WorkflowTypeOK, Goto, Positions, Statuses
    <2>2. WaitersKnown' /\ NoLostWaiter'
        BY DEF WaitersKnown, NoLostWaiter, Over, WorkflowTypeOK, Verdicts
    <2>3. LoopEnds'
        BY DEF LoopEnds, Over, WorkflowTypeOK, Verdicts, Goto
    <2> QED BY <2>1, <2>2, <2>3 DEF WorkflowTypeOK
<1>2. ASSUME NEW e \in Execs, Finish(e) PROVE WorkflowInv'
    <2>1. CASE status[e] = "running"
        BY <1>2, <2>1, EndSteps DEF Finish, WorkflowInv, WorkflowTypeOK
    <2>2. CASE status[e] # "running"
        BY <1>2, <2>2, RunnerSteps DEF Finish, WorkflowInv, WorkflowTypeOK, Positions
    <2> QED BY <2>1, <2>2
<1>3. ASSUME NEW e \in Execs, CancelExecution(e) PROVE WorkflowInv'
    BY <1>3, EndSteps DEF CancelExecution, WorkflowInv, WorkflowTypeOK
<1>4. ASSUME NEW e \in Execs, NEW b \in Starts, BranchStep(e, b) PROVE WorkflowInv'
    BY <1>4 DEF BranchStep, WorkflowInv, WorkflowTypeOK, WaitersKnown, NoLostWaiter,
                LoopEnds, Over
<1>5. ASSUME NEW e \in Execs, NEW w \in Waiters, Wait(w, e) PROVE WorkflowInv'
    BY <1>5, WorkflowAssumption
    DEF Wait, NotWaiting, WorkflowInv, WorkflowTypeOK, WaitersKnown, NoLostWaiter,
        LoopEnds, Over, Verdicts
<1>6. ASSUME NEW w \in Waiters, WaitReturns(w) \/ WaitCtxDone(w) PROVE WorkflowInv'
    BY <1>6 DEF WaitReturns, WaitCtxDone, NotWaiting, WorkflowInv, WorkflowTypeOK,
                Statuses, WaitersKnown, NoLostWaiter, LoopEnds, Over
<1>7. CASE UNCHANGED wfVars
    BY <1>7 DEF wfVars, WorkflowInv, WorkflowTypeOK, WaitersKnown, NoLostWaiter,
                LoopEnds, Over
<1> QED
    BY <1>1, <1>2, <1>3, <1>4, <1>5, <1>6, <1>7, LoopSteps
    DEF WorkflowNext, RunExecution

\* The inductive invariant holds in every state the engine can reach.
THEOREM WorkflowInvariant == WorkflowSpec => []WorkflowInv
BY WorkflowInitInv, WorkflowNextInv, PTL DEF WorkflowSpec

\* The engine's state keeps its shape.
THEOREM WorkflowTypes == WorkflowSpec => []WorkflowTypeOK
BY WorkflowInvariant, PTL DEF WorkflowInv

\* notifyWaitersLocked, finish and Cancel: nobody in Wait is left without the
\* final status, whatever workflow is executed.
THEOREM WorkflowNoLostWaiter == WorkflowSpec => []NoLostWaiter
BY WorkflowInvariant, PTL DEF WorkflowInv

\* runExecution begins at most one state after Cancel.
THEOREM WorkflowCancelStopsLoop == WorkflowSpec => []CancelStopsLoop
<1>1. WorkflowInv => CancelStopsLoop
    BY DEF WorkflowInv, LoopEnds, CancelStopsLoop
<1> QED BY WorkflowInvariant, <1>1, PTL
=============================================================================
