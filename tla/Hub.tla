-------------------------------- MODULE Hub ---------------------------------
(***************************************************************************)
(* pkg/api/websocket/hub.go with one room: the goroutine of Run, the two   *)
(* pumps of each client, and goroutines that call JoinRoom, LeaveRoom,     *)
(* BroadcastToRoom and Shutdown.  register, unregister, join, leave and    *)
(* Broadcast are unbuffered: a send and its receive are one step of Run.   *)
(* Messages are alike, so a send channel is the number of its messages.    *)
(***************************************************************************)
EXTENDS Integers, FiniteSets

CONSTANTS Clients,  \* connections that are upgraded
          Casters,  \* goroutines that call BroadcastToRoom, one call each
          SendCap,  \* the capacity of client.send
          MaxShout  \* bound on the messages a client sends

ASSUME HubAssumption == SendCap \in Nat /\ MaxShout \in Nat

VARIABLES
    life,     \* life[c]: new, registering, reading, shouting, leaving, gone
    clients,  \* h.clients
    members,  \* h.rooms[room]
    inRoom,   \* inRoom[c]: client.rooms: "out", "in", or "nil" for the nil map
    send,     \* send[c]: messages in client.send
    closedCh, \* the clients whose send channel is closed
    writing,  \* the clients whose writePump has not returned
    done,     \* h.done is closed
    run,      \* Run: [pc, todo, stale], todo and stale as in broadcast
    caster,   \* caster[b]: the same for BroadcastToRoom
    shouts,   \* shouts[c]: messages c has sent
    panic     \* the panic that has ended the process, see Panics

hubVars == <<life, clients, members, inRoom, send, closedCh, writing, done, run,
             caster, shouts, panic>>

\* send: to a closed channel.  join: an entry in a nil rooms map.  close: of a
\* channel that is closed.
Panics == {"none", "send", "join", "close"}

NoCast == [pc |-> "idle", todo |-> {}, stale |-> {}]

HubInit ==
    /\ life = [c \in Clients |-> "new"]
    /\ clients = {}
    /\ members = {}
    /\ inRoom = [c \in Clients |-> "out"]
    /\ send = [c \in Clients |-> 0]
    /\ closedCh = {}
    /\ writing = {}
    /\ done = FALSE
    /\ run = NoCast
    /\ caster = [b \in Casters |-> NoCast]
    /\ shouts = [c \in Clients |-> 0]
    /\ panic = "none"

Serving == run.pc = "idle"

-----------------------------------------------------------------------------
(* A connection: ServeWs and the pumps                                     *)

\* ServeWs: the client is made and offered to the hub.
ServeWs(c) ==
    /\ life[c] = "new"
    /\ life' = [life EXCEPT ![c] = "registering"]
    /\ UNCHANGED <<clients, members, inRoom, send, closedCh, writing, done,
                   run, caster, shouts, panic>>

\* The hub takes it; ServeWs starts the pumps.
Register(c) ==
    /\ Serving /\ life[c] = "registering"
    /\ clients' = clients \cup {c}
    /\ life' = [life EXCEPT ![c] = "reading"]
    /\ writing' = writing \cup {c}
    /\ UNCHANGED <<members, inRoom, send, closedCh, done, run, caster, shouts,
                   panic>>

\* readPump has a message for Broadcast.
ReadMessage(c) ==
    /\ life[c] = "reading" /\ shouts[c] < MaxShout
    /\ shouts' = [shouts EXCEPT ![c] = @ + 1]
    /\ life' = [life EXCEPT ![c] = "shouting"]
    /\ UNCHANGED <<clients, members, inRoom, send, closedCh, writing, done,
                   run, caster, panic>>

\* ReadMessage fails, or the hub is done while the pump offers a message: the
\* deferred unregister is next.
ReadEnds(c) ==
    /\ life[c] = "reading" \/ (life[c] = "shouting" /\ done)
    /\ life' = [life EXCEPT ![c] = "leaving"]
    /\ UNCHANGED <<clients, members, inRoom, send, closedCh, writing, done,
                   run, caster, shouts, panic>>

\* writePump writes a message.
WriteMessage(c) ==
    /\ c \in writing /\ send[c] > 0
    /\ send' = [send EXCEPT ![c] = @ - 1]
    /\ UNCHANGED <<life, clients, members, inRoom, closedCh, writing, done,
                   run, caster, shouts, panic>>

\* writePump returns: its channel is closed and empty, or a write failed.
WriteEnds(c) ==
    /\ c \in writing
    /\ writing' = writing \ {c}
    /\ UNCHANGED <<life, clients, members, inRoom, send, closedCh, done, run,
                   caster, shouts, panic>>

-----------------------------------------------------------------------------
(* removeClient                                                            *)

\* A removeClient that does not ask whether the client is still there.
RemoveAnyway(c) ==
    /\ clients' = clients \ {c}
    /\ members' = members \ {c}
    /\ inRoom' = [inRoom EXCEPT ![c] = "nil"]
    /\ panic' = IF c \in closedCh THEN "close" ELSE "none"
    /\ closedCh' = closedCh \cup {c}

\* A removeClient that leaves the client in its rooms.
RemoveFromHubOnly(c) ==
    IF c \notin clients
    THEN UNCHANGED <<clients, members, inRoom, closedCh, panic>>
    ELSE /\ clients' = clients \ {c}
         /\ inRoom' = [inRoom EXCEPT ![c] = "nil"]
         /\ panic' = IF c \in closedCh THEN "close" ELSE "none"
         /\ closedCh' = closedCh \cup {c}
         /\ UNCHANGED members

\* removeClient, under the lock: out of the hub and its rooms, rooms = nil, and
\* close(client.send), which panics on a closed channel.
RemoveClient(c) ==
    IF c \notin clients
    THEN UNCHANGED <<clients, members, inRoom, closedCh, panic>>
    ELSE /\ clients' = clients \ {c}
         /\ members' = IF inRoom[c] = "in" THEN members \ {c} ELSE members
         /\ inRoom' = [inRoom EXCEPT ![c] = "nil"]
         /\ panic' = IF c \in closedCh THEN "close" ELSE "none"
         /\ closedCh' = closedCh \cup {c}

\* The hub takes an unregister; readPump closes the connection and returns.
Unregister(c) ==
    /\ Serving /\ life[c] = "leaving"
    /\ RemoveClient(c)
    /\ life' = [life EXCEPT ![c] = "gone"]
    /\ UNCHANGED <<send, writing, done, run, caster, shouts>>

-----------------------------------------------------------------------------
(* Rooms: calls from any goroutine, after the client is registered         *)

Registered(c) == life[c] \notin {"new", "registering"}

\* The hub takes a join; writing to a nil rooms map panics.
JoinRoom(c) ==
    /\ Serving /\ Registered(c)
    /\ members' = members \cup {c}
    /\ IF inRoom[c] = "nil"
       THEN panic' = "join" /\ UNCHANGED inRoom
       ELSE inRoom' = [inRoom EXCEPT ![c] = "in"] /\ UNCHANGED panic
    /\ UNCHANGED <<life, clients, send, closedCh, writing, done, run, caster,
                   shouts>>

\* The hub takes a leave; deleting from a nil map is harmless.
LeaveRoom(c) ==
    /\ Serving /\ Registered(c)
    /\ members' = members \ {c}
    /\ inRoom' = [inRoom EXCEPT ![c] = IF @ = "nil" THEN @ ELSE "out"]
    /\ UNCHANGED <<life, clients, send, closedCh, writing, done, run, caster,
                   shouts, panic>>

-----------------------------------------------------------------------------
(* Broadcasts                                                              *)

\* A send that does not notice a full channel.
SendToFull(c) ==
    /\ panic' = IF c \in closedCh THEN "send" ELSE "none"
    /\ send' = [send EXCEPT ![c] = IF c \notin closedCh THEN @ + 1 ELSE @]

\* One round of the send loop, for client c: a closed channel panics, a full one
\* makes the client stale.
SendTo(c) ==
    /\ panic' = IF c \in closedCh THEN "send" ELSE "none"
    /\ send' = [send EXCEPT ![c] =
                   IF c \notin closedCh /\ @ < SendCap THEN @ + 1 ELSE @]

Sent(r, c) ==
    [r EXCEPT !.todo = @ \ {c},
              !.stale = IF send[c] = SendCap THEN @ \cup {c} ELSE @]

\* The hub takes a message and copies h.clients.
Broadcast(c) ==
    /\ Serving /\ life[c] = "shouting"
    /\ life' = [life EXCEPT ![c] = "reading"]
    /\ run' = [pc |-> "cast", todo |-> clients, stale |-> {}]
    /\ UNCHANGED <<clients, members, inRoom, send, closedCh, writing, done,
                   caster, shouts, panic>>

BroadcastSend ==
    /\ run.pc = "cast"
    /\ \E c \in run.todo : SendTo(c) /\ run' = Sent(run, c)
    /\ UNCHANGED <<life, clients, members, inRoom, closedCh, writing, done,
                   caster, shouts>>

BroadcastStale ==
    /\ run.pc = "cast" /\ run.todo = {}
    /\ \/ /\ \E c \in run.stale :
                RemoveClient(c) /\ run' = [run EXCEPT !.stale = @ \ {c}]
       \/ /\ run.stale = {} /\ run' = NoCast
          /\ UNCHANGED <<clients, members, inRoom, closedCh, panic>>
    /\ UNCHANGED <<life, send, writing, done, caster, shouts>>

\* BroadcastToRoom copies the members under RLock.
BroadcastToRoom(b) ==
    /\ caster[b].pc = "idle"
    /\ caster' = [caster EXCEPT ![b] = [pc |-> "cast", todo |-> members, stale |-> {}]]
    /\ UNCHANGED <<life, clients, members, inRoom, send, closedCh, writing,
                   done, run, shouts, panic>>

RoomSend(b) ==
    /\ caster[b].pc = "cast"
    /\ \E c \in caster[b].todo :
          SendTo(c) /\ caster' = [caster EXCEPT ![b] = Sent(@, c)]
    /\ UNCHANGED <<life, clients, members, inRoom, closedCh, writing, done,
                   run, shouts>>

RoomStale(b) ==
    /\ caster[b].pc = "cast" /\ caster[b].todo = {}
    /\ \/ /\ \E c \in caster[b].stale :
                /\ RemoveClient(c)
                /\ caster' = [caster EXCEPT ![b].stale = @ \ {c}]
       \/ /\ caster[b].stale = {}
          /\ caster' = [caster EXCEPT ![b].pc = "done"]
          /\ UNCHANGED <<clients, members, inRoom, closedCh, panic>>
    /\ UNCHANGED <<life, send, writing, done, run, shouts>>

-----------------------------------------------------------------------------
(* Shutdown                                                                *)

Shutdown ==
    /\ ~done /\ done' = TRUE
    /\ UNCHANGED <<life, clients, members, inRoom, send, closedCh, writing,
                   run, caster, shouts, panic>>

\* Run sees done: closeAllClients, and the loop ends.
CloseAllClients ==
    /\ Serving /\ done
    /\ run' = [run EXCEPT !.pc = "stopped"]
    /\ panic' = IF clients \cap closedCh # {} THEN "close" ELSE "none"
    /\ closedCh' = closedCh \cup clients
    /\ clients' = {}
    /\ members' = {}
    /\ UNCHANGED <<life, inRoom, send, writing, done, caster, shouts>>

HubLoop ==
    \/ \E c \in Clients : Register(c) \/ Unregister(c) \/ Broadcast(c)
    \/ BroadcastSend \/ BroadcastStale
    \/ CloseAllClients

HubNext ==
    /\ panic = "none"
    /\ \/ HubLoop \/ Shutdown
       \/ \E c \in Clients :
             \/ ServeWs(c) \/ ReadMessage(c) \/ ReadEnds(c)
             \/ WriteMessage(c) \/ WriteEnds(c)
             \/ JoinRoom(c) \/ LeaveRoom(c)
       \/ \E b \in Casters : BroadcastToRoom(b) \/ RoomSend(b) \/ RoomStale(b)

HubSpec == HubInit /\ [][HubNext]_hubVars

-----------------------------------------------------------------------------
Casts == [pc : {"idle", "cast", "done", "stopped"},
          todo : SUBSET Clients, stale : SUBSET Clients]

HubTypeOK ==
    /\ life \in [Clients -> {"new", "registering", "reading", "shouting",
                              "leaving", "gone"}]
    /\ clients \in SUBSET Clients /\ members \in SUBSET Clients
    /\ inRoom \in [Clients -> {"out", "in", "nil"}]
    /\ send \in [Clients -> 0..SendCap]
    /\ closedCh \in SUBSET Clients /\ writing \in SUBSET Clients
    /\ run \in Casts /\ caster \in [Casters -> Casts]
    /\ shouts \in [Clients -> 0..MaxShout]
    /\ done \in BOOLEAN /\ panic \in Panics

\* "graceful Shutdown, concurrency-safe broadcast" (websocket/doc.go) and JoinRoom
\* "Safe to call after the client is registered." (hub.go): no interleaving of the
\* hub's operations ends the process.
NoPanic == panic = "none"

\* A send channel is closed once, whatever the order in which unregister, the
\* hub's broadcast, room broadcasts from other goroutines and Shutdown come to
\* remove its client: the one close(client.send) that is safe in every race.
NoDoubleClose == panic # "close"

\* A room holds no client whose channel has been closed, so that a later
\* BroadcastToRoom does not send to it.
RoomsHoldOpenClients == panic = "none" => members \cap closedCh = {}
=============================================================================
