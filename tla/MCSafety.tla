------------------------------ MODULE MCSafety ------------------------------
(***************************************************************************)
(* Paxos and the WebSocket hub, of which only safety is checked, in one    *)
(* run.  They share nothing: focus says which of them moves, the other     *)
(* stays in its initial state.                                             *)
(***************************************************************************)
EXTENDS MCPaxos, Hub

VARIABLE focus

SafetyInit ==
    /\ focus \in {"paxos", "hub"}
    /\ Init /\ HubInit

SafetyNext ==
    /\ UNCHANGED focus
    /\ \/ focus = "paxos" /\ Next /\ UNCHANGED hubVars
       \/ focus = "hub" /\ HubNext /\ UNCHANGED vars

SafetySpec == SafetyInit /\ [][SafetyNext]_<<vars, hubVars, focus>>

\* The acceptors, calls, learner and logs (paxos.go) and the hub's maps, rooms and
\* channels (hub.go) keep their shape: the learner counts no further than the
\* first majority, and no send channel holds more than its capacity.
TypesOK == TypeOK /\ HubTypeOK
=============================================================================
