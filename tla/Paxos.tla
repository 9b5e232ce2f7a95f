------------------------------- MODULE Paxos --------------------------------
(***************************************************************************)
(* pkg/algorithms/consensus/paxos/paxos.go: acceptors with one promise and *)
(* one accepted pair per slot, proposers that number their proposals with  *)
(* a counter of their own, a learner, and MultiPaxos on top.               *)
(*                                                                         *)
(* A call is one goroutine in MultiPaxos.ProposeSlot.  It asks the         *)
(* acceptors 0..NumPeers-1 in turn, so every RPC of it is one step; calls  *)
(* of different proposers, and of one proposer, interleave.  An RPC may be *)
(* lost on the way out or on the way back: the transport then says false.  *)
(* NotifyLearn has no answer, so a report that is lost goes unnoticed; a   *)
(* transport that is no LearnTransport loses them all.                     *)
(***************************************************************************)
EXTENDS Integers, FiniteSets

CONSTANTS
    NumPeers,   \* numPeers
    Proposers,  \* the MultiPaxos nodes, each with its Proposer
    Calls,      \* goroutines that call ProposeSlot
    Owner,      \* Owner[c]: the node whose ProposeSlot c calls
    Values,     \* the values callers propose, never nil
    NoValue,    \* Go's nil
    Attempts,   \* Attempts[p]: bound on the proposals of p
    MaxID,      \* bound on proposal numbers: the largest of Attempts
    MaxSlot,    \* bound on slots
    Wired       \* the nodes made with the learner that NotifyLearn reports to;
                \* the others have one of their own, which hears of nothing

ASSUME PaxosAssumption ==
    /\ NumPeers \in Nat \ {0}
    /\ Owner \in [Calls -> Proposers]
    /\ Attempts \in [Proposers -> 0..MaxID]
    /\ NoValue \notin Values
    /\ MaxID \in Nat /\ MaxSlot \in Nat
    /\ Wired \subseteq Proposers

Acceptors == 0..(NumPeers - 1)
Slots == 0..MaxSlot
IDs == 1..MaxID

VARIABLES
    acceptor,    \* acceptor[a][s]: slotState: lastPromisedID, acceptedID, value
    proposalID,  \* proposalID[p]
    call,        \* call[c]: the locals of propose
    counts,      \* Learner.counts
    learned,     \* Learner.learned, NoValue when absent
    nextSlot,    \* nextSlot[p]
    Log,         \* Log[p]: MultiPaxos.Log, NoValue when absent
    votes        \* history: every <<a, s, id, v>> an acceptor ever accepted

vars == <<acceptor, proposalID, call, counts, learned, nextSlot, Log, votes>>

Nobody == [pc |-> "idle", slot |-> 0, value |-> NoValue, id |-> 0, i |-> 0,
           got |-> 0, highID |-> -1, highVal |-> NoValue, val |-> NoValue]

\* More than half of the peers: the tests on promises, accepts and counts.
Majority(k) == k > NumPeers \div 2

Init ==
    /\ acceptor = [a \in Acceptors |-> [s \in Slots |->
                      [promised |-> -1, id |-> -1, val |-> NoValue]]]
    /\ proposalID = [p \in Proposers |-> 0]
    /\ call = [c \in Calls |-> Nobody]
    /\ counts = [s \in Slots |-> [b \in IDs |-> [v \in Values |-> 0]]]
    /\ learned = [s \in Slots |-> NoValue]
    /\ nextSlot = [p \in Proposers |-> 0]
    /\ Log = [p \in Proposers |-> [s \in Slots |-> NoValue]]
    /\ votes = {}

-----------------------------------------------------------------------------
\* ProposeSlot reads nextSlot.
ProposeSlot(c, v) ==
    /\ call[c].pc = "idle"
    /\ nextSlot[Owner[c]] \in Slots
    /\ call' = [call EXCEPT ![c] =
                  [Nobody EXCEPT !.pc = "number", !.value = v,
                                 !.slot = nextSlot[Owner[c]]]]
    /\ UNCHANGED <<acceptor, proposalID, counts, learned, nextSlot, Log, votes>>

\* propose takes its number, under the proposer's mutex.
TakeNumber(c) ==
    LET p == Owner[c] IN
    /\ call[c].pc = "number"
    /\ proposalID[p] < Attempts[p]
    /\ proposalID' = [proposalID EXCEPT ![p] = @ + 1]
    /\ call' = [call EXCEPT ![c].pc = "prepare", ![c].id = proposalID[p] + 1]
    /\ UNCHANGED <<acceptor, counts, learned, nextSlot, Log, votes>>

\* A ReceivePrepare that promises the same number twice.
WillPromiseAgain(a, s, b) == b >= acceptor[a][s].promised

\* ReceivePrepare's test.
WillPromise(a, s, b) == b > acceptor[a][s].promised

\* What the proposer makes of a promise it hears: it keeps the accepted pair
\* with the highest number.
HearPromise(r, acc) ==
    LET higher == acc.id > r.highID IN
    [r EXCEPT !.got = @ + 1,
              !.i = @ + 1,
              !.highID = IF higher THEN acc.id ELSE @,
              !.highVal = IF higher THEN acc.val ELSE @]

\* Phase 1 with acceptor i: the request is lost or refused, or the acceptor
\* promises and its answer is heard or lost.
Prepare(c) ==
    LET r == call[c]
        a == r.i
    IN
    /\ r.pc = "prepare" /\ a \in Acceptors
    /\ \/ /\ call' = [call EXCEPT ![c].i = a + 1]
          /\ UNCHANGED acceptor
       \/ /\ WillPromise(a, r.slot, r.id)
          /\ acceptor' = [acceptor EXCEPT ![a][r.slot].promised = r.id]
          /\ \/ call' = [call EXCEPT ![c] = HearPromise(r, acceptor[a][r.slot])]
             \/ call' = [call EXCEPT ![c].i = a + 1]
    /\ UNCHANGED <<proposalID, counts, learned, nextSlot, Log, votes>>

\* The end of phase 1: give up, or go on with the highest accepted value heard
\* and with the caller's own if there was none.
EndPrepare(c) ==
    LET r == call[c] IN
    /\ r.pc = "prepare" /\ r.i = NumPeers
    /\ call' = [call EXCEPT ![c] =
          IF Majority(r.got)
          THEN [r EXCEPT !.pc = "accept", !.i = 0, !.got = 0,
                         !.highID = -1, !.highVal = NoValue,
                         !.val = IF r.highVal # NoValue THEN r.highVal ELSE r.value]
          ELSE Nobody]
    /\ UNCHANGED <<acceptor, proposalID, counts, learned, nextSlot, Log, votes>>

\* An Observe that adds up the reports of all proposals.
ObserveAnyID(s, b, v) ==
    IF learned[s] # NoValue
    THEN UNCHANGED <<counts, learned>>
    ELSE /\ counts' = [counts EXCEPT ![s][1][v] = @ + 1]
         /\ learned' = [learned EXCEPT ![s] =
                          IF Majority(counts[s][1][v] + 1) THEN v ELSE @]

\* An Observe that goes on counting past the majority.
ObserveUnanimous(s, b, v) ==
    IF learned[s] # NoValue
    THEN UNCHANGED <<counts, learned>>
    ELSE /\ counts' = [counts EXCEPT ![s][b][v] = @ + 1]
         /\ learned' = [learned EXCEPT ![s] =
                          IF counts[s][b][v] + 1 = NumPeers THEN v ELSE @]

\* Learner.Observe: the first pair with a majority of reports is learned.
Observe(s, b, v) ==
    IF learned[s] # NoValue
    THEN UNCHANGED <<counts, learned>>
    ELSE /\ counts' = [counts EXCEPT ![s][b][v] = @ + 1]
         /\ learned' = [learned EXCEPT ![s] =
                          IF Majority(counts[s][b][v] + 1) THEN v ELSE @]

\* ReceiveAccept's test.
WillAccept(a, s, b) == b >= acceptor[a][s].promised

\* Phase 2 with acceptor i: lost or refused, or accepted; an acceptance the
\* proposer hears of is to be reported.
Accept(c) ==
    LET r == call[c]
        a == r.i
    IN
    /\ r.pc = "accept" /\ a \in Acceptors
    /\ \/ /\ call' = [call EXCEPT ![c].i = a + 1]
          /\ UNCHANGED <<acceptor, votes>>
       \/ /\ WillAccept(a, r.slot, r.id)
          /\ acceptor' = [acceptor EXCEPT ![a][r.slot] =
                            [promised |-> r.id, id |-> r.id, val |-> r.val]]
          /\ votes' = votes \cup {<<a, r.slot, r.id, r.val>>}
          /\ \/ call' = [call EXCEPT ![c] =
                           [r EXCEPT !.i = a + 1, !.got = @ + 1, !.pc = "notify"]]
             \/ call' = [call EXCEPT ![c].i = a + 1]
    /\ UNCHANGED <<proposalID, counts, learned, nextSlot, Log>>

\* lt.NotifyLearn: the report reaches the learner or is lost, or there is no
\* LearnTransport to make it; then the next acceptor.
NotifyLearn(c) ==
    LET r == call[c] IN
    /\ r.pc = "notify"
    /\ Observe(r.slot, r.id, r.val) \/ UNCHANGED <<counts, learned>>
    /\ call' = [call EXCEPT ![c].pc = "accept"]
    /\ UNCHANGED <<acceptor, proposalID, nextSlot, Log, votes>>

\* What ProposeSlot records: the value its learner has learned if there is one,
\* else the value it was called with, whatever went through phase 2.
Recorded(p, s, v) == IF p \in Wired /\ learned[s] # NoValue THEN learned[s] ELSE v

\* A ProposeSlot that takes half of the accepts for a majority.
EndAcceptByHalf(c) ==
    LET r == call[c]
        p == Owner[c]
    IN
    /\ r.pc = "accept" /\ r.i = NumPeers
    /\ call' = [call EXCEPT ![c] = Nobody]
    /\ IF r.got >= NumPeers \div 2
       THEN /\ Log' = [Log EXCEPT ![p][r.slot] = Recorded(p, r.slot, r.value)]
            /\ nextSlot' = [nextSlot EXCEPT ![p] = @ + 1]
       ELSE UNCHANGED <<Log, nextSlot>>
    /\ UNCHANGED <<acceptor, proposalID, counts, learned, votes>>

\* The end of phase 2, and of ProposeSlot: on a majority the value is recorded
\* and the next slot is next.
EndAccept(c) ==
    LET r == call[c]
        p == Owner[c]
    IN
    /\ r.pc = "accept" /\ r.i = NumPeers
    /\ call' = [call EXCEPT ![c] = Nobody]
    /\ IF Majority(r.got)
       THEN /\ Log' = [Log EXCEPT ![p][r.slot] = Recorded(p, r.slot, r.value)]
            /\ nextSlot' = [nextSlot EXCEPT ![p] = @ + 1]
       ELSE UNCHANGED <<Log, nextSlot>>
    /\ UNCHANGED <<acceptor, proposalID, counts, learned, votes>>

Next ==
    \E c \in Calls :
        \/ \E v \in Values : ProposeSlot(c, v)
        \/ TakeNumber(c) \/ Prepare(c) \/ EndPrepare(c)
        \/ Accept(c) \/ NotifyLearn(c) \/ EndAccept(c)

Spec == Init /\ [][Next]_vars

-----------------------------------------------------------------------------
SlotStates == [promised : IDs \cup {-1}, id : IDs \cup {-1},
               val : Values \cup {NoValue}]

\* The locals of a call.
CallStates ==
    [pc : {"idle", "number", "prepare", "accept", "notify"},
     slot : Slots, value : Values \cup {NoValue}, id : 0..MaxID, i : 0..NumPeers,
     got : 0..NumPeers, highID : IDs \cup {-1},
     highVal : Values \cup {NoValue}, val : Values \cup {NoValue}]

\* Types; the learner counts no further than the first majority.
TypeOK ==
    /\ acceptor \in [Acceptors -> [Slots -> SlotStates]]
    /\ proposalID \in [Proposers -> 0..MaxID]
    /\ call \in [Calls -> CallStates]
    /\ counts \in [Slots -> [IDs -> [Values -> 0..(NumPeers \div 2 + 1)]]]
    /\ learned \in [Slots -> Values \cup {NoValue}]
    /\ nextSlot \in [Proposers -> Nat]
    /\ Log \in [Proposers -> [Slots -> Values \cup {NoValue}]]
    /\ votes \subseteq Acceptors \X Slots \X IDs \X Values

\* v has been accepted for slot s by a majority, in one proposal.
Voters(s, b, v) == {a \in Acceptors : <<a, s, b, v>> \in votes}
Chosen(s, v) == \E b \in IDs : Majority(Cardinality(Voters(s, b, v)))

\* At most one value is ever chosen for a slot, although proposers count their
\* numbers independently and two of them use the same number: an acceptor
\* promises a number once, so only one of them reaches phase 2 with it.
Agreement ==
    \A s \in Slots, v, w \in Values : Chosen(s, v) /\ Chosen(s, w) => v = w

\* The learner counts reports, not acceptors; still it only learns a value
\* that a majority of acceptors accepted in one proposal.
LearnedIsChosen ==
    \A s \in Slots : learned[s] # NoValue => Chosen(s, learned[s])

\* A node fills a slot of its log and goes on to the next only when a majority
\* has accepted one value for the slot, over lost requests, answers and reports.
LoggedSlotDecided ==
    \A p \in Proposers, s \in Slots :
        Log[p][s] # NoValue => \E v \in Values : Chosen(s, v)

\* "Log maps slot -> chosen value." (the comment on MultiPaxos.Log): what a node
\* has in its log for a slot is the value that was chosen for it.
LogIsChosen ==
    \A p \in Proposers, s \in Slots :
        Log[p][s] # NoValue => Chosen(s, Log[p][s])
=============================================================================
