---------------------------- MODULE PaxosProofs -----------------------------
(***************************************************************************)
(* Paxos for any number of acceptors, proposers, concurrent calls, values  *)
(* and proposals: at most one value is chosen per slot, although proposers *)
(* number their proposals independently and two may use the same number,   *)
(* what the learner says has been chosen, and a slot a log has is decided. *)
(***************************************************************************)
EXTENDS Paxos, FiniteSetTheorems, TLAPS

Active(c) == call[c].pc \in {"prepare", "accept", "notify"}
Phase2(c) == call[c].pc \in {"accept", "notify"}

-----------------------------------------------------------------------------
(* Types                                                                   *)

\* The locals of a call have values once they are used, and a call has heard
\* no more answers than it has asked for.
LocalsOK ==
    \A c \in Calls :
        /\ call[c].got <= call[c].i
        /\ call[c].pc # "idle" => call[c].value \in Values
        /\ Active(c) => call[c].id \in IDs
        /\ Phase2(c) => call[c].val \in Values

\* The learner stops counting for a slot at the first majority.
CountsLow ==
    \A s \in Slots, b \in IDs, v \in Values :
        learned[s] = NoValue => ~Majority(counts[s][b][v])

TypeInv == TypeOK /\ LocalsOK /\ CountsLow

LEMMA PeersType ==
    /\ NumPeers \in Nat \ {0} /\ NumPeers \div 2 \in Nat
    /\ MaxID \in Nat /\ MaxSlot \in Nat
    /\ 2 * (NumPeers \div 2) <= NumPeers /\ NumPeers < 2 * (NumPeers \div 2 + 1)
BY PaxosAssumption

LEMMA NobodyType == Nobody \in CallStates
BY PeersType DEF Nobody, CallStates, Slots

LEMMA InitTypeInv == Init => TypeInv
<1> SUFFICES ASSUME Init PROVE TypeInv
    OBVIOUS
<1>1. acceptor \in [Acceptors -> [Slots -> SlotStates]]
    BY DEF Init, SlotStates
<1>2. call \in [Calls -> CallStates]
    BY NobodyType DEF Init
<1>3. counts \in [Slots -> [IDs -> [Values -> 0..(NumPeers \div 2 + 1)]]]
    BY PeersType DEF Init
<1>4. TypeOK
    BY <1>1, <1>2, <1>3, PeersType DEF Init, TypeOK
<1>5. LocalsOK
    BY PeersType DEF Init, LocalsOK, Nobody, Active, Phase2
<1>6. CountsLow
    BY PeersType DEF Init, CountsLow, Majority
<1> QED BY <1>4, <1>5, <1>6 DEF TypeInv

\* A step of call c that changes nothing but its locals.
LEMMA LocalStepTypes ==
    ASSUME TypeInv, NEW c \in Calls, NEW r \in CallStates,
           call' = [call EXCEPT ![c] = r],
           r.got <= r.i,
           r.pc # "idle" => r.value \in Values,
           r.pc \in {"prepare", "accept", "notify"} => r.id \in IDs,
           r.pc \in {"accept", "notify"} => r.val \in Values
    PROVE  call' \in [Calls -> CallStates] /\ LocalsOK'
BY DEF TypeInv, TypeOK, LocalsOK, Active, Phase2

\* A call goes to its next acceptor, and may have heard one more answer.
LEMMA AskNext ==
    ASSUME TypeInv, NEW c \in Calls, call[c].i \in Acceptors,
           NEW r \in CallStates, call' = [call EXCEPT ![c] = r],
           r.i = call[c].i + 1, r.got \in {call[c].got, call[c].got + 1},
           r.value = call[c].value, r.id = call[c].id, r.val = call[c].val,
           Active(c), r.pc \in {"prepare", "accept", "notify"},
           call[c].pc = "prepare" => r.pc = "prepare"
    PROVE  call' \in [Calls -> CallStates] /\ LocalsOK'
<1>1. call[c] \in CallStates /\ call[c].got <= call[c].i
    BY DEF TypeInv, TypeOK, LocalsOK
<1>2. r.got <= r.i
    BY <1>1, PeersType DEF CallStates, Acceptors
<1>3. r.value \in Values /\ r.id \in IDs
    BY DEF TypeInv, LocalsOK, Active
<1>4. r.pc \in {"accept", "notify"} => r.val \in Values
    BY DEF TypeInv, LocalsOK, Active, Phase2
<1> QED BY <1>2, <1>3, <1>4, LocalStepTypes

LEMMA ProposeSlotTypes ==
    ASSUME TypeInv, NEW c \in Calls, NEW v \in Values, ProposeSlot(c, v)
    PROVE  TypeInv'
<1> USE DEF ProposeSlot
<1> DEFINE r == [Nobody EXCEPT !.pc = "number", !.value = v, !.slot = nextSlot[Owner[c]]]
<1>1. r \in CallStates
    BY NobodyType DEF CallStates
<1>2. r.got <= r.i /\ r.value = v /\ r.pc = "number"
    BY DEF Nobody
<1>3. call' = [call EXCEPT ![c] = r]
    OBVIOUS
<1> HIDE DEF r
<1>4. call' \in [Calls -> CallStates] /\ LocalsOK'
    BY <1>1, <1>2, <1>3, LocalStepTypes
<1> QED BY <1>4 DEF TypeInv, TypeOK, CountsLow

LEMMA TakeNumberTypes ==
    ASSUME TypeInv, NEW c \in Calls, TakeNumber(c)
    PROVE  TypeInv'
<1> USE DEF TakeNumber
<1> DEFINE p == Owner[c]
           r == [call[c] EXCEPT !.pc = "prepare", !.id = proposalID[p] + 1]
<1>1. p \in Proposers /\ proposalID[p] \in 0..MaxID /\ Attempts[p] \in 0..MaxID
    BY PaxosAssumption DEF TypeInv, TypeOK
<1>2. proposalID[p] + 1 \in IDs
    BY <1>1, PeersType DEF IDs
<1>3. call[c] \in CallStates /\ call[c].got <= call[c].i /\ call[c].value \in Values
    BY DEF TypeInv, TypeOK, LocalsOK
<1>4. /\ r \in CallStates /\ r.pc = "prepare" /\ r.id = proposalID[p] + 1
      /\ r.got <= r.i /\ r.value \in Values
    <2>1. proposalID[p] + 1 \in 0..MaxID
        BY <1>2, PeersType DEF IDs
    <2> QED BY <1>3, <2>1 DEF CallStates
<1>5. call' = [call EXCEPT ![c] = r]
    BY <1>3 DEF TypeInv, TypeOK, CallStates
<1> HIDE DEF r
<1>6. call' \in [Calls -> CallStates] /\ LocalsOK'
    BY <1>2, <1>4, <1>5, LocalStepTypes
<1>7. proposalID' \in [Proposers -> 0..MaxID]
    BY <1>1, <1>2, PeersType DEF IDs, TypeInv, TypeOK
<1> QED BY <1>6, <1>7 DEF TypeInv, TypeOK, CountsLow

\* A promise that is heard leaves a call with good locals.
LEMMA HearPromiseType ==
    ASSUME NEW r \in CallStates, r.i \in Acceptors, r.got <= r.i, NEW acc \in SlotStates
    PROVE  LET h == HearPromise(r, acc) IN
           /\ h \in CallStates /\ h.i = r.i + 1 /\ h.got = r.got + 1
           /\ h.pc = r.pc /\ h.slot = r.slot /\ h.value = r.value /\ h.id = r.id
           /\ h.val = r.val
           /\ h.highID = IF acc.id > r.highID THEN acc.id ELSE r.highID
           /\ h.highVal = IF acc.id > r.highID THEN acc.val ELSE r.highVal
<1>1. r.i + 1 \in 0..NumPeers /\ r.got + 1 \in 0..NumPeers
    BY PeersType DEF Acceptors, CallStates
<1> DEFINE hID == IF acc.id > r.highID THEN acc.id ELSE r.highID
           hVal == IF acc.id > r.highID THEN acc.val ELSE r.highVal
<1>2. hID \in IDs \cup {-1} /\ hVal \in Values \cup {NoValue}
    BY DEF CallStates, SlotStates
<1>3. HearPromise(r, acc) = [r EXCEPT !.got = r.got + 1, !.i = r.i + 1, !.highID = hID,
                                      !.highVal = hVal]
    BY DEF HearPromise
<1> HIDE DEF hID, hVal
<1>4. HearPromise(r, acc) \in CallStates
    BY <1>1, <1>2, <1>3 DEF CallStates
<1>5. /\ HearPromise(r, acc).i = r.i + 1 /\ HearPromise(r, acc).got = r.got + 1
      /\ HearPromise(r, acc).highID = hID /\ HearPromise(r, acc).highVal = hVal
    BY <1>3 DEF CallStates
<1>6. /\ HearPromise(r, acc).pc = r.pc /\ HearPromise(r, acc).slot = r.slot
      /\ HearPromise(r, acc).value = r.value /\ HearPromise(r, acc).id = r.id
      /\ HearPromise(r, acc).val = r.val
    BY <1>3 DEF CallStates
<1> QED BY <1>4, <1>5, <1>6 DEF hID, hVal

\* A call that asks one acceptor and hears nothing.
LEMMA NotHeard ==
    ASSUME TypeInv, NEW c \in Calls, Active(c), call[c].i \in Acceptors,
           call' = [call EXCEPT ![c].i = call[c].i + 1]
    PROVE  /\ call' \in [Calls -> CallStates] /\ LocalsOK'
           /\ call'[c] = [call[c] EXCEPT !.i = call[c].i + 1]
           /\ \A d \in Calls \ {c} : call'[d] = call[d]
<1> DEFINE r == [call[c] EXCEPT !.i = call[c].i + 1]
<1>1. call[c] \in CallStates
    BY DEF TypeInv, TypeOK
<1>2. call[c].i + 1 \in 0..NumPeers
    BY PeersType DEF Acceptors
<1>3. /\ r \in CallStates /\ r.i = call[c].i + 1 /\ r.got = call[c].got
      /\ r.pc = call[c].pc /\ r.value = call[c].value /\ r.id = call[c].id
      /\ r.val = call[c].val
    BY <1>1, <1>2 DEF CallStates
<1>4. call' = [call EXCEPT ![c] = r]
    BY DEF TypeInv, TypeOK
<1> HIDE DEF r
<1>5. call' \in [Calls -> CallStates] /\ LocalsOK'
    BY <1>3, <1>4, AskNext DEF Active
<1> QED BY <1>4, <1>5 DEF r, TypeInv, TypeOK

\* An acceptor promises b: the one slot's record changes, in one field.
LEMMA PromiseStep ==
    ASSUME TypeInv, NEW a \in Acceptors, NEW s \in Slots, NEW b \in IDs,
           acceptor' = [acceptor EXCEPT ![a][s].promised = b]
    PROVE  /\ acceptor' \in [Acceptors -> [Slots -> SlotStates]]
           /\ \A x \in Acceptors, t \in Slots :
                 /\ ~(x = a /\ t = s) => acceptor'[x][t] = acceptor[x][t]
                 /\ acceptor'[x][t].id = acceptor[x][t].id
                 /\ acceptor'[x][t].val = acceptor[x][t].val
           /\ acceptor'[a][s].promised = b
<1> DEFINE q == [acceptor[a][s] EXCEPT !.promised = b]
<1>1. acceptor \in [Acceptors -> [Slots -> SlotStates]] /\ acceptor[a][s] \in SlotStates
    BY DEF TypeInv, TypeOK
<1>2. /\ q \in SlotStates /\ q.promised = b
      /\ q.id = acceptor[a][s].id /\ q.val = acceptor[a][s].val
    BY <1>1 DEF SlotStates
<1>3. acceptor' = [acceptor EXCEPT ![a] = [acceptor[a] EXCEPT ![s] = q]]
    BY <1>1
<1> HIDE DEF q
<1> QED BY <1>1, <1>2, <1>3

\* An acceptor accepts: the one slot's record changes.
LEMMA AcceptStep ==
    ASSUME TypeInv, NEW a \in Acceptors, NEW s \in Slots, NEW q \in SlotStates,
           acceptor' = [acceptor EXCEPT ![a][s] = q]
    PROVE  /\ acceptor' \in [Acceptors -> [Slots -> SlotStates]]
           /\ \A x \in Acceptors, t \in Slots :
                 ~(x = a /\ t = s) => acceptor'[x][t] = acceptor[x][t]
           /\ acceptor'[a][s] = q
<1>1. acceptor \in [Acceptors -> [Slots -> SlotStates]]
    BY DEF TypeInv, TypeOK
<1>2. acceptor' = [acceptor EXCEPT ![a] = [acceptor[a] EXCEPT ![s] = q]]
    BY <1>1
<1> QED BY <1>1, <1>2

LEMMA PrepareTypes ==
    ASSUME TypeInv, NEW c \in Calls, Prepare(c)
    PROVE  TypeInv'
<1> DEFINE r == call[c]
           a == call[c].i
<1>1. r.pc = "prepare" /\ a \in Acceptors /\ Active(c)
    BY DEF Prepare, Active
<1>2. r \in CallStates /\ r.slot \in Slots /\ r.id \in IDs /\ r.got <= r.i
    BY <1>1 DEF TypeInv, TypeOK, LocalsOK, CallStates
<1>3. call' \in [Calls -> CallStates] /\ LocalsOK'
    <2>1. CASE call' = [call EXCEPT ![c].i = a + 1]
        BY <1>1, <2>1, NotHeard
    <2>2. CASE call' = [call EXCEPT ![c] = HearPromise(r, acceptor[a][r.slot])]
        <3>1. acceptor[a][r.slot] \in SlotStates
            BY <1>1, <1>2 DEF TypeInv, TypeOK
        <3> QED BY <1>1, <1>2, <2>2, <3>1, HearPromiseType, AskNext
    <2> QED BY <2>1, <2>2 DEF Prepare
<1>4. acceptor' \in [Acceptors -> [Slots -> SlotStates]]
    <2>1. CASE UNCHANGED acceptor
        BY <2>1 DEF TypeInv, TypeOK
    <2>2. CASE acceptor' = [acceptor EXCEPT ![a][r.slot].promised = r.id]
        BY <1>1, <1>2, <2>2, PromiseStep
    <2> QED BY <2>1, <2>2 DEF Prepare
<1> QED BY <1>3, <1>4 DEF Prepare, TypeInv, TypeOK, CountsLow

LEMMA EndPrepareTypes ==
    ASSUME TypeInv, NEW c \in Calls, EndPrepare(c)
    PROVE  TypeInv'
<1> DEFINE r == call[c]
           v == IF r.highVal # NoValue THEN r.highVal ELSE r.value
           r2 == [r EXCEPT !.pc = "accept", !.i = 0, !.got = 0,
                           !.highID = -1, !.highVal = NoValue, !.val = v]
<1>1. r \in CallStates /\ r.value \in Values /\ r.id \in IDs
    BY DEF EndPrepare, TypeInv, TypeOK, LocalsOK, Active
<1>2. v \in Values
    BY <1>1 DEF CallStates
<1>3. /\ r2 \in CallStates /\ r2.got <= r2.i /\ r2.value \in Values
      /\ r2.id \in IDs /\ r2.val \in Values
    <2> HIDE DEF v
    <2>1. r2 \in CallStates
        <3> DEFINE k == 0
                   m == -1
        <3>1. k \in 0..NumPeers /\ m \in IDs \cup {-1}
            BY PeersType
        <3>2. r2 = [r EXCEPT !.pc = "accept", !.i = k, !.got = k,
                             !.highID = m, !.highVal = NoValue, !.val = v]
            OBVIOUS
        <3> HIDE DEF k, m, r2
        <3> QED BY <1>1, <1>2, <3>1, <3>2 DEF CallStates
    <2>2. r2.got = 0 /\ r2.i = 0 /\ r2.val = v
        BY <1>1 DEF CallStates
    <2>3. r2.value = r.value /\ r2.id = r.id
        BY <1>1 DEF CallStates
    <2> QED BY <1>1, <1>2, <2>1, <2>2, <2>3
<1>4. call' = [call EXCEPT ![c] = r2] \/ call' = [call EXCEPT ![c] = Nobody]
    BY DEF EndPrepare
<1> HIDE DEF r2
<1>5. call' \in [Calls -> CallStates] /\ LocalsOK'
    <2>1. CASE call' = [call EXCEPT ![c] = r2]
        BY <1>3, <2>1, LocalStepTypes
    <2>2. CASE call' = [call EXCEPT ![c] = Nobody]
        <3>1. Nobody.pc = "idle" /\ Nobody.got <= Nobody.i
            BY DEF Nobody
        <3> QED BY <2>2, <3>1, NobodyType, LocalStepTypes
    <2> QED BY <1>4, <2>1, <2>2
<1> QED BY <1>5 DEF EndPrepare, TypeInv, TypeOK, CountsLow

LEMMA AcceptTypes ==
    ASSUME TypeInv, NEW c \in Calls, Accept(c)
    PROVE  TypeInv'
<1> DEFINE r == call[c]
           a == call[c].i
           r2 == [r EXCEPT !.i = a + 1, !.got = @ + 1, !.pc = "notify"]
<1>1. r.pc = "accept" /\ a \in Acceptors /\ Active(c)
    BY DEF Accept, Active
<1>2. /\ r \in CallStates /\ r.slot \in Slots /\ r.id \in IDs /\ r.got <= r.i
      /\ r.val \in Values
    BY <1>1 DEF TypeInv, TypeOK, LocalsOK, CallStates, Phase2
<1>3. call' \in [Calls -> CallStates] /\ LocalsOK'
    <2>1. CASE call' = [call EXCEPT ![c].i = a + 1]
        BY <1>1, <2>1, NotHeard
    <2>2. CASE call' = [call EXCEPT ![c] = r2]
        <3>1. a + 1 \in 0..NumPeers /\ r.got + 1 \in 0..NumPeers
            BY <1>1, <1>2, PeersType DEF Acceptors, CallStates
        <3>2. /\ r2 \in CallStates /\ r2.i = a + 1 /\ r2.got = r.got + 1
              /\ r2.pc = "notify" /\ r2.value = r.value /\ r2.id = r.id
              /\ r2.val = r.val
            BY <1>1, <1>2, <3>1 DEF CallStates
        <3> HIDE DEF r2
        <3> QED BY <1>1, <2>2, <3>2, AskNext
    <2> QED BY <2>1, <2>2 DEF Accept
<1>4. acceptor' \in [Acceptors -> [Slots -> SlotStates]]
    <2>1. CASE UNCHANGED acceptor
        BY <2>1 DEF TypeInv, TypeOK
    <2> DEFINE q == [promised |-> r.id, id |-> r.id, val |-> r.val]
    <2>2. CASE acceptor' = [acceptor EXCEPT ![a][r.slot] = q]
        <3>1. q \in SlotStates
            BY <1>2 DEF SlotStates
        <3> HIDE DEF q
        <3> QED BY <1>1, <1>2, <2>2, <3>1, AcceptStep
    <2> QED BY <2>1, <2>2 DEF Accept
<1>5. votes' \subseteq Acceptors \X Slots \X IDs \X Values
    BY <1>1, <1>2 DEF Accept, TypeInv, TypeOK
<1> QED BY <1>3, <1>4, <1>5 DEF Accept, TypeInv, TypeOK, CountsLow

LEMMA NotifyLearnTypes ==
    ASSUME TypeInv, NEW c \in Calls, NotifyLearn(c)
    PROVE  TypeInv'
<1> DEFINE r == call[c]
           s == call[c].slot
           b == call[c].id
           v == call[c].val
           r2 == [r EXCEPT !.pc = "accept"]
<1>1. /\ r \in CallStates /\ s \in Slots /\ b \in IDs /\ v \in Values
      /\ r.got <= r.i /\ r.value \in Values
    BY DEF NotifyLearn, TypeInv, TypeOK, LocalsOK, CallStates, Phase2, Active
<1>2. call' \in [Calls -> CallStates] /\ LocalsOK'
    <2>1. /\ r2 \in CallStates /\ r2.got = r.got /\ r2.i = r.i /\ r2.pc = "accept"
          /\ r2.value = r.value /\ r2.id = r.id /\ r2.val = r.val
        BY <1>1 DEF CallStates
    <2>2. call' = [call EXCEPT ![c] = r2]
        BY DEF NotifyLearn, TypeInv, TypeOK
    <2> HIDE DEF r2
    <2> QED BY <1>1, <2>1, <2>2, LocalStepTypes
<1>3. CASE UNCHANGED <<counts, learned>>
    BY <1>2, <1>3 DEF NotifyLearn, TypeInv, TypeOK, CountsLow
<1>4. CASE learned[s] = NoValue /\ Observe(s, b, v)
    <2>1. counts[s][b][v] \in 0..(NumPeers \div 2)
        BY <1>1, <1>4, PeersType DEF TypeInv, TypeOK, CountsLow, Majority
    <2>2. /\ counts' = [counts EXCEPT ![s][b][v] = counts[s][b][v] + 1]
          /\ learned' = [learned EXCEPT ![s] =
                           IF Majority(counts[s][b][v] + 1) THEN v ELSE learned[s]]
        BY <1>1, <1>4 DEF Observe, TypeInv, TypeOK
    <2>3. counts' \in [Slots -> [IDs -> [Values -> 0..(NumPeers \div 2 + 1)]]]
        BY <1>1, <2>1, <2>2, PeersType DEF TypeInv, TypeOK
    <2>4. learned' \in [Slots -> Values \cup {NoValue}]
        BY <1>1, <2>2 DEF TypeInv, TypeOK
    <2>5. CountsLow'
        <3> SUFFICES ASSUME NEW t \in Slots, NEW d \in IDs, NEW w \in Values,
                            learned'[t] = NoValue
                     PROVE  ~Majority(counts'[t][d][w])
            BY DEF CountsLow
        <3>1. learned[t] = NoValue
            BY <1>1, <1>4, <2>2 DEF TypeInv, TypeOK
        <3>2. CASE t = s /\ d = b /\ w = v
            BY <1>1, <2>2, <3>2, PaxosAssumption DEF TypeInv, TypeOK
        <3>3. CASE ~(t = s /\ d = b /\ w = v)
            BY <1>1, <2>2, <3>1, <3>3 DEF TypeInv, TypeOK, CountsLow
        <3> QED BY <3>2, <3>3
    <2> QED BY <1>2, <2>3, <2>4, <2>5 DEF NotifyLearn, TypeInv, TypeOK
<1> QED BY <1>3, <1>4 DEF NotifyLearn, Observe

LEMMA EndAcceptTypes ==
    ASSUME TypeInv, NEW c \in Calls, EndAccept(c)
    PROVE  TypeInv'
<1>1. Nobody.pc = "idle" /\ Nobody.got <= Nobody.i
    BY DEF Nobody
<1>2. call' \in [Calls -> CallStates] /\ LocalsOK'
    BY <1>1, NobodyType, LocalStepTypes DEF EndAccept
<1>3. /\ call[c].slot \in Slots /\ Owner[c] \in Proposers
      /\ Recorded(Owner[c], call[c].slot, call[c].value) \in Values \cup {NoValue}
    BY PaxosAssumption DEF TypeInv, TypeOK, CallStates, Recorded
<1>4. /\ Log' \in [Proposers -> [Slots -> Values \cup {NoValue}]]
      /\ nextSlot' \in [Proposers -> Nat]
    <2>1. CASE UNCHANGED <<Log, nextSlot>>
        BY <2>1 DEF TypeInv, TypeOK
    <2> DEFINE v == Recorded(Owner[c], call[c].slot, call[c].value)
    <2>2. CASE /\ Log' = [Log EXCEPT ![Owner[c]][call[c].slot] = v]
               /\ nextSlot' = [nextSlot EXCEPT ![Owner[c]] = @ + 1]
        <3> HIDE DEF v
        <3>1. Log' = [Log EXCEPT ![Owner[c]] = [Log[Owner[c]] EXCEPT ![call[c].slot] = v]]
            BY <1>3, <2>2 DEF TypeInv, TypeOK
        <3>2. v \in Values \cup {NoValue}
            BY <1>3 DEF v
        <3>3. Log' \in [Proposers -> [Slots -> Values \cup {NoValue}]]
            BY <1>3, <3>1, <3>2 DEF TypeInv, TypeOK
        <3>4. nextSlot' \in [Proposers -> Nat]
            BY <1>3, <2>2 DEF TypeInv, TypeOK
        <3> QED BY <3>3, <3>4
    <2> QED BY <2>1, <2>2 DEF EndAccept
<1> QED BY <1>2, <1>4 DEF EndAccept, TypeInv, TypeOK, CountsLow

LEMMA NextTypeInv == TypeInv /\ [Next]_vars => TypeInv'
<1> SUFFICES ASSUME TypeInv, [Next]_vars PROVE TypeInv'
    OBVIOUS
<1>1. CASE UNCHANGED vars
    BY <1>1 DEF vars, TypeInv, TypeOK, LocalsOK, CountsLow, Active, Phase2
<1>2. CASE Next
    BY <1>2, ProposeSlotTypes, TakeNumberTypes, PrepareTypes, EndPrepareTypes,
       AcceptTypes, NotifyLearnTypes, EndAcceptTypes DEF Next
<1> QED BY <1>1, <1>2

\* paxos.go: types; in particular the learner counts no further than the first
\* majority of a slot, and no local of a call is used before it has a value.
THEOREM PaxosTypes == Spec => []TypeInv
BY InitTypeInv, NextTypeInv, PTL DEF Spec
-----------------------------------------------------------------------------
(* Quorums                                                                 *)

IsQuorum(Q) == Majority(Cardinality(Q))

LEMMA AcceptorsFinite ==
    /\ IsFiniteSet(Acceptors) /\ Cardinality(Acceptors) = NumPeers
    /\ \A Q \in SUBSET Acceptors : IsFiniteSet(Q) /\ Cardinality(Q) \in Nat
<1>1. IsFiniteSet(Acceptors) /\ Cardinality(Acceptors) = NumPeers
    BY PeersType, FS_Interval DEF Acceptors
<1> QED BY <1>1, FS_Subset, FS_CardinalityType

LEMMA QuorumsMeet ==
    ASSUME NEW Q \in SUBSET Acceptors, NEW R \in SUBSET Acceptors, IsQuorum(Q), IsQuorum(R)
    PROVE  \E a \in Acceptors : a \in Q /\ a \in R
<1>1. Cardinality(Q) + Cardinality(R) > Cardinality(Acceptors)
    BY AcceptorsFinite, PeersType DEF IsQuorum, Majority
<1> QED BY <1>1, AcceptorsFinite, FS_MajoritiesIntersect

LEMMA QuorumNotEmpty ==
    ASSUME NEW Q \in SUBSET Acceptors, IsQuorum(Q)
    PROVE  \E a \in Acceptors : a \in Q
BY QuorumsMeet

LEMMA QuorumGrows ==
    ASSUME NEW R \in SUBSET Acceptors, NEW Q \in SUBSET R
    PROVE  Cardinality(Q) <= Cardinality(R) /\ (IsQuorum(Q) => IsQuorum(R))
<1>1. IsFiniteSet(R) /\ Cardinality(R) \in Nat /\ Cardinality(Q) \in Nat
    BY AcceptorsFinite
<1>2. Cardinality(Q) <= Cardinality(R)
    BY <1>1, FS_Subset
<1> QED BY <1>1, <1>2, PeersType DEF IsQuorum, Majority

-----------------------------------------------------------------------------
(* The inductive invariant.  Two proposers may use the same number, so a   *)
(* number alone does not say who may go on to phase 2 with it.  The        *)
(* argument is about who heard which promise, which the state does not     *)
(* keep: H stands for the set of <<a, s, b, p>> such that p has heard a's  *)
(* promise of b for slot s, and the invariant says there is such a set.    *)

Promises == Acceptors \X Slots \X IDs \X Proposers

Heard(H, s, b, p) == {a \in Acceptors : <<a, s, b, p>> \in H}

\* In proposal d acceptor a has voted for v for slot s, or has not voted and
\* never will.
SafeVote(a, s, d, v) ==
    \/ <<a, s, d, v>> \in votes
    \/ /\ \A w \in Values : <<a, s, d, w>> \notin votes
       /\ d < acceptor[a][s].promised

\* No value but v is or will be chosen for s in a proposal numbered below b.
SafeAt(s, b, v) ==
    \A d \in IDs : d < b =>
        \E Q \in SUBSET Acceptors : IsQuorum(Q) /\ \A a \in Q : SafeVote(a, s, d, v)

\* What an acceptor has accepted last is its highest vote.
AcceptorInv ==
    \A a \in Acceptors, s \in Slots :
        /\ acceptor[a][s].id <= acceptor[a][s].promised
        /\ acceptor[a][s].id = -1 <=> acceptor[a][s].val = NoValue
        /\ acceptor[a][s].id # -1 => <<a, s, acceptor[a][s].id, acceptor[a][s].val>> \in votes
        /\ \A b \in IDs, v \in Values :
              <<a, s, b, v>> \in votes => b <= acceptor[a][s].id

\* An acceptor promises a number once, so one proposer hears of it.
HeardInv(H) ==
    \A a \in Acceptors, s \in Slots, b \in IDs, p \in Proposers :
        <<a, s, b, p>> \in H =>
            /\ b <= acceptor[a][s].promised
            /\ b <= proposalID[p]
            /\ \A q \in Proposers : <<a, s, b, q>> \in H => q = p

\* The calls of one proposer have different numbers.
NumberInv ==
    \A c \in Calls :
        /\ Active(c) =>
              /\ call[c].id <= proposalID[Owner[c]]
              /\ \A d \in Calls : d # c /\ Active(d) /\ Owner[d] = Owner[c] =>
                    call[d].id # call[c].id
        /\ call[c].pc = "number" =>
              /\ call[c].got = 0 /\ call[c].i = 0
              /\ call[c].highID = -1 /\ call[c].highVal = NoValue

\* A call in phase 1: what it has counted, and the highest vote it knows of.
\* If the number has been voted for, another proposer got it through phase 1.
PrepareOK(H, c) ==
    LET s == call[c].slot
        b == call[c].id
        high == call[c].highID
        Mine == Heard(H, s, b, Owner[c])
    IN  /\ call[c].got = Cardinality(Mine)
        /\ \A a \in Mine : a < call[c].i
        /\ high = -1 <=> call[c].highVal = NoValue
        /\ high < b
        /\ high # -1 => \E a \in Acceptors : <<a, s, high, call[c].highVal>> \in votes
        /\ \A a \in Mine, d \in IDs, v \in Values :
              <<a, s, d, v>> \in votes /\ d < b => d <= high
        /\ \A a \in Acceptors, v \in Values : <<a, s, b, v>> \in votes =>
              \E q \in Proposers \ {Owner[c]} : IsQuorum(Heard(H, s, b, q))

\* A call in phase 2 has a quorum of promises and a safe value, and all votes
\* in its number are its own.
AcceptOK(H, c) ==
    LET s == call[c].slot
        b == call[c].id
    IN  /\ IsQuorum(Heard(H, s, b, Owner[c]))
        /\ SafeAt(s, b, call[c].val)
        /\ \A a \in Acceptors, v \in Values :
              <<a, s, b, v>> \in votes => v = call[c].val /\ a < call[c].i

\* Every vote is safe, was cast in a number that some proposer got through
\* phase 1, and no other value has votes in that number.
VoteInv(H) ==
    \A a \in Acceptors, s \in Slots, b \in IDs, v \in Values :
        <<a, s, b, v>> \in votes =>
            /\ SafeAt(s, b, v)
            /\ \E p \in Proposers : IsQuorum(Heard(H, s, b, p))
            /\ \A x \in Acceptors, w \in Values : <<x, s, b, w>> \in votes => w = v

CoreInv(H) ==
    /\ AcceptorInv /\ HeardInv(H) /\ NumberInv /\ VoteInv(H)
    /\ \A c \in Calls : call[c].pc = "prepare" => PrepareOK(H, c)
    /\ \A c \in Calls : Phase2(c) => AcceptOK(H, c)

PaxosInv == TypeInv /\ \E H \in SUBSET Promises : CoreInv(H)

LEMMA HeardQuorums ==
    ASSUME NEW H, NEW H2, H \subseteq H2, NEW s, NEW b, NEW p
    PROVE  /\ Heard(H, s, b, p) \in SUBSET Acceptors
           /\ Heard(H2, s, b, p) \in SUBSET Acceptors
           /\ IsQuorum(Heard(H, s, b, p)) => IsQuorum(Heard(H2, s, b, p))
<1>1. Heard(H, s, b, p) \in SUBSET Heard(H2, s, b, p)
    BY DEF Heard
<1>2. Heard(H2, s, b, p) \in SUBSET Acceptors /\ Heard(H, s, b, p) \in SUBSET Acceptors
    BY DEF Heard
<1> QED BY <1>1, <1>2, QuorumGrows

LEMMA InitCore == Init => CoreInv({})
<1> SUFFICES ASSUME Init PROVE CoreInv({})
    OBVIOUS
<1>1. \A a \in Acceptors, s \in Slots :
         acceptor[a][s] = [promised |-> -1, id |-> -1, val |-> NoValue]
    BY DEF Init
<1>2. AcceptorInv
    BY <1>1 DEF Init, AcceptorInv
<1>3. HeardInv({}) /\ VoteInv({})
    BY DEF Init, HeardInv, VoteInv
<1>4. \A c \in Calls : call[c].pc = "idle"
    BY DEF Init, Nobody
<1> QED BY <1>2, <1>3, <1>4 DEF CoreInv, NumberInv, Active, Phase2

\* One proposer gets a number through phase 1, for a slot.
LEMMA OneQuorum ==
    ASSUME NEW H, HeardInv(H), NEW s \in Slots, NEW b \in IDs,
           NEW p \in Proposers, NEW q \in Proposers,
           IsQuorum(Heard(H, s, b, p)), IsQuorum(Heard(H, s, b, q))
    PROVE  p = q
<1>1. PICK a \in Acceptors : a \in Heard(H, s, b, p) /\ a \in Heard(H, s, b, q)
    BY HeardQuorums, QuorumsMeet
<1> QED BY <1>1 DEF Heard, HeardInv

\* Two calls in phase 2 have different slots or numbers.
LEMMA PhaseTwoUnique ==
    ASSUME TypeInv, NEW H, CoreInv(H), NEW c \in Calls, NEW d \in Calls, c # d,
           Phase2(c), Phase2(d), call[c].slot = call[d].slot
    PROVE  call[c].id # call[d].id
<1> SUFFICES ASSUME call[c].id = call[d].id PROVE FALSE
    OBVIOUS
<1>1. call[c].slot \in Slots /\ call[c].id \in IDs
    BY DEF TypeInv, TypeOK, CallStates, LocalsOK, Active, Phase2
<1>2. Owner[c] \in Proposers /\ Owner[d] \in Proposers
    BY PaxosAssumption
<1>3. /\ IsQuorum(Heard(H, call[c].slot, call[c].id, Owner[c]))
      /\ IsQuorum(Heard(H, call[c].slot, call[c].id, Owner[d]))
    BY DEF CoreInv, AcceptOK
<1>4. Owner[c] = Owner[d]
    BY <1>1, <1>2, <1>3, OneQuorum DEF CoreInv
<1> QED BY <1>4 DEF CoreInv, NumberInv, Active, Phase2

-----------------------------------------------------------------------------
(* What a step of one call leaves true of the others                       *)

\* Promises rise, votes stay, and nobody votes below its promise.
Grow ==
    /\ votes \subseteq votes'
    /\ \A a \in Acceptors, s \in Slots :
          acceptor[a][s].promised <= acceptor'[a][s].promised
    /\ \A a \in Acceptors, s \in Slots, b \in IDs, v \in Values :
          <<a, s, b, v>> \in votes' =>
              <<a, s, b, v>> \in votes \/ acceptor[a][s].promised <= b
    /\ \A p \in Proposers : proposalID[p] <= proposalID'[p]

LEMMA AcceptorType ==
    ASSUME TypeInv, NEW a \in Acceptors, NEW s \in Slots
    PROVE  /\ acceptor[a][s] \in SlotStates
           /\ acceptor[a][s].promised \in Int /\ acceptor[a][s].id \in Int
<1>1. acceptor[a][s] \in SlotStates
    BY DEF TypeInv, TypeOK
<1> QED BY <1>1, PeersType DEF SlotStates, IDs

LEMMA CallType ==
    ASSUME TypeInv, NEW c \in Calls
    PROVE  /\ call[c] \in CallStates
           /\ call[c].slot \in Slots /\ Owner[c] \in Proposers
           /\ call[c].i \in Int /\ call[c].got \in Int /\ call[c].id \in Int
           /\ call[c].highID \in IDs \cup {-1} /\ call[c].highID \in Int
           /\ call[c].highVal \in Values \cup {NoValue}
           /\ Active(c) => call[c].id \in IDs
           /\ Phase2(c) => call[c].id \in IDs /\ call[c].val \in Values
<1>1. call[c] \in CallStates
    BY DEF TypeInv, TypeOK
<1>2. call[c].highID \in IDs \cup {-1} /\ call[c].highVal \in Values \cup {NoValue}
    BY <1>1 DEF CallStates
<1>3. call[c].slot \in Slots /\ call[c].i \in Int /\ call[c].got \in Int /\ call[c].id \in Int
    BY <1>1, PeersType DEF CallStates
<1>4. call[c].highID \in Int
    BY <1>2, PeersType DEF IDs
<1>5. /\ Active(c) => call[c].id \in IDs
      /\ Phase2(c) => call[c].id \in IDs /\ call[c].val \in Values
    BY DEF TypeInv, LocalsOK, Active, Phase2
<1> QED BY <1>1, <1>2, <1>3, <1>4, <1>5, PaxosAssumption

LEMMA SafeVoteStable ==
    ASSUME TypeInv, TypeInv', Grow, NEW a \in Acceptors, NEW s \in Slots, NEW d \in IDs,
           NEW v, SafeVote(a, s, d, v)
    PROVE  SafeVote(a, s, d, v)'
<1>1. /\ acceptor[a][s].promised \in Int /\ acceptor'[a][s].promised \in Int
      /\ acceptor[a][s].promised <= acceptor'[a][s].promised /\ d \in Int
    BY AcceptorType, PeersType DEF Grow, TypeInv, TypeOK, SlotStates, IDs
<1>2. CASE <<a, s, d, v>> \in votes
    BY <1>2 DEF Grow, SafeVote
<1>3. CASE /\ \A w \in Values : <<a, s, d, w>> \notin votes
           /\ d < acceptor[a][s].promised
    <2>1. \A w \in Values : <<a, s, d, w>> \notin votes'
        BY <1>1, <1>3 DEF Grow
    <2> QED BY <1>1, <1>3, <2>1 DEF SafeVote
<1> QED BY <1>2, <1>3 DEF SafeVote

LEMMA SafeAtStable ==
    ASSUME TypeInv, TypeInv', Grow, NEW s \in Slots, NEW b, NEW v, SafeAt(s, b, v)
    PROVE  SafeAt(s, b, v)'
<1> SUFFICES ASSUME NEW d \in IDs, d < b
             PROVE  \E Q \in SUBSET Acceptors : IsQuorum(Q) /\ \A a \in Q : SafeVote(a, s, d, v)'
    BY DEF SafeAt
<1>1. PICK Q \in SUBSET Acceptors : IsQuorum(Q) /\ \A a \in Q : SafeVote(a, s, d, v)
    BY DEF SafeAt
<1>2. \A a \in Q : SafeVote(a, s, d, v)'
    BY <1>1, SafeVoteStable
<1> QED BY <1>1, <1>2

\* A step of call c: the promises it hears are of its number, the votes it
\* gets are for its slot, number and value.
StepOf(c, H, H2) ==
    /\ Grow /\ H \subseteq H2
    /\ \A d \in Calls : d # c => call'[d] = call[d]
    /\ \A a \in Acceptors, s \in Slots, b \in IDs, p \in Proposers :
          <<a, s, b, p>> \in H2 =>
              <<a, s, b, p>> \in H \/ (Active(c) /\ b = call[c].id /\ p = Owner[c])
    /\ \A a \in Acceptors, s \in Slots, b \in IDs, v \in Values :
          <<a, s, b, v>> \in votes' =>
              \/ <<a, s, b, v>> \in votes
              \/ Phase2(c) /\ s = call[c].slot /\ b = call[c].id /\ v = call[c].val

LEMMA OtherPrepare ==
    ASSUME TypeInv, TypeInv', NEW H \in SUBSET Promises, NEW H2 \in SUBSET Promises,
           CoreInv(H), NEW c \in Calls, StepOf(c, H, H2),
           NEW d \in Calls, d # c, call[d].pc = "prepare"
    PROVE  PrepareOK(H2, d)'
<1> DEFINE s == call[d].slot
           b == call[d].id
           p == Owner[d]
<1>1. call'[d] = call[d] /\ Active(d)
    BY DEF StepOf, Active
<1>2. /\ s \in Slots /\ b \in IDs /\ p \in Proposers /\ b \in Int
      /\ call[d].highID \in Int
    BY <1>1, CallType
<1>3. Heard(H2, s, b, p) = Heard(H, s, b, p)
    <2>1. \A a \in Acceptors : <<a, s, b, p>> \in H2 => <<a, s, b, p>> \in H
        BY <1>1, <1>2 DEF StepOf, CoreInv, NumberInv
    <2> QED BY <2>1 DEF Heard, StepOf
<1>4. PrepareOK(H, d)
    BY DEF CoreInv
<1>5. call[d].highID # -1 => \E a \in Acceptors : <<a, s, call[d].highID, call[d].highVal>> \in votes'
    BY <1>4 DEF PrepareOK, StepOf, Grow
<1>6. ASSUME NEW a \in Heard(H, s, b, p), NEW e \in IDs, NEW v \in Values,
             <<a, s, e, v>> \in votes', e < b
      PROVE  e <= call[d].highID
    <2>1. a \in Acceptors /\ b <= acceptor[a][s].promised
        BY <1>2 DEF CoreInv, HeardInv, Heard
    <2>2. acceptor[a][s].promised \in Int /\ e \in Int
        BY <2>1, <1>2, AcceptorType, PeersType DEF IDs
    <2>3. <<a, s, e, v>> \in votes
        BY <1>2, <1>6, <2>1, <2>2 DEF StepOf, Grow
    <2> QED BY <1>4, <1>6, <2>3 DEF PrepareOK
<1>7. ASSUME NEW a \in Acceptors, NEW v \in Values, <<a, s, b, v>> \in votes'
      PROVE  \E q \in Proposers \ {p} : IsQuorum(Heard(H2, s, b, q))
    <2>1. CASE <<a, s, b, v>> \in votes
        <3>1. PICK q \in Proposers \ {p} : IsQuorum(Heard(H, s, b, q))
            BY <1>4, <2>1 DEF PrepareOK
        <3> QED BY <3>1, HeardQuorums DEF StepOf
    <2>2. CASE Phase2(c) /\ s = call[c].slot /\ b = call[c].id
        <3>1. IsQuorum(Heard(H, s, b, Owner[c]))
            BY <2>2 DEF CoreInv, AcceptOK
        <3>2. Owner[c] \in Proposers /\ Owner[c] # p
            BY <1>1, <2>2, CallType DEF CoreInv, NumberInv, Active, Phase2
        <3>3. IsQuorum(Heard(H2, s, b, Owner[c]))
            BY <3>1, HeardQuorums DEF StepOf
        <3> QED BY <3>2, <3>3
    <2> QED BY <1>2, <1>7, <2>1, <2>2 DEF StepOf
<1> HIDE DEF s, b, p
<1>8. /\ call[d].got = Cardinality(Heard(H2, s, b, p))
      /\ \A a \in Heard(H2, s, b, p) : a < call[d].i
      /\ call[d].highID = -1 <=> call[d].highVal = NoValue
      /\ call[d].highID < b
    BY <1>3, <1>4 DEF PrepareOK, s, b, p
<1>9. \A a \in Heard(H2, s, b, p), e \in IDs, v \in Values :
         <<a, s, e, v>> \in votes' /\ e < b => e <= call[d].highID
    BY <1>3, <1>6
<1> QED BY <1>1, <1>5, <1>7, <1>8, <1>9 DEF PrepareOK, s, b, p

LEMMA OtherAccept ==
    ASSUME TypeInv, TypeInv', NEW H \in SUBSET Promises, NEW H2 \in SUBSET Promises,
           CoreInv(H), NEW c \in Calls, StepOf(c, H, H2),
           NEW d \in Calls, d # c, Phase2(d)
    PROVE  AcceptOK(H2, d)'
<1> DEFINE s == call[d].slot
           b == call[d].id
<1>1. call'[d] = call[d] /\ AcceptOK(H, d)
    BY DEF StepOf, CoreInv
<1>2. s \in Slots /\ b \in IDs
    BY CallType
<1>3. IsQuorum(Heard(H2, s, b, Owner[d]))
    BY <1>1, HeardQuorums DEF AcceptOK, StepOf
<1>4. SafeAt(s, b, call[d].val)'
    <2>1. SafeAt(s, b, call[d].val)
        BY <1>1 DEF AcceptOK
    <2> DEFINE v == call[d].val
    <2>2. /\ s = call[d].slot' /\ b = call[d].id' /\ v = call[d].val'
        BY <1>1
    <2> QED BY <1>1, <1>2, <2>1, SafeAtStable DEF StepOf, SafeAt, SafeVote
<1>5. ASSUME NEW a \in Acceptors, NEW v \in Values, <<a, s, b, v>> \in votes'
      PROVE  v = call[d].val /\ a < call[d].i
    <2>1. <<a, s, b, v>> \in votes
        BY <1>2, <1>5, PhaseTwoUnique DEF StepOf
    <2> QED BY <1>1, <2>1 DEF AcceptOK
<1> QED BY <1>1, <1>3, <1>4, <1>5 DEF AcceptOK

LEMMA VotesKeep ==
    ASSUME TypeInv, TypeInv', NEW H \in SUBSET Promises, NEW H2 \in SUBSET Promises,
           CoreInv(H), NEW c \in Calls, StepOf(c, H, H2)
    PROVE  VoteInv(H2)'
<1> SUFFICES ASSUME NEW a \in Acceptors, NEW s \in Slots, NEW b \in IDs, NEW v \in Values,
                    <<a, s, b, v>> \in votes'
             PROVE  /\ SafeAt(s, b, v)'
                    /\ \E p \in Proposers : IsQuorum(Heard(H2, s, b, p))
                    /\ \A x \in Acceptors, w \in Values :
                          <<x, s, b, w>> \in votes' => w = v
    BY DEF VoteInv
<1> DEFINE Own == Phase2(c) /\ s = call[c].slot /\ b = call[c].id
<1>1. CASE Own
    <2>1. AcceptOK(H, c) /\ Owner[c] \in Proposers
        BY <1>1, CallType DEF CoreInv
    <2>2. \A x \in Acceptors, w \in Values : <<x, s, b, w>> \in votes' => w = call[c].val
        BY <1>1, <2>1 DEF StepOf, AcceptOK
    <2>3. SafeAt(s, b, v)
        BY <1>1, <2>1, <2>2 DEF AcceptOK
    <2>4. IsQuorum(Heard(H2, s, b, Owner[c]))
        BY <1>1, <2>1, HeardQuorums DEF AcceptOK, StepOf
    <2> QED BY <2>1, <2>2, <2>3, <2>4, SafeAtStable DEF StepOf
<1>2. CASE ~Own
    <2>1. \A x \in Acceptors, w \in Values : <<x, s, b, w>> \in votes' => <<x, s, b, w>> \in votes
        BY <1>2 DEF StepOf
    <2>2. /\ SafeAt(s, b, v)
          /\ \E p \in Proposers : IsQuorum(Heard(H, s, b, p))
          /\ \A x \in Acceptors, w \in Values : <<x, s, b, w>> \in votes => w = v
        BY <2>1 DEF CoreInv, VoteInv
    <2>3. SafeAt(s, b, v)'
        BY <2>2, SafeAtStable DEF StepOf
    <2>4. \E p \in Proposers : IsQuorum(Heard(H2, s, b, p))
        BY <2>2, HeardQuorums DEF StepOf
    <2> QED BY <2>1, <2>2, <2>3, <2>4
<1> QED BY <1>1, <1>2

\* What is left to show of a step of c once the others are known to be well.
LEMMA CoreStep ==
    ASSUME TypeInv, TypeInv', NEW H \in SUBSET Promises, NEW H2 \in SUBSET Promises,
           CoreInv(H), NEW c \in Calls, StepOf(c, H, H2),
           AcceptorInv', HeardInv(H2)', NumberInv',
           call'[c].pc = "prepare" => PrepareOK(H2, c)',
           Phase2(c)' => AcceptOK(H2, c)'
    PROVE  CoreInv(H2)'
<1>1. VoteInv(H2)'
    BY VotesKeep
<1>2. ASSUME NEW d \in Calls, call'[d].pc = "prepare" PROVE PrepareOK(H2, d)'
    BY <1>2, OtherPrepare DEF StepOf
<1>3. ASSUME NEW d \in Calls, Phase2(d)' PROVE AcceptOK(H2, d)'
    BY <1>3, OtherAccept DEF StepOf, Phase2
<1> QED BY <1>1, <1>2, <1>3 DEF CoreInv

\* The promises heard earlier.
LEMMA HeardKeep ==
    ASSUME TypeInv, TypeInv', NEW H, HeardInv(H), Grow
    PROVE  HeardInv(H)'
<1> SUFFICES ASSUME NEW a \in Acceptors, NEW s \in Slots, NEW b \in IDs, NEW p \in Proposers,
                    <<a, s, b, p>> \in H
             PROVE  b <= acceptor'[a][s].promised /\ b <= proposalID'[p]
    BY DEF HeardInv
<1>1. /\ acceptor[a][s].promised \in Int /\ acceptor'[a][s].promised \in Int
      /\ b \in Int /\ proposalID[p] \in Int /\ proposalID'[p] \in Int
    BY PeersType DEF TypeInv, TypeOK, SlotStates, IDs
<1> QED BY <1>1 DEF HeardInv, Grow

\* A call that keeps its number, or ends.
LEMMA NumbersKeep ==
    ASSUME TypeInv, TypeInv', NumberInv, Grow, NEW c \in Calls,
           \A d \in Calls : d # c => call'[d] = call[d],
           call'[c].pc # "number",
           Active(c)' => Active(c) /\ call'[c].id = call[c].id
    PROVE  NumberInv'
<1>1. \A d \in Calls : Active(d)' => Active(d) /\ call'[d].id = call[d].id
    BY DEF Active
<1>2. \A d \in Calls : /\ call[d].id \in Int /\ Owner[d] \in Proposers
                       /\ proposalID[Owner[d]] \in Int /\ proposalID'[Owner[d]] \in Int
    BY CallType, PeersType DEF TypeInv, TypeOK
<1>3. ASSUME NEW d \in Calls, Active(d)'
      PROVE  call'[d].id <= proposalID'[Owner[d]]
    BY <1>1, <1>2, <1>3 DEF NumberInv, Grow
<1>4. ASSUME NEW d \in Calls, Active(d)', NEW e \in Calls, e # d, Active(e)',
             Owner[e] = Owner[d]
      PROVE  call'[e].id # call'[d].id
    BY <1>1, <1>4 DEF NumberInv
<1>5. ASSUME NEW d \in Calls, call'[d].pc = "number"
      PROVE  /\ call'[d].got = 0 /\ call'[d].i = 0
             /\ call'[d].highID = -1 /\ call'[d].highVal = NoValue
    BY <1>5 DEF NumberInv
<1> QED BY <1>3, <1>4, <1>5 DEF NumberInv

\* A step of c that leaves acceptors, votes and numbers alone.
LEMMA QuietStep ==
    ASSUME TypeInv, NEW H, CoreInv(H), NEW c \in Calls,
           UNCHANGED <<acceptor, votes, proposalID>>,
           \A d \in Calls : d # c => call'[d] = call[d]
    PROVE  StepOf(c, H, H) /\ AcceptorInv' /\ HeardInv(H)'
<1>1. \A a \in Acceptors, s \in Slots : acceptor[a][s].promised \in Int
    BY AcceptorType
<1>2. \A p \in Proposers : proposalID[p] \in Int
    BY PeersType DEF TypeInv, TypeOK
<1>3. Grow
    BY <1>1, <1>2 DEF Grow
<1> QED BY <1>3 DEF StepOf, CoreInv, AcceptorInv, HeardInv

LEMMA ProposeSlotCore ==
    ASSUME TypeInv, TypeInv', NEW H \in SUBSET Promises, CoreInv(H),
           NEW c \in Calls, NEW v \in Values, ProposeSlot(c, v)
    PROVE  CoreInv(H)'
<1>1. /\ call'[c] = [Nobody EXCEPT !.pc = "number", !.value = v, !.slot = nextSlot[Owner[c]]]
      /\ \A d \in Calls : d # c => call'[d] = call[d]
    BY DEF ProposeSlot, TypeInv, TypeOK
<1>2. /\ call'[c].pc = "number" /\ call'[c].got = 0 /\ call'[c].i = 0
      /\ call'[c].highID = -1 /\ call'[c].highVal = NoValue
    BY <1>1 DEF Nobody
<1>3. StepOf(c, H, H) /\ AcceptorInv' /\ HeardInv(H)'
    BY <1>1, QuietStep DEF ProposeSlot
<1>4. NumberInv'
    BY <1>1, <1>2 DEF ProposeSlot, CoreInv, NumberInv, Active
<1> QED BY <1>2, <1>3, <1>4, CoreStep DEF Phase2

LEMMA NotifyLearnCore ==
    ASSUME TypeInv, TypeInv', NEW H \in SUBSET Promises, CoreInv(H),
           NEW c \in Calls, NotifyLearn(c)
    PROVE  CoreInv(H)'
<1>1. /\ call'[c] = [call[c] EXCEPT !.pc = "accept"]
      /\ \A d \in Calls : d # c => call'[d] = call[d]
    BY DEF NotifyLearn, TypeInv, TypeOK
<1>2. /\ call'[c].pc = "accept" /\ call'[c].slot = call[c].slot /\ call'[c].id = call[c].id
      /\ call'[c].val = call[c].val /\ call'[c].i = call[c].i
    BY <1>1, CallType DEF CallStates
<1>3. Active(c) /\ Phase2(c)
    BY DEF NotifyLearn, Active, Phase2
<1>4. StepOf(c, H, H) /\ AcceptorInv' /\ HeardInv(H)'
    BY <1>1, QuietStep DEF NotifyLearn
<1>5. NumberInv'
    BY <1>1, <1>2, <1>3, <1>4, NumbersKeep DEF StepOf, CoreInv
<1>6. AcceptOK(H, c)'
    BY <1>2, <1>3 DEF NotifyLearn, CoreInv, AcceptOK, SafeAt, SafeVote
<1> QED BY <1>2, <1>4, <1>5, <1>6, CoreStep

LEMMA EndAcceptCore ==
    ASSUME TypeInv, TypeInv', NEW H \in SUBSET Promises, CoreInv(H),
           NEW c \in Calls, EndAccept(c)
    PROVE  CoreInv(H)'
<1>1. call'[c] = Nobody /\ \A d \in Calls : d # c => call'[d] = call[d]
    BY DEF EndAccept, TypeInv, TypeOK
<1>2. call'[c].pc = "idle"
    BY <1>1 DEF Nobody
<1>3. StepOf(c, H, H) /\ AcceptorInv' /\ HeardInv(H)'
    BY <1>1, QuietStep DEF EndAccept
<1>4. NumberInv'
    BY <1>2, <1>3, NumbersKeep DEF StepOf, CoreInv, Active
<1> QED BY <1>2, <1>3, <1>4, CoreStep DEF Phase2

LEMMA TakeNumberCore ==
    ASSUME TypeInv, TypeInv', NEW H \in SUBSET Promises, CoreInv(H),
           NEW c \in Calls, TakeNumber(c)
    PROVE  CoreInv(H)'
<1> DEFINE p == Owner[c]
           b == proposalID[p] + 1
           s == call[c].slot
<1>1. /\ call'[c] = [call[c] EXCEPT !.pc = "prepare", !.id = b]
      /\ \A d \in Calls : d # c => call'[d] = call[d]
      /\ call[c].pc = "number"
    BY DEF TakeNumber, TypeInv, TypeOK, CallStates
<1>2. /\ p \in Proposers /\ s \in Slots /\ proposalID[p] \in Int
      /\ proposalID' = [proposalID EXCEPT ![p] = b]
      /\ \A q \in Proposers : proposalID[q] \in Int
    BY CallType, PeersType DEF TakeNumber, TypeInv, TypeOK
<1>3. /\ call'[c].pc = "prepare" /\ call'[c].id = b /\ call'[c].slot = s
      /\ call'[c].got = 0 /\ call'[c].i = 0
      /\ call'[c].highID = -1 /\ call'[c].highVal = NoValue
    <2>1. /\ call[c].got = 0 /\ call[c].i = 0
          /\ call[c].highID = -1 /\ call[c].highVal = NoValue
        BY <1>1 DEF CoreInv, NumberInv
    <2>2. /\ call'[c].pc = "prepare" /\ call'[c].id = b /\ call'[c].slot = s
          /\ call'[c].got = call[c].got /\ call'[c].i = call[c].i
          /\ call'[c].highID = call[c].highID /\ call'[c].highVal = call[c].highVal
        BY <1>1, CallType DEF CallStates
    <2> QED BY <2>1, <2>2
<1>4. b \in IDs
    BY <1>3 DEF TypeInv, LocalsOK, Active
<1>5. UNCHANGED <<acceptor, votes>>
    BY DEF TakeNumber
<1> HIDE DEF b
<1>6. StepOf(c, H, H) /\ AcceptorInv' /\ HeardInv(H)'
    <2>1. \A a \in Acceptors, t \in Slots : acceptor[a][t].promised \in Int
        BY AcceptorType
    <2>2. \A q \in Proposers : proposalID[q] <= proposalID'[q]
        BY <1>2 DEF TypeInv, TypeOK, b
    <2>3. Grow
        BY <1>5, <2>1, <2>2 DEF Grow
    <2>4. HeardInv(H)'
        BY <2>3, HeardKeep DEF CoreInv
    <2> QED BY <1>1, <1>5, <2>3, <2>4 DEF StepOf, CoreInv, AcceptorInv
<1>7. NumberInv'
    <2>1. \A d \in Calls : d # c => (Active(d)' <=> Active(d)) /\ call'[d] = call[d]
        BY <1>1 DEF Active
    <2>2. \A d \in Calls : d # c /\ Active(d) /\ Owner[d] = p =>
             call[d].id \in Int /\ call[d].id < b
        BY <1>2, CallType DEF CoreInv, NumberInv, b
    <2>3. proposalID'[p] = b /\ b \in Int
        BY <1>2 DEF TypeInv, TypeOK, b
    <2>4. \A d \in Calls : d # c /\ Active(d) => call[d].id <= proposalID'[Owner[d]]
        <3> TAKE d \in Calls
        <3> HAVE d # c /\ Active(d)
        <3>1. call[d].id \in Int /\ Owner[d] \in Proposers
              /\ call[d].id <= proposalID[Owner[d]]
            BY CallType DEF CoreInv, NumberInv
        <3>2. CASE Owner[d] = p
            BY <2>2, <2>3, <3>2
        <3>3. CASE Owner[d] # p
            BY <1>2, <3>1, <3>3 DEF TypeInv, TypeOK
        <3> QED BY <3>2, <3>3
    <2>5. \A d \in Calls : Active(d)' => call'[d].id <= proposalID'[Owner[d]]
        BY <1>3, <2>1, <2>3, <2>4
    <2>6. \A d, e \in Calls :
             Active(d)' /\ Active(e)' /\ e # d /\ Owner[e] = Owner[d] => call'[e].id # call'[d].id
        BY <1>3, <2>1, <2>2, <2>3 DEF CoreInv, NumberInv
    <2>7. \A d \in Calls : call'[d].pc = "number" =>
             /\ call'[d].got = 0 /\ call'[d].i = 0
             /\ call'[d].highID = -1 /\ call'[d].highVal = NoValue
        BY <1>3, <2>1 DEF CoreInv, NumberInv
    <2> QED BY <2>5, <2>6, <2>7 DEF NumberInv
<1>8. PrepareOK(H, c)'
    <2>1. Heard(H, s, b, p) = {}
        BY <1>2, <1>4 DEF CoreInv, HeardInv, Heard, b
    <2>2. Cardinality(Heard(H, s, b, p)) = 0
        BY <2>1, FS_EmptySet
    <2>3. ASSUME NEW a \in Acceptors, NEW v \in Values, <<a, s, b, v>> \in votes
          PROVE  \E q \in Proposers \ {p} : IsQuorum(Heard(H, s, b, q))
        <3>1. PICK q \in Proposers : IsQuorum(Heard(H, s, b, q))
            BY <1>2, <1>4, <2>3 DEF CoreInv, VoteInv
        <3>2. q # p
            BY <2>2, <3>1, PeersType DEF IsQuorum, Majority
        <3> QED BY <3>1, <3>2
    <2>4. -1 < b
        BY <1>4, PeersType DEF IDs
    <2> QED BY <1>3, <1>5, <2>1, <2>2, <2>3, <2>4 DEF PrepareOK
<1> QED BY <1>3, <1>6, <1>7, <1>8, CoreStep DEF Phase2

\* The value a call takes into phase 2 is safe: promises of a quorum show that
\* below its number there are no votes above the highest it has heard of.
LEMMA ChoiceIsSafe ==
    ASSUME TypeInv, NEW H \in SUBSET Promises, CoreInv(H), NEW c \in Calls,
           call[c].pc = "prepare", IsQuorum(Heard(H, call[c].slot, call[c].id, Owner[c])),
           NEW v, v = IF call[c].highVal # NoValue THEN call[c].highVal ELSE call[c].value
    PROVE  SafeAt(call[c].slot, call[c].id, v)
<1> DEFINE s == call[c].slot
           b == call[c].id
           high == call[c].highID
           Q == Heard(H, s, b, Owner[c])
<1>1. /\ s \in Slots /\ b \in IDs /\ b \in Int /\ Owner[c] \in Proposers
      /\ high \in IDs \cup {-1} /\ high \in Int
      /\ call[c].highVal \in Values \cup {NoValue}
    BY CallType DEF Active
<1>2. PrepareOK(H, c)
    BY DEF CoreInv
<1>3. Q \in SUBSET Acceptors /\ \A a \in Q : b <= acceptor[a][s].promised
    BY <1>1 DEF CoreInv, HeardInv, Heard
<1> SUFFICES ASSUME NEW d \in IDs, d < b
             PROVE  \E R \in SUBSET Acceptors : IsQuorum(R) /\ \A a \in R : SafeVote(a, s, d, v)
    BY DEF SafeAt
<1>4. d \in Int /\ d > -1 /\ \A a \in Q : d < acceptor[a][s].promised
    BY <1>1, <1>3, AcceptorType, PeersType DEF IDs
<1>5. CASE d > high
    <2>1. \A a \in Q, w \in Values : <<a, s, d, w>> \notin votes
        BY <1>1, <1>2, <1>4, <1>5 DEF PrepareOK
    <2>2. \A a \in Q : SafeVote(a, s, d, v)
        BY <1>4, <2>1 DEF SafeVote
    <2> QED BY <1>3, <2>2
<1>6. CASE d <= high
    <2>1. high # -1 /\ high \in IDs
        BY <1>1, <1>4, <1>6
    <2>2. call[c].highVal # NoValue /\ call[c].highVal \in Values /\ v = call[c].highVal
        BY <1>1, <1>2, <2>1 DEF PrepareOK
    <2>3. PICK x \in Acceptors : <<x, s, high, v>> \in votes
        BY <1>2, <2>1, <2>2 DEF PrepareOK
    <2>4. /\ SafeAt(s, high, v)
          /\ \A y \in Acceptors, w \in Values : <<y, s, high, w>> \in votes => w = v
        BY <1>1, <2>1, <2>2, <2>3 DEF CoreInv, VoteInv
    <2>5. CASE d < high
        BY <2>4, <2>5 DEF SafeAt
    <2>6. CASE d = high
        <3>1. \A a \in Q : SafeVote(a, s, d, v)
            BY <1>3, <1>4, <2>4, <2>6 DEF SafeVote
        <3> QED BY <1>3, <3>1
    <2> QED BY <1>1, <1>4, <1>6, <2>5, <2>6
<1> QED BY <1>1, <1>4, <1>5, <1>6

\* Nobody has voted in the number of a call that ends phase 1.
LEMMA NoVotesYet ==
    ASSUME TypeInv, NEW H \in SUBSET Promises, CoreInv(H), NEW c \in Calls,
           call[c].pc = "prepare", IsQuorum(Heard(H, call[c].slot, call[c].id, Owner[c]))
    PROVE  \A a \in Acceptors, v \in Values : <<a, call[c].slot, call[c].id, v>> \notin votes
<1>1. /\ call[c].slot \in Slots /\ call[c].id \in IDs /\ Owner[c] \in Proposers
    BY CallType DEF Active
<1> SUFFICES ASSUME NEW a \in Acceptors, NEW v \in Values,
                    <<a, call[c].slot, call[c].id, v>> \in votes
             PROVE  FALSE
    OBVIOUS
<1>2. PICK q \in Proposers \ {Owner[c]} : IsQuorum(Heard(H, call[c].slot, call[c].id, q))
    BY DEF CoreInv, PrepareOK
<1> QED BY <1>1, <1>2, OneQuorum DEF CoreInv

\* A call that ends phase 1 gives up, or has a quorum of promises.
LEMMA EndPrepareStep ==
    ASSUME TypeInv, NEW c \in Calls, EndPrepare(c)
    PROVE  /\ \A d \in Calls : d # c => call'[d] = call[d]
           /\ \/ call'[c] = Nobody
              \/ /\ Majority(call[c].got)
                 /\ call'[c].pc = "accept" /\ call'[c].i = 0 /\ call'[c].got = 0
                 /\ call'[c].slot = call[c].slot /\ call'[c].id = call[c].id
                 /\ call'[c].val = IF call[c].highVal # NoValue THEN call[c].highVal
                                                                ELSE call[c].value
<1> DEFINE v == IF call[c].highVal # NoValue THEN call[c].highVal ELSE call[c].value
           r2 == [call[c] EXCEPT !.pc = "accept", !.i = 0, !.got = 0,
                                 !.highID = -1, !.highVal = NoValue, !.val = v]
<1>1. /\ \A d \in Calls : d # c => call'[d] = call[d]
      /\ call'[c] = IF Majority(call[c].got) THEN r2 ELSE Nobody
    BY DEF EndPrepare, TypeInv, TypeOK
<1> HIDE DEF v
<1>2. /\ r2.pc = "accept" /\ r2.i = 0 /\ r2.got = 0 /\ r2.val = v
      /\ r2.slot = call[c].slot /\ r2.id = call[c].id
    BY CallType DEF CallStates
<1> HIDE DEF r2
<1> QED BY <1>1, <1>2 DEF v

LEMMA EndPrepareCore ==
    ASSUME TypeInv, TypeInv', NEW H \in SUBSET Promises, CoreInv(H),
           NEW c \in Calls, EndPrepare(c)
    PROVE  CoreInv(H)'
<1>1. StepOf(c, H, H) /\ AcceptorInv' /\ HeardInv(H)'
    BY EndPrepareStep, QuietStep DEF EndPrepare
<1>2. Active(c) /\ call[c].pc = "prepare" /\ UNCHANGED <<acceptor, votes>>
    BY DEF EndPrepare, Active
<1>3. CASE call'[c] = Nobody
    <2>1. call'[c].pc = "idle"
        BY <1>3 DEF Nobody
    <2>2. NumberInv'
        BY <1>1, <2>1, NumbersKeep DEF StepOf, CoreInv, Active
    <2> QED BY <1>1, <2>1, <2>2, CoreStep DEF Phase2
<1> DEFINE s == call[c].slot
           b == call[c].id
           v == IF call[c].highVal # NoValue THEN call[c].highVal ELSE call[c].value
<1>4. CASE /\ Majority(call[c].got)
           /\ call'[c].pc = "accept" /\ call'[c].i = 0 /\ call'[c].got = 0
           /\ call'[c].slot = s /\ call'[c].id = b /\ call'[c].val = v
    <2>1. NumberInv'
        BY <1>1, <1>2, <1>4, NumbersKeep DEF StepOf, CoreInv
    <2>2. IsQuorum(Heard(H, s, b, Owner[c]))
        BY <1>2, <1>4 DEF CoreInv, PrepareOK, IsQuorum
    <2>3. SafeAt(s, b, v)
        BY <1>2, <2>2, ChoiceIsSafe
    <2>4. \A a \in Acceptors, w \in Values : <<a, s, b, w>> \notin votes
        BY <1>2, <2>2, NoVotesYet
    <2> HIDE DEF v
    <2>5. AcceptOK(H, c)'
        BY <1>2, <1>4, <2>2, <2>3, <2>4 DEF AcceptOK, SafeAt, SafeVote
    <2> QED BY <1>1, <1>4, <2>1, <2>5, CoreStep
<1> QED BY <1>3, <1>4, EndPrepareStep

\* Phase 1 with one acceptor: the call goes to the next one, ...
Asked(c) ==
    /\ call[c].pc = "prepare" /\ call[c].i \in Acceptors
    /\ \A d \in Calls : d # c => call'[d] = call[d]
    /\ call'[c].pc = call[c].pc /\ call'[c].slot = call[c].slot
    /\ call'[c].id = call[c].id /\ call'[c].i = call[c].i + 1

\* ... the acceptor promises, ...
PromiseGiven(c) ==
    /\ call[c].id > acceptor[call[c].i][call[c].slot].promised
    /\ acceptor' = [acceptor EXCEPT ![call[c].i][call[c].slot].promised = call[c].id]

\* ... and the call hears of it or does not.
PromiseHeard(c) ==
    LET r == call[c]
        acc == acceptor[r.i][r.slot]
    IN  /\ call'[c].got = r.got + 1
        /\ call'[c].highID = IF acc.id > r.highID THEN acc.id ELSE r.highID
        /\ call'[c].highVal = IF acc.id > r.highID THEN acc.val ELSE r.highVal

PromiseUnheard(c) ==
    /\ call'[c].got = call[c].got
    /\ call'[c].highID = call[c].highID /\ call'[c].highVal = call[c].highVal

LEMMA PrepareStep ==
    ASSUME TypeInv, NEW c \in Calls, Prepare(c)
    PROVE  /\ Asked(c)
           /\ UNCHANGED acceptor \/ PromiseGiven(c)
           /\ PromiseUnheard(c) \/ (PromiseGiven(c) /\ PromiseHeard(c))
<1> DEFINE r == call[c]
           a == call[c].i
           acc == acceptor[a][r.slot]
<1>1. /\ r.pc = "prepare" /\ a \in Acceptors /\ Active(c)
      /\ UNCHANGED acceptor \/ PromiseGiven(c)
    BY DEF Prepare, WillPromise, Active, PromiseGiven
<1>2. r \in CallStates /\ r.slot \in Slots /\ r.got <= r.i /\ acc \in SlotStates
    BY <1>1, CallType, AcceptorType DEF TypeInv, LocalsOK
<1>3. CASE call' = [call EXCEPT ![c].i = a + 1]
    <2>1. /\ call'[c] = [r EXCEPT !.i = a + 1]
          /\ \A d \in Calls \ {c} : call'[d] = call[d]
        BY <1>1, <1>3, NotHeard
    <2>2. /\ call'[c].pc = r.pc /\ call'[c].slot = r.slot /\ call'[c].id = r.id
          /\ call'[c].i = a + 1 /\ call'[c].got = r.got
          /\ call'[c].highID = r.highID /\ call'[c].highVal = r.highVal
        BY <1>2, <2>1 DEF CallStates
    <2> QED BY <1>1, <2>1, <2>2 DEF Asked, PromiseUnheard
<1>4. CASE /\ PromiseGiven(c)
           /\ call' = [call EXCEPT ![c] = HearPromise(r, acc)]
    <2>1. call'[c] = HearPromise(r, acc) /\ \A d \in Calls : d # c => call'[d] = call[d]
        BY <1>4 DEF TypeInv, TypeOK
    <2>2. LET h == HearPromise(r, acc) IN
          /\ h.i = a + 1 /\ h.got = r.got + 1
          /\ h.pc = r.pc /\ h.slot = r.slot /\ h.id = r.id
          /\ h.highID = IF acc.id > r.highID THEN acc.id ELSE r.highID
          /\ h.highVal = IF acc.id > r.highID THEN acc.val ELSE r.highVal
        BY <1>1, <1>2, HearPromiseType
    <2> QED BY <1>1, <1>4, <2>1, <2>2 DEF Asked, PromiseHeard
<1> QED BY <1>3, <1>4 DEF Prepare, WillPromise, PromiseGiven

\* A promise leaves votes and accepted pairs alone.
LEMMA PromiseGrows ==
    ASSUME TypeInv, AcceptorInv, NEW a \in Acceptors, NEW s \in Slots, NEW b \in IDs,
           UNCHANGED <<votes, proposalID>>,
           \/ UNCHANGED acceptor
           \/ b > acceptor[a][s].promised /\ acceptor' = [acceptor EXCEPT ![a][s].promised = b]
    PROVE  Grow /\ AcceptorInv'
<1>1. \A x \in Acceptors, t \in Slots :
         acceptor[x][t].promised \in Int /\ acceptor[x][t].id \in Int
    BY AcceptorType
<1>2. (\A p \in Proposers : proposalID[p] \in Int) /\ b \in Int
    BY PeersType DEF TypeInv, TypeOK, IDs
<1>3. CASE UNCHANGED acceptor
    BY <1>1, <1>2, <1>3 DEF Grow, AcceptorInv
<1>4. CASE b > acceptor[a][s].promised /\ acceptor' = [acceptor EXCEPT ![a][s].promised = b]
    <2>1. \A x \in Acceptors, t \in Slots :
             /\ ~(x = a /\ t = s) => acceptor'[x][t] = acceptor[x][t]
             /\ acceptor'[x][t].id = acceptor[x][t].id
             /\ acceptor'[x][t].val = acceptor[x][t].val
        BY <1>4, PromiseStep
    <2>2. acceptor'[a][s].promised = b
        BY <1>4, PromiseStep
    <2>3. \A x \in Acceptors, t \in Slots :
             /\ acceptor[x][t].promised <= acceptor'[x][t].promised
             /\ acceptor'[x][t].promised \in Int
        BY <1>1, <1>2, <1>4, <2>1, <2>2
    <2>4. \A x \in Acceptors, t \in Slots :
             acceptor[x][t].id <= acceptor'[x][t].promised
        <3> TAKE x \in Acceptors, t \in Slots
        <3>1. acceptor[x][t].id <= acceptor[x][t].promised
            BY DEF AcceptorInv
        <3> QED BY <1>1, <2>3, <3>1
    <2>5. Grow
        BY <1>2, <2>3 DEF Grow
    <2> QED BY <2>1, <2>4, <2>5 DEF AcceptorInv
<1> QED BY <1>3, <1>4

\* Phase 1 with one acceptor, and the promise is not heard.
LEMMA UnheardCore ==
    ASSUME TypeInv, TypeInv', NEW H \in SUBSET Promises, CoreInv(H),
           NEW c \in Calls, Prepare(c), PromiseUnheard(c)
    PROVE  CoreInv(H)'
<1>1. /\ call[c].pc = "prepare" /\ call[c].i \in Acceptors /\ Active(c)
      /\ \A d \in Calls : d # c => call'[d] = call[d]
      /\ call'[c].pc = "prepare" /\ call'[c].slot = call[c].slot
      /\ call'[c].id = call[c].id /\ call'[c].i = call[c].i + 1
    BY PrepareStep DEF Active, Asked
<1>2. /\ call[c].slot \in Slots /\ call[c].id \in IDs /\ call[c].i \in Int
      /\ UNCHANGED <<votes, proposalID>>
    BY <1>1, CallType DEF Prepare
<1>3. Grow /\ AcceptorInv'
    <2> DEFINE a == call[c].i
               s == call[c].slot
               b == call[c].id
    <2>1. \/ UNCHANGED acceptor
          \/ b > acceptor[a][s].promised /\ acceptor' = [acceptor EXCEPT ![a][s].promised = b]
        BY PrepareStep DEF PromiseGiven
    <2>2. a \in Acceptors /\ s \in Slots /\ b \in IDs /\ AcceptorInv
        BY <1>1, <1>2 DEF CoreInv
    <2> HIDE DEF a, s, b
    <2> QED BY <1>2, <2>1, <2>2, PromiseGrows
<1>4. StepOf(c, H, H) /\ HeardInv(H)'
    BY <1>1, <1>2, <1>3, HeardKeep DEF StepOf, CoreInv
<1>5. NumberInv'
    BY <1>1, <1>3, NumbersKeep DEF CoreInv, Active
<1>6. PrepareOK(H, c)'
    <2>1. PrepareOK(H, c)
        BY <1>1 DEF CoreInv
    <2>2. \A a \in Heard(H, call[c].slot, call[c].id, Owner[c]) : a < call[c].i + 1
        <3>1. \A a \in Heard(H, call[c].slot, call[c].id, Owner[c]) : a \in Int /\ a < call[c].i
            <4>1. Acceptors \subseteq Int
                BY PeersType DEF Acceptors
            <4>2. Heard(H, call[c].slot, call[c].id, Owner[c]) \subseteq Acceptors
                BY DEF Heard
            <4> QED BY <2>1, <4>1, <4>2 DEF PrepareOK
        <3> QED BY <1>2, <3>1
    <2> QED BY <1>1, <1>2, <2>1, <2>2 DEF PrepareOK, PromiseUnheard
<1> QED BY <1>1, <1>3, <1>4, <1>5, <1>6, CoreStep DEF Phase2

\* Phase 1 with one acceptor, and the promise is heard: H gets one more.
LEMMA HeardCore ==
    ASSUME TypeInv, TypeInv', NEW H \in SUBSET Promises, CoreInv(H),
           NEW c \in Calls, Prepare(c), PromiseGiven(c), PromiseHeard(c),
           NEW H2, H2 = H \cup {<<call[c].i, call[c].slot, call[c].id, Owner[c]>>}
    PROVE  H2 \in SUBSET Promises /\ CoreInv(H2)'
<1> DEFINE a == call[c].i
           s == call[c].slot
           b == call[c].id
           p == Owner[c]
           acc == acceptor[a][s]
           high == call[c].highID
<1>1. /\ call[c].pc = "prepare" /\ a \in Acceptors /\ Active(c)
      /\ \A d \in Calls : d # c => call'[d] = call[d]
      /\ call'[c].pc = "prepare" /\ call'[c].slot = s
      /\ call'[c].id = b /\ call'[c].i = a + 1
    BY PrepareStep DEF Active, Asked
<1>2. /\ s \in Slots /\ b \in IDs /\ b \in Int /\ p \in Proposers
      /\ a \in Int /\ high \in Int
      /\ UNCHANGED <<votes, proposalID>>
    BY <1>1, CallType DEF Prepare
<1>3. /\ acc \in SlotStates /\ acc.promised \in Int /\ acc.id \in Int
      /\ acc.id \in IDs \cup {-1}
    BY <1>1, <1>2, AcceptorType DEF SlotStates
<1>4. b > acc.promised /\ acceptor' = [acceptor EXCEPT ![a][s].promised = b]
    BY DEF PromiseGiven
<1>5. H2 \in SUBSET Promises
    BY <1>1, <1>2 DEF Promises
<1>6. PrepareOK(H, c) /\ AcceptorInv /\ HeardInv(H) /\ NumberInv
    BY <1>1 DEF CoreInv
<1>7. /\ call'[c].got = call[c].got + 1
      /\ call'[c].highID = IF acc.id > high THEN acc.id ELSE high
      /\ call'[c].highVal = IF acc.id > high THEN acc.val ELSE call[c].highVal
    BY DEF PromiseHeard
<1>8. b <= proposalID[p]
    BY <1>1, <1>6 DEF NumberInv
<1>9. \A q \in Proposers : <<a, s, b, q>> \notin H
    BY <1>1, <1>2, <1>3, <1>4, <1>6 DEF HeardInv
<1>10. Grow /\ AcceptorInv'
    <2> HIDE DEF a, s, b
    <2> QED BY <1>1, <1>2, <1>4, <1>6, PromiseGrows
<1>11. acceptor'[a][s].promised = b
    <2>1. /\ a \in Acceptors /\ s \in Slots /\ b \in IDs
          /\ acceptor' = [acceptor EXCEPT ![a][s].promised = b]
        BY <1>1, <1>2, <1>4
    <2> HIDE DEF a, s, b
    <2> QED BY <2>1, PromiseStep
<1>12. HeardInv(H2)'
    <2>1. HeardInv(H)'
        BY <1>6, <1>10, HeardKeep
    <2> SUFFICES ASSUME NEW x \in Acceptors, NEW t \in Slots, NEW e \in IDs, NEW q \in Proposers,
                        <<x, t, e, q>> \in H2
                 PROVE  /\ e <= acceptor'[x][t].promised
                        /\ e <= proposalID'[q]
                        /\ \A y \in Proposers : <<x, t, e, y>> \in H2 => y = q
        BY DEF HeardInv
    <2>2. CASE <<x, t, e, q>> \in H
        <3>1. /\ e <= acceptor'[x][t].promised /\ e <= proposalID'[q]
              /\ \A y \in Proposers : <<x, t, e, y>> \in H => y = q
            BY <2>1, <2>2 DEF HeardInv
        <3>2. ~(x = a /\ t = s /\ e = b)
            BY <1>9, <2>2
        <3> QED BY <3>1, <3>2
    <2>3. CASE x = a /\ t = s /\ e = b /\ q = p
        BY <1>2, <1>8, <1>9, <1>11, <2>3
    <2> QED BY <2>2, <2>3
<1>13. StepOf(c, H, H2)
    BY <1>1, <1>2, <1>10 DEF StepOf
<1>14. NumberInv'
    BY <1>1, <1>6, <1>10, NumbersKeep DEF Active
<1>15. PrepareOK(H2, c)'
    <2> DEFINE Mine == Heard(H, s, b, p)
               n == IF acc.id > high THEN acc.id ELSE high
               nVal == IF acc.id > high THEN acc.val ELSE call[c].highVal
    <2>1. Heard(H2, s, b, p) = Mine \cup {a} /\ a \notin Mine /\ Mine \in SUBSET Acceptors
        BY <1>1, <1>2, <1>9 DEF Heard
    <2>2. call'[c].got = Cardinality(Heard(H2, s, b, p))
        <3>1. IsFiniteSet(Mine) /\ call[c].got = Cardinality(Mine)
            BY <1>6, <2>1, AcceptorsFinite DEF PrepareOK
        <3>2. Cardinality(Mine \cup {a}) = Cardinality(Mine) + 1
            BY <2>1, <3>1, FS_AddElement
        <3> QED BY <1>7, <2>1, <3>1, <3>2
    <2>3. \A x \in Mine \cup {a} : x < a + 1
        <3>1. Acceptors \subseteq Int
            BY PeersType DEF Acceptors
        <3>2. \A x \in Mine : x < a
            BY <1>6 DEF PrepareOK
        <3>3. \A x \in Mine : x \in Int
            BY <2>1, <3>1
        <3> HIDE DEF Mine, a
        <3> QED BY <1>2, <3>2, <3>3
    <2>4. acc.id < b /\ (acc.id = -1 <=> acc.val = NoValue)
          /\ (acc.id # -1 => <<a, s, acc.id, acc.val>> \in votes)
        BY <1>1, <1>2, <1>3, <1>4, <1>6 DEF AcceptorInv
    <2>5. high < b /\ (high = -1 <=> call[c].highVal = NoValue)
          /\ (high # -1 => \E x \in Acceptors : <<x, s, high, call[c].highVal>> \in votes)
        BY <1>6 DEF PrepareOK
    <2>6. n < b /\ (n = -1 <=> nVal = NoValue)
          /\ (n # -1 => \E x \in Acceptors : <<x, s, n, nVal>> \in votes)
        BY <1>1, <2>4, <2>5
    <2>7. n \in Int /\ acc.id <= n /\ high <= n
        BY <1>2, <1>3
    <2>8. ASSUME NEW x \in Mine \cup {a}, NEW d \in IDs, NEW v \in Values,
                 <<x, s, d, v>> \in votes, d < b
          PROVE  d <= n
        <3>1. d \in Int
            BY PeersType DEF IDs
        <3>2. CASE x = a
            <4>1. d <= acc.id
                BY <1>1, <1>2, <1>6, <2>8, <3>2 DEF AcceptorInv
            <4> QED BY <1>3, <2>7, <3>1, <4>1
        <3>3. CASE x \in Mine
            <4>1. d <= high
                BY <1>6, <2>8, <3>3 DEF PrepareOK
            <4> QED BY <1>2, <2>7, <3>1, <4>1
        <3> QED BY <3>2, <3>3
    <2>9. ASSUME NEW x \in Acceptors, NEW v \in Values, <<x, s, b, v>> \in votes
          PROVE  \E q \in Proposers \ {p} : IsQuorum(Heard(H2, s, b, q))
        <3>1. PICK q \in Proposers \ {p} : IsQuorum(Heard(H, s, b, q))
            BY <1>6, <2>9 DEF PrepareOK
        <3> QED BY <3>1, HeardQuorums
    <2> HIDE DEF Mine, n, nVal
    <2>10. call'[c].highID = n /\ call'[c].highVal = nVal
        BY <1>7 DEF n, nVal
    <2> QED BY <1>1, <1>2, <2>1, <2>2, <2>3, <2>6, <2>8, <2>9, <2>10 DEF PrepareOK
<1>16. CoreInv(H2)'
    BY <1>1, <1>5, <1>10, <1>12, <1>13, <1>14, <1>15, CoreStep DEF Phase2
<1> QED BY <1>5, <1>16

\* Phase 2 with one acceptor: ...
AskedAccept(c) ==
    /\ call[c].pc = "accept" /\ call[c].i \in Acceptors
    /\ \A d \in Calls : d # c => call'[d] = call[d]
    /\ call'[c].slot = call[c].slot /\ call'[c].id = call[c].id
    /\ call'[c].val = call[c].val /\ call'[c].i = call[c].i + 1

\* ... it accepts, ...
VoteGiven(c) ==
    LET r == call[c] IN
    /\ r.id >= acceptor[r.i][r.slot].promised
    /\ acceptor' = [acceptor EXCEPT ![r.i][r.slot] =
                      [promised |-> r.id, id |-> r.id, val |-> r.val]]
    /\ votes' = votes \cup {<<r.i, r.slot, r.id, r.val>>}

\* ... and the call hears of it or does not.
VoteHeard(c) == call'[c].got = call[c].got + 1 /\ call'[c].pc = "notify"

VoteUnheard(c) == call'[c].got = call[c].got /\ call'[c].pc = "accept"

LEMMA AcceptCallStep ==
    ASSUME TypeInv, NEW c \in Calls, Accept(c)
    PROVE  /\ AskedAccept(c)
           /\ UNCHANGED <<acceptor, votes>> \/ VoteGiven(c)
           /\ VoteUnheard(c) \/ (VoteGiven(c) /\ VoteHeard(c))
<1> DEFINE r == call[c]
           a == call[c].i
           r2 == [r EXCEPT !.i = a + 1, !.got = r.got + 1, !.pc = "notify"]
<1>1. /\ r.pc = "accept" /\ a \in Acceptors /\ Active(c)
      /\ UNCHANGED <<acceptor, votes>> \/ VoteGiven(c)
    BY DEF Accept, WillAccept, Active, VoteGiven
<1>2. r \in CallStates
    BY CallType
<1>3. CASE call' = [call EXCEPT ![c].i = a + 1]
    <2>1. /\ call'[c] = [r EXCEPT !.i = a + 1]
          /\ \A d \in Calls \ {c} : call'[d] = call[d]
        BY <1>1, <1>3, NotHeard
    <2>2. /\ call'[c].pc = r.pc /\ call'[c].slot = r.slot /\ call'[c].id = r.id
          /\ call'[c].i = a + 1 /\ call'[c].got = r.got /\ call'[c].val = r.val
        BY <1>2, <2>1 DEF CallStates
    <2> QED BY <1>1, <2>1, <2>2 DEF AskedAccept, VoteUnheard
<1>4. CASE VoteGiven(c) /\ call' = [call EXCEPT ![c] = r2]
    <2>1. call'[c] = r2 /\ \A d \in Calls : d # c => call'[d] = call[d]
        BY <1>4 DEF TypeInv, TypeOK
    <2>2. /\ r2.pc = "notify" /\ r2.slot = r.slot /\ r2.id = r.id
          /\ r2.i = a + 1 /\ r2.got = r.got + 1 /\ r2.val = r.val
        BY <1>2 DEF CallStates
    <2> HIDE DEF r2
    <2> QED BY <1>1, <1>4, <2>1, <2>2 DEF AskedAccept, VoteHeard
<1> QED BY <1>3, <1>4 DEF Accept, WillAccept, VoteGiven

\* A vote is the acceptor's highest.
LEMMA VoteGrows ==
    ASSUME TypeInv, AcceptorInv, NEW a \in Acceptors, NEW s \in Slots, NEW b \in IDs,
           NEW v \in Values, UNCHANGED proposalID, b >= acceptor[a][s].promised,
           NEW q \in SlotStates, q.promised = b, q.id = b, q.val = v,
           acceptor' = [acceptor EXCEPT ![a][s] = q],
           votes' = votes \cup {<<a, s, b, v>>}
    PROVE  Grow /\ AcceptorInv'
<1>1. \A x \in Acceptors, t \in Slots :
         acceptor[x][t].promised \in Int /\ acceptor[x][t].id \in Int
    BY AcceptorType
<1>2. (\A p \in Proposers : proposalID[p] \in Int) /\ b \in Int /\ IDs \subseteq Int
      /\ b # -1 /\ v # NoValue
    BY PeersType, PaxosAssumption DEF TypeInv, TypeOK, IDs
<1>5. /\ \A x \in Acceptors, t \in Slots :
            ~(x = a /\ t = s) => acceptor'[x][t] = acceptor[x][t]
      /\ acceptor'[a][s] = q
    <2>1. acceptor \in [Acceptors -> [Slots -> SlotStates]]
        BY DEF TypeInv, TypeOK
    <2>2. acceptor' = [acceptor EXCEPT ![a] = [acceptor[a] EXCEPT ![s] = q]]
        BY <2>1
    <2> QED BY <2>1, <2>2
<1>6. \A x \in Acceptors, t \in Slots :
         acceptor[x][t].promised <= acceptor'[x][t].promised
    BY <1>1, <1>2, <1>5
<1>7. Grow
    BY <1>1, <1>2, <1>6 DEF Grow
<1>8. ASSUME NEW x \in Acceptors, NEW t \in Slots
      PROVE  /\ acceptor'[x][t].id <= acceptor'[x][t].promised
             /\ acceptor'[x][t].id = -1 <=> acceptor'[x][t].val = NoValue
             /\ acceptor'[x][t].id # -1 =>
                   <<x, t, acceptor'[x][t].id, acceptor'[x][t].val>> \in votes'
             /\ \A d \in IDs, w \in Values :
                   <<x, t, d, w>> \in votes' => d <= acceptor'[x][t].id
    <2>1. CASE x = a /\ t = s
        <3>1. \A d \in IDs, w \in Values : <<a, s, d, w>> \in votes => d <= b
            <4> TAKE d \in IDs, w \in Values
            <4> HAVE <<a, s, d, w>> \in votes
            <4>1. d <= acceptor[a][s].id /\ acceptor[a][s].id <= acceptor[a][s].promised
                BY DEF AcceptorInv
            <4>2. d \in Int /\ acceptor[a][s].id \in Int /\ acceptor[a][s].promised \in Int
                BY <1>1, <1>2
            <4> QED BY <1>2, <4>1, <4>2
        <3> QED BY <1>2, <1>5, <2>1, <3>1
    <2>2. CASE ~(x = a /\ t = s)
        BY <1>5, <2>2 DEF AcceptorInv
    <2> QED BY <2>1, <2>2
<1> QED BY <1>7, <1>8 DEF AcceptorInv

LEMMA AcceptCore ==
    ASSUME TypeInv, TypeInv', NEW H \in SUBSET Promises, CoreInv(H),
           NEW c \in Calls, Accept(c)
    PROVE  CoreInv(H)'
<1> DEFINE a == call[c].i
           s == call[c].slot
           b == call[c].id
           v == call[c].val
<1>1. /\ call[c].pc = "accept" /\ a \in Acceptors /\ Active(c) /\ Phase2(c)
      /\ \A d \in Calls : d # c => call'[d] = call[d]
      /\ call'[c].slot = s /\ call'[c].id = b /\ call'[c].val = v /\ call'[c].i = a + 1
    BY AcceptCallStep DEF Active, Phase2, AskedAccept
<1>2. call'[c].pc \in {"accept", "notify"}
    BY AcceptCallStep DEF VoteHeard, VoteUnheard
<1>3. /\ s \in Slots /\ b \in IDs /\ v \in Values /\ a \in Int
      /\ UNCHANGED proposalID
    BY <1>1, CallType DEF Accept
<1>4. AcceptOK(H, c) /\ AcceptorInv /\ HeardInv(H) /\ NumberInv
    BY <1>1 DEF CoreInv
<1>5. \/ UNCHANGED <<acceptor, votes>>
      \/ /\ b >= acceptor[a][s].promised
         /\ acceptor' = [acceptor EXCEPT ![a][s] = [promised |-> b, id |-> b, val |-> v]]
         /\ votes' = votes \cup {<<a, s, b, v>>}
    BY AcceptCallStep DEF VoteGiven
<1>6. Grow /\ AcceptorInv'
    <2>1. CASE UNCHANGED <<acceptor, votes>>
        <3>1. \A x \in Acceptors, t \in Slots : acceptor[x][t].promised \in Int
            BY AcceptorType
        <3>2. \A p \in Proposers : proposalID[p] \in Int
            BY PeersType DEF TypeInv, TypeOK
        <3> QED BY <1>3, <1>4, <2>1, <3>1, <3>2 DEF Grow, AcceptorInv
    <2>2. CASE /\ b >= acceptor[a][s].promised
               /\ acceptor' = [acceptor EXCEPT ![a][s] = [promised |-> b, id |-> b, val |-> v]]
               /\ votes' = votes \cup {<<a, s, b, v>>}
        <3> DEFINE q == [promised |-> b, id |-> b, val |-> v]
        <3>1. /\ q \in SlotStates /\ q.promised = b /\ q.id = b /\ q.val = v
              /\ acceptor' = [acceptor EXCEPT ![a][s] = q]
            BY <1>3, <2>2 DEF SlotStates
        <3>2. votes' = votes \cup {<<a, s, b, v>>} /\ b >= acceptor[a][s].promised
            BY <2>2
        <3> HIDE DEF a, s, b, v, q
        <3> QED BY <1>1, <1>3, <1>4, <3>1, <3>2, VoteGrows
    <2> QED BY <1>5, <2>1, <2>2
<1>7. StepOf(c, H, H)
    BY <1>1, <1>5, <1>6 DEF StepOf
<1>8. HeardInv(H)'
    BY <1>4, <1>6, HeardKeep
<1>9. NumberInv'
    BY <1>1, <1>2, <1>4, <1>6, NumbersKeep
<1>10. AcceptOK(H, c)'
    <2>1. IsQuorum(Heard(H, s, b, Owner[c])) /\ SafeAt(s, b, v)
        BY <1>4 DEF AcceptOK
    <2>2. ASSUME NEW x \in Acceptors, NEW w \in Values, <<x, s, b, w>> \in votes'
          PROVE  w = v /\ x < a + 1
        <3>1. x \in Int
            BY PeersType DEF Acceptors
        <3>2. CASE <<x, s, b, w>> \in votes
            <4>1. w = v /\ x < a
                BY <1>4, <3>2 DEF AcceptOK
            <4> QED BY <1>3, <3>1, <4>1
        <3>3. CASE x = a /\ w = v
            BY <1>3, <3>3
        <3> QED BY <1>5, <2>2, <3>2, <3>3
    <2>3. ASSUME NEW s2, NEW b2, NEW v2, s2 = s, b2 = b, v2 = v
          PROVE  SafeAt(s2, b2, v2)'
        BY <1>3, <1>6, <2>1, <2>3, SafeAtStable
    <2> QED BY <1>1, <2>1, <2>2, <2>3 DEF AcceptOK, SafeAt, SafeVote
<1> QED BY <1>2, <1>6, <1>7, <1>8, <1>9, <1>10, CoreStep

-----------------------------------------------------------------------------
(* Agreement                                                               *)

LEMMA NextPaxosInv == PaxosInv /\ [Next]_vars => PaxosInv'
<1> SUFFICES ASSUME PaxosInv, [Next]_vars PROVE PaxosInv'
    OBVIOUS
<1>1. TypeInv /\ TypeInv'
    BY NextTypeInv DEF PaxosInv
<1>2. PICK H \in SUBSET Promises : CoreInv(H)
    BY DEF PaxosInv
<1>3. CASE UNCHANGED vars
    <2>1. AcceptorInv' /\ HeardInv(H)' /\ NumberInv'
        BY <1>2, <1>3 DEF vars, CoreInv, AcceptorInv, HeardInv, NumberInv, Active
    <2>2. VoteInv(H)'
        BY <1>2, <1>3 DEF vars, CoreInv, VoteInv, SafeAt, SafeVote
    <2>3. \A c \in Calls : call[c].pc = "prepare" => PrepareOK(H, c)'
        BY <1>2, <1>3 DEF vars, CoreInv, PrepareOK
    <2>4. \A c \in Calls : Phase2(c) => AcceptOK(H, c)'
        BY <1>2, <1>3 DEF vars, CoreInv, AcceptOK, SafeAt, SafeVote
    <2>5. CoreInv(H)'
        BY <1>3, <2>1, <2>2, <2>3, <2>4 DEF vars, CoreInv, Phase2
    <2> QED BY <1>1, <2>5 DEF PaxosInv
<1>4. ASSUME NEW c \in Calls, Prepare(c)
      PROVE  \E H2 \in SUBSET Promises : CoreInv(H2)'
    <2>1. CASE PromiseUnheard(c)
        BY <1>1, <1>2, <1>4, <2>1, UnheardCore
    <2>2. CASE PromiseGiven(c) /\ PromiseHeard(c)
        <3>1. PICK H2 : H2 = H \cup {<<call[c].i, call[c].slot, call[c].id, Owner[c]>>}
            OBVIOUS
        <3> QED BY <1>1, <1>2, <1>4, <2>2, <3>1, HeardCore
    <2> QED BY <1>1, <1>4, <2>1, <2>2, PrepareStep
<1>5. CASE Next
    <2>1. \E H2 \in SUBSET Promises : CoreInv(H2)'
        BY <1>1, <1>2, <1>4, <1>5, ProposeSlotCore, TakeNumberCore, EndPrepareCore,
           AcceptCore, NotifyLearnCore, EndAcceptCore DEF Next
    <2> QED BY <1>1, <2>1 DEF PaxosInv
<1> QED BY <1>3, <1>5

\* paxos.go: the invariant of the protocol, with the promises each proposer has
\* heard as the witness.
THEOREM PaxosInvariant == Spec => []PaxosInv
<1>1. Init => PaxosInv
    BY InitTypeInv, InitCore DEF PaxosInv
<1> QED BY <1>1, NextPaxosInv, PTL DEF Spec

LEMMA PaxosInvAgreement == PaxosInv => Agreement
<1> SUFFICES ASSUME PaxosInv, NEW s \in Slots, NEW v \in Values, NEW w \in Values,
                    NEW b \in IDs, NEW d \in IDs, d <= b,
                    IsQuorum(Voters(s, b, v)), IsQuorum(Voters(s, d, w))
             PROVE  v = w
    <2>1. \A b, d \in IDs : b <= d \/ d <= b
        BY PeersType DEF IDs
    <2> QED BY <2>1 DEF Agreement, Chosen, IsQuorum
<1>1. PICK H \in SUBSET Promises : VoteInv(H)
    BY DEF PaxosInv, CoreInv
<1>2. /\ Voters(s, b, v) \in SUBSET Acceptors /\ Voters(s, d, w) \in SUBSET Acceptors
      /\ b \in Int /\ d \in Int
    BY PeersType DEF Voters, IDs
<1>3. PICK a \in Acceptors : <<a, s, b, v>> \in votes
    BY <1>2, QuorumNotEmpty DEF Voters
<1>4. PICK x \in Acceptors : <<x, s, d, w>> \in votes
    BY <1>2, QuorumNotEmpty DEF Voters
<1>5. CASE b = d
    BY <1>1, <1>3, <1>4, <1>5 DEF VoteInv
<1>6. CASE d < b
    <2>1. PICK Q \in SUBSET Acceptors : IsQuorum(Q) /\ \A y \in Q : SafeVote(y, s, d, v)
        BY <1>1, <1>3, <1>6 DEF VoteInv, SafeAt
    <2>2. PICK y \in Acceptors : y \in Q /\ y \in Voters(s, d, w)
        BY <1>2, <2>1, QuorumsMeet
    <2>3. <<y, s, d, w>> \in votes /\ <<y, s, d, v>> \in votes
        BY <2>1, <2>2 DEF SafeVote, Voters
    <2> QED BY <1>1, <2>3 DEF VoteInv
<1> QED BY <1>2, <1>5, <1>6

\* paxos.go: for any number of acceptors, proposers and concurrent calls, at
\* most one value is chosen per slot, although Proposer.Propose numbers its
\* proposals without regard to the other proposers.
THEOREM PaxosAgreement == Spec => []Agreement
BY PaxosInvariant, PaxosInvAgreement, PTL

-----------------------------------------------------------------------------
(* The learner and the logs.  The learner counts reports; no proposal has  *)
(* more reports than voters, because two calls never share slot and number *)
(* in phase 2 and each of them asks an acceptor once.                      *)

\* Reports lag behind votes, by at least the one a call is about to make.
VoteUnreported(c) ==
    call[c].pc = "notify" =>
        counts[call[c].slot][call[c].id][call[c].val] <
            Cardinality(Voters(call[c].slot, call[c].id, call[c].val))

CountInv ==
    /\ \A s \in Slots, b \in IDs, v \in Values :
          counts[s][b][v] <= Cardinality(Voters(s, b, v))
    /\ \A c \in Calls : VoteUnreported(c)

\* A call has heard of no more acceptances than there are votes for its value.
VotesBehind(c) ==
    Phase2(c) =>
        call[c].got <= Cardinality(Voters(call[c].slot, call[c].id, call[c].val))

HeardVotesInv == \A c \in Calls : VotesBehind(c)

LearnInv == CountInv /\ LearnedIsChosen /\ HeardVotesInv /\ LoggedSlotDecided

LEMMA VotersGrow ==
    ASSUME NEW s, NEW b, NEW v, votes \subseteq votes'
    PROVE  /\ Voters(s, b, v) \in SUBSET Acceptors
           /\ Cardinality(Voters(s, b, v)) \in Nat /\ Cardinality(Voters(s, b, v)') \in Nat
           /\ Cardinality(Voters(s, b, v)) <= Cardinality(Voters(s, b, v)')
<1>1. Voters(s, b, v)' \in SUBSET Acceptors /\ Voters(s, b, v) \in SUBSET Voters(s, b, v)'
    BY DEF Voters
<1> QED BY <1>1, QuorumGrows, AcceptorsFinite

LEMMA ChosenStays ==
    ASSUME votes \subseteq votes', NEW s, NEW v, Chosen(s, v)
    PROVE  Chosen(s, v)'
<1>1. PICK b \in IDs : Majority(Cardinality(Voters(s, b, v)))
    BY DEF Chosen
<1>2. Majority(Cardinality(Voters(s, b, v)'))
    BY <1>1, VotersGrow, PeersType DEF Majority
<1> QED BY <1>2 DEF Chosen

LEMMA CountType ==
    ASSUME TypeInv, NEW s \in Slots, NEW b \in IDs, NEW v \in Values
    PROVE  counts[s][b][v] \in Nat
<1>1. counts[s][b][v] \in 0..(NumPeers \div 2 + 1)
    BY DEF TypeInv, TypeOK
<1> QED BY <1>1, PeersType

\* A step that reports nothing.
LEMMA SilentStep ==
    ASSUME TypeInv, LearnInv, votes \subseteq votes', UNCHANGED <<counts, learned>>,
           NEW c \in Calls, \A d \in Calls : d # c => call'[d] = call[d],
           VoteUnreported(c)', VotesBehind(c)'
    PROVE  /\ CountInv' /\ LearnedIsChosen' /\ HeardVotesInv'
           /\ UNCHANGED Log => LearnInv'
<1>1. ASSUME NEW s \in Slots, NEW b \in IDs, NEW v \in Values
      PROVE  counts'[s][b][v] <= Cardinality(Voters(s, b, v)')
    BY CountType, VotersGrow DEF LearnInv, CountInv
<1>2. ASSUME NEW d \in Calls, d # c
      PROVE  VoteUnreported(d)'
    <2> SUFFICES ASSUME call[d].pc = "notify" PROVE VoteUnreported(d)'
        BY <1>2 DEF VoteUnreported
    <2>1. PICK s \in Slots, b \in IDs, v \in Values :
             s = call[d].slot /\ b = call[d].id /\ v = call[d].val
        BY CallType DEF Phase2
    <2>2. counts[s][b][v] < Cardinality(Voters(s, b, v))
        BY <2>1 DEF LearnInv, CountInv, VoteUnreported
    <2>3. counts[s][b][v] < Cardinality(Voters(s, b, v)')
        BY <2>2, CountType, VotersGrow
    <2>4. call'[d].slot = s /\ call'[d].id = b /\ call'[d].val = v
        BY <1>2, <2>1
    <2> QED BY <2>3, <2>4 DEF VoteUnreported, Voters
<1>3. CountInv'
    BY <1>1, <1>2 DEF CountInv
<1>4. LearnedIsChosen'
    <2> SUFFICES ASSUME NEW s \in Slots, learned'[s] # NoValue
                 PROVE  Chosen(s, learned[s])'
        BY DEF LearnedIsChosen
    <2>1. PICK v : v = learned[s]
        OBVIOUS
    <2>2. Chosen(s, v)'
        BY <2>1, ChosenStays DEF LearnInv, LearnedIsChosen
    <2> QED BY <2>1, <2>2 DEF Chosen, Voters
<1>5. HeardVotesInv'
    <2> SUFFICES ASSUME NEW d \in Calls, d # c, Phase2(d) PROVE VotesBehind(d)'
        BY DEF HeardVotesInv, VotesBehind, Phase2
    <2>1. PICK s \in Slots, b \in IDs, v \in Values :
             s = call[d].slot /\ b = call[d].id /\ v = call[d].val
        BY CallType
    <2>2. call[d].got \in Nat
        BY CallType, PeersType DEF CallStates
    <2>3. call[d].got <= Cardinality(Voters(s, b, v))
        BY <2>1 DEF LearnInv, HeardVotesInv, VotesBehind
    <2>4. call[d].got <= Cardinality(Voters(s, b, v)')
        BY <2>2, <2>3, VotersGrow
    <2> QED BY <2>1, <2>4 DEF VotesBehind, Voters
<1>6. UNCHANGED Log => LoggedSlotDecided'
    <2> SUFFICES ASSUME UNCHANGED Log, NEW p \in Proposers, NEW s \in Slots,
                        Log[p][s] # NoValue
                 PROVE  \E v \in Values : Chosen(s, v)'
        BY DEF LoggedSlotDecided
    <2>1. PICK v \in Values : Chosen(s, v)
        BY DEF LearnInv, LoggedSlotDecided
    <2>2. Chosen(s, v)'
        BY <2>1, ChosenStays
    <2> QED BY <2>2
<1> QED BY <1>3, <1>4, <1>5, <1>6 DEF LearnInv

\* Phase 1, and the steps before it.
LEMMA EarlyLearn ==
    ASSUME TypeInv, LearnInv, NEW c \in Calls,
           \/ \E v \in Values : ProposeSlot(c, v)
           \/ TakeNumber(c) \/ Prepare(c)
    PROVE  LearnInv'
<1>1. UNCHANGED <<votes, counts, learned, Log>>
    BY DEF ProposeSlot, TakeNumber, Prepare
<1>2. /\ \A d \in Calls : d # c => call'[d] = call[d]
      /\ call'[c].pc \in {"number", "prepare"}
    <2>1. ASSUME NEW v \in Values, ProposeSlot(c, v) PROVE <1>2!:
        BY <2>1 DEF ProposeSlot, TypeInv, TypeOK, Nobody
    <2>2. CASE TakeNumber(c)
        BY <2>2 DEF TakeNumber, TypeInv, TypeOK, CallStates
    <2>3. CASE Prepare(c)
        BY <2>3, PrepareStep DEF Asked
    <2> QED BY <2>1, <2>2, <2>3
<1> QED BY <1>1, <1>2, SilentStep DEF Phase2, VoteUnreported, VotesBehind

LEMMA EndPrepareLearn ==
    ASSUME TypeInv, LearnInv, NEW c \in Calls, EndPrepare(c)
    PROVE  LearnInv'
<1>1. /\ UNCHANGED <<votes, counts, learned, Log>> /\ call[c].pc = "prepare"
      /\ \A d \in Calls : d # c => call'[d] = call[d]
    BY EndPrepareStep DEF EndPrepare
<1>2. CASE call'[c] = Nobody
    BY <1>1, <1>2, SilentStep DEF Phase2, Nobody, VoteUnreported, VotesBehind
<1>3. CASE call'[c].pc = "accept" /\ call'[c].got = 0
    <2>1. VoteUnreported(c)'
        BY <1>3 DEF VoteUnreported
    <2>2. PICK s, b, v : s = call'[c].slot /\ b = call'[c].id /\ v = call'[c].val
        OBVIOUS
    <2>3. VotesBehind(c)'
        <3>1. 0 <= Cardinality(Voters(s, b, v)')
            BY <1>1, VotersGrow
        <3> QED BY <1>3, <2>2, <3>1 DEF VotesBehind, Voters
    <2> QED BY <1>1, <2>1, <2>3, SilentStep
<1> QED BY <1>2, <1>3, EndPrepareStep

LEMMA AcceptLearn ==
    ASSUME TypeInv, NEW H \in SUBSET Promises, CoreInv(H), LearnInv,
           NEW c \in Calls, Accept(c)
    PROVE  LearnInv'
<1>1. PICK s \in Slots, b \in IDs, v \in Values, a \in Acceptors :
         s = call[c].slot /\ b = call[c].id /\ v = call[c].val /\ a = call[c].i
    BY CallType, AcceptCallStep DEF Phase2, AskedAccept
<1>2. /\ call[c].pc = "accept" /\ Phase2(c)
      /\ \A d \in Calls : d # c => call'[d] = call[d]
      /\ call'[c].slot = s /\ call'[c].id = b /\ call'[c].val = v
    BY <1>1, AcceptCallStep DEF AskedAccept, Phase2
<1>3. votes \subseteq votes' /\ UNCHANGED <<counts, learned, Log>>
    BY AcceptCallStep DEF Accept, VoteGiven
<1>4. counts[s][b][v] \in Nat /\ counts[s][b][v] <= Cardinality(Voters(s, b, v))
    BY CountType DEF LearnInv, CountInv
<1>5. CASE VoteUnheard(c)
    <2>1. VoteUnreported(c)'
        BY <1>5 DEF VoteUnheard, VoteUnreported
    <2>2. VotesBehind(c)'
        <3>1. call[c].got \in Nat /\ call'[c].got = call[c].got
            BY <1>5, CallType, PeersType DEF CallStates, VoteUnheard
        <3>2. call[c].got <= Cardinality(Voters(s, b, v))
            BY <1>1, <1>2 DEF LearnInv, HeardVotesInv, VotesBehind
        <3>3. call[c].got <= Cardinality(Voters(s, b, v)')
            BY <1>3, <3>1, <3>2, VotersGrow
        <3> QED BY <1>2, <3>1, <3>3 DEF VotesBehind, Voters
    <2> QED BY <1>2, <1>3, <2>1, <2>2, SilentStep
<1>6. CASE VoteGiven(c) /\ VoteHeard(c)
    <2>1. votes' = votes \cup {<<a, s, b, v>>}
        BY <1>1, <1>6 DEF VoteGiven
    <2>2. a \notin Voters(s, b, v)
        <3>1. a \in Int
            BY PeersType DEF Acceptors
        <3>2. <<a, s, b, v>> \in votes => a < a
            BY <1>1, <1>2 DEF CoreInv, AcceptOK
        <3> QED BY <3>1, <3>2 DEF Voters
    <2>3. Voters(s, b, v)' = Voters(s, b, v) \cup {a}
        BY <2>1 DEF Voters
    <2>4. IsFiniteSet(Voters(s, b, v)) /\ Cardinality(Voters(s, b, v)) \in Nat
        BY AcceptorsFinite DEF Voters
    <2>5. Cardinality(Voters(s, b, v)') = Cardinality(Voters(s, b, v)) + 1
        BY <2>2, <2>3, <2>4, FS_AddElement
    <2>6. counts[s][b][v] < Cardinality(Voters(s, b, v)')
        BY <1>4, <2>4, <2>5
    <2>7. VoteUnreported(c)'
        BY <1>2, <1>3, <2>6 DEF VoteUnreported, Voters
    <2>8. VotesBehind(c)'
        <3>1. call[c].got \in Nat /\ call'[c].got = call[c].got + 1
            BY <1>6, CallType, PeersType DEF CallStates, VoteHeard
        <3>2. call[c].got <= Cardinality(Voters(s, b, v))
            BY <1>1, <1>2 DEF LearnInv, HeardVotesInv, VotesBehind
        <3>3. call'[c].got <= Cardinality(Voters(s, b, v)')
            BY <2>4, <2>5, <3>1, <3>2
        <3> QED BY <1>2, <3>3 DEF VotesBehind, Voters
    <2> QED BY <1>2, <1>3, <2>7, <2>8, SilentStep
<1> QED BY <1>5, <1>6, AcceptCallStep

LEMMA NotifyLearnLearn ==
    ASSUME TypeInv, NEW H \in SUBSET Promises, CoreInv(H), LearnInv,
           NEW c \in Calls, NotifyLearn(c)
    PROVE  LearnInv'
<1>1. call[c].pc = "notify" /\ Phase2(c) /\ UNCHANGED <<votes, Log>>
    BY DEF NotifyLearn, Phase2
<1>2. PICK s \in Slots, b \in IDs, v \in Values :
         s = call[c].slot /\ b = call[c].id /\ v = call[c].val
    BY <1>1, CallType
<1>3. /\ call'[c] = [call[c] EXCEPT !.pc = "accept"]
      /\ \A d \in Calls : d # c => call'[d] = call[d]
    BY DEF NotifyLearn, TypeInv, TypeOK
<1>4. /\ call'[c].pc = "accept" /\ call'[c].slot = s /\ call'[c].id = b
      /\ call'[c].val = v /\ call'[c].got = call[c].got
    BY <1>2, <1>3, CallType DEF CallStates
<1>5. VoteUnreported(c)'
    BY <1>4 DEF VoteUnreported
<1>5a. VotesBehind(c)'
    BY <1>1, <1>2, <1>4 DEF LearnInv, HeardVotesInv, VotesBehind, Voters
<1>6. CASE UNCHANGED <<counts, learned>>
    BY <1>1, <1>3, <1>5, <1>5a, <1>6, SilentStep
<1>7. CASE learned[s] = NoValue /\ Observe(s, b, v)
    <2> DEFINE k == counts[s][b][v] + 1
    <2>1. /\ counts' = [counts EXCEPT ![s][b][v] = k]
          /\ learned' = [learned EXCEPT ![s] = IF Majority(k) THEN v ELSE learned[s]]
        BY <1>7 DEF Observe, TypeInv, TypeOK
    <2>2. counts[s][b][v] \in Nat /\ k \in Nat /\ Cardinality(Voters(s, b, v)) \in Nat
        BY <1>1, CountType, VotersGrow
    <2>3. k <= Cardinality(Voters(s, b, v))
        BY <1>1, <1>2, <2>2 DEF LearnInv, CountInv, VoteUnreported
    <2> HIDE DEF k
    <2>4. \A t \in Slots, d \in IDs, w \in Values :
             counts'[t][d][w] = IF t = s /\ d = b /\ w = v THEN k ELSE counts[t][d][w]
        <3>1. counts \in [Slots -> [IDs -> [Values -> 0..(NumPeers \div 2 + 1)]]]
            BY DEF TypeInv, TypeOK
        <3>2. counts' = [counts EXCEPT ![s] =
                           [counts[s] EXCEPT ![b] = [counts[s][b] EXCEPT ![v] = k]]]
            BY <2>1, <3>1
        <3> QED BY <3>1, <3>2
    <2>5. \A t \in Slots :
             learned'[t] = IF t = s /\ Majority(k) THEN v ELSE learned[t]
        BY <2>1 DEF TypeInv, TypeOK
    <2>6. \A d \in Calls : d # c /\ Phase2(d) /\ call[d].slot = s => call[d].id # b
        BY <1>1, <1>2, PhaseTwoUnique
    <2>7. \A t \in Slots, d \in IDs, w \in Values :
             counts'[t][d][w] <= Cardinality(Voters(t, d, w)')
        BY <1>1, <2>3, <2>4 DEF LearnInv, CountInv, Voters
    <2>8. ASSUME NEW d \in Calls, d # c
          PROVE  VoteUnreported(d)'
        <3> SUFFICES ASSUME call[d].pc = "notify" PROVE VoteUnreported(d)'
            BY <1>3, <2>8 DEF VoteUnreported
        <3>1. PICK t \in Slots, e \in IDs, w \in Values :
                 t = call[d].slot /\ e = call[d].id /\ w = call[d].val
            BY CallType DEF Phase2
        <3>2. counts[t][e][w] < Cardinality(Voters(t, e, w))
            BY <3>1 DEF LearnInv, CountInv, VoteUnreported
        <3>3. counts'[t][e][w] < Cardinality(Voters(t, e, w)')
            BY <1>1, <2>4, <2>6, <2>8, <3>1, <3>2 DEF Phase2, Voters
        <3> QED BY <1>3, <2>8, <3>1, <3>3 DEF VoteUnreported, Voters
    <2>9. CountInv'
        BY <1>5, <2>7, <2>8 DEF CountInv
    <2>10. LearnedIsChosen'
        <3> SUFFICES ASSUME NEW t \in Slots, learned'[t] # NoValue
                     PROVE  Chosen(t, learned[t])'
            BY DEF LearnedIsChosen
        <3>1. PICK w : w = learned'[t]
            OBVIOUS
        <3>2. CASE t = s /\ Majority(k)
            <4>1. Majority(Cardinality(Voters(s, b, v)))
                BY <2>2, <2>3, <3>2, PeersType DEF Majority
            <4>2. Chosen(s, v) /\ w = v
                BY <2>5, <3>1, <3>2, <4>1 DEF Chosen
            <4> QED BY <1>1, <3>1, <3>2, <4>2 DEF Chosen, Voters
        <3>3. CASE ~(t = s /\ Majority(k))
            <4>1. Chosen(t, w) /\ w = learned[t]
                BY <2>5, <3>1, <3>3 DEF LearnInv, LearnedIsChosen
            <4> QED BY <1>1, <3>1, <4>1 DEF Chosen, Voters
        <3> QED BY <3>2, <3>3
    <2>11. ASSUME NEW d \in Calls PROVE VotesBehind(d)'
        <3>1. CASE d # c
            BY <1>1, <1>3, <3>1 DEF LearnInv, HeardVotesInv, VotesBehind, Phase2, Voters
        <3> QED BY <1>5a, <3>1
    <2>12. LoggedSlotDecided'
        BY <1>1 DEF LearnInv, LoggedSlotDecided, Chosen, Voters
    <2> QED BY <2>9, <2>10, <2>11, <2>12 DEF LearnInv, HeardVotesInv
<1> QED BY <1>2, <1>6, <1>7 DEF NotifyLearn, Observe

LEMMA EndAcceptLearn ==
    ASSUME TypeInv, NEW H \in SUBSET Promises, CoreInv(H), LearnInv,
           NEW c \in Calls, EndAccept(c)
    PROVE  LearnInv'
<1>1. call'[c] = Nobody /\ \A d \in Calls : d # c => call'[d] = call[d]
    BY DEF EndAccept, TypeInv, TypeOK
<1>2. /\ UNCHANGED <<votes, counts, learned>> /\ call[c].pc = "accept" /\ Phase2(c)
    BY DEF EndAccept, Phase2
<1>3. VoteUnreported(c)' /\ VotesBehind(c)'
    BY <1>1 DEF VoteUnreported, VotesBehind, Phase2, Nobody
<1>4. CountInv' /\ LearnedIsChosen' /\ HeardVotesInv'
    BY <1>1, <1>2, <1>3, SilentStep
<1>5. LoggedSlotDecided'
    <2>1. PICK s \in Slots, b \in IDs, v \in Values :
             s = call[c].slot /\ b = call[c].id /\ v = call[c].val
        BY <1>2, CallType
    <2>2. CASE ~Majority(call[c].got)
        BY <1>2, <2>2 DEF EndAccept, LearnInv, LoggedSlotDecided, Chosen, Voters
    <2>3. CASE Majority(call[c].got)
        <3>1. call[c].got \in Nat /\ call[c].got <= Cardinality(Voters(s, b, v))
            BY <1>2, <2>1, CallType, PeersType
            DEF CallStates, LearnInv, HeardVotesInv, VotesBehind
        <3>2. Cardinality(Voters(s, b, v)) \in Nat
            BY <1>2, VotersGrow
        <3>3. Chosen(s, v)
            BY <2>3, <3>1, <3>2, PeersType DEF Majority, Chosen
        <3> DEFINE x == Recorded(Owner[c], s, call[c].value)
        <3>4. Log' = [Log EXCEPT ![Owner[c]][s] = x]
            BY <2>1, <2>3 DEF EndAccept
        <3> HIDE DEF x
        <3>5. \A p \in Proposers, t \in Slots :
                 Log'[p][t] = IF p = Owner[c] /\ t = s THEN x ELSE Log[p][t]
            BY <3>4, PaxosAssumption DEF TypeInv, TypeOK
        <3> SUFFICES ASSUME NEW p \in Proposers, NEW t \in Slots, Log'[p][t] # NoValue
                     PROVE  \E w \in Values : Chosen(t, w)'
            BY DEF LoggedSlotDecided
        <3>6. PICK w \in Values : Chosen(t, w)
            BY <3>3, <3>5 DEF LearnInv, LoggedSlotDecided
        <3> QED BY <1>2, <3>6 DEF Chosen, Voters
    <2> QED BY <2>2, <2>3
<1> QED BY <1>4, <1>5 DEF LearnInv

LEMMA NextLearnInv == PaxosInv /\ LearnInv /\ [Next]_vars => LearnInv'
<1> SUFFICES ASSUME PaxosInv, LearnInv, [Next]_vars PROVE LearnInv'
    OBVIOUS
<1>1. TypeInv
    BY DEF PaxosInv
<1>2. PICK H \in SUBSET Promises : CoreInv(H)
    BY DEF PaxosInv
<1>3. CASE UNCHANGED vars
    <2>1. CountInv'
        BY <1>3 DEF vars, LearnInv, CountInv, VoteUnreported, Voters
    <2>2. LearnedIsChosen' /\ LoggedSlotDecided'
        BY <1>3 DEF vars, LearnInv, LearnedIsChosen, LoggedSlotDecided, Chosen, Voters
    <2>3. HeardVotesInv'
        BY <1>3 DEF vars, LearnInv, HeardVotesInv, VotesBehind, Phase2, Voters
    <2> QED BY <2>1, <2>2, <2>3 DEF LearnInv
<1>4. CASE Next
    BY <1>1, <1>2, <1>4, EarlyLearn, EndPrepareLearn, AcceptLearn, NotifyLearnLearn,
       EndAcceptLearn DEF Next
<1> QED BY <1>3, <1>4

LEMMA InitLearnInv == Init => LearnInv
<1> SUFFICES ASSUME Init PROVE LearnInv
    OBVIOUS
<1>1. \A s \in Slots, b \in IDs, v \in Values :
         counts[s][b][v] <= Cardinality(Voters(s, b, v))
    <2> TAKE s \in Slots, b \in IDs, v \in Values
    <2>1. counts[s][b][v] = 0
        BY DEF Init
    <2>2. Cardinality(Voters(s, b, v)) = 0
        BY FS_EmptySet DEF Init, Voters
    <2> QED BY <2>1, <2>2
<1>2. \A c \in Calls : call[c].pc = "idle"
    BY DEF Init, Nobody
<1>3. LearnedIsChosen /\ LoggedSlotDecided
    BY DEF Init, LearnedIsChosen, LoggedSlotDecided
<1> QED BY <1>1, <1>2, <1>3
        DEF LearnInv, CountInv, VoteUnreported, HeardVotesInv, VotesBehind, Phase2

\* paxos.go: the protocol's invariant and the learner's.
THEOREM PaxosLearnInvariant == Spec => [](PaxosInv /\ LearnInv)
<1>1. Init => LearnInv
    BY InitLearnInv
<1>2. PaxosInv /\ LearnInv /\ [Next]_vars => LearnInv'
    BY NextLearnInv
<1> QED BY <1>1, <1>2, PaxosInvariant, PTL DEF Spec

\* Learner.Observe: whatever the learner has learned for a slot was accepted by
\* a majority of acceptors in one proposal, although it counts reports.
THEOREM PaxosLearned == Spec => []LearnedIsChosen
BY PaxosLearnInvariant, PTL DEF LearnInv

\* MultiPaxos.ProposeSlot: a node fills a slot of its log only when a value has
\* been chosen for the slot, whatever requests, answers and reports are lost.
\* (Which value it records is another matter: see LogIsChosen.)
THEOREM PaxosLoggedSlotDecided == Spec => []LoggedSlotDecided
BY PaxosLearnInvariant, PTL DEF LearnInv

\* paxos.go: types, the learner's counts included.
THEOREM PaxosTypeOK == Spec => []TypeOK
<1>1. TypeInv => TypeOK
    BY DEF TypeInv
<1> QED BY <1>1, PaxosTypes, PTL
=============================================================================
