-------------------------------- MODULE Raft --------------------------------
(***************************************************************************)
(* pkg/algorithms/consensus/raft/raft.go.  A node is its state under n.mu, *)
(* its run loop, and the goroutines it has started: one per RequestVote or *)
(* AppendEntries call.  A goroutine sends a request, the peer's handler    *)
(* runs, and some time later, under n.mu, the goroutine acts on the answer *)
(* (or on false, if the transport lost one of the two).  Nothing stops a   *)
(* goroutine of an old election or an old term.                            *)
(*                                                                         *)
(* Indexes count from one: an index is the code's index plus one, and      *)
(* next[n][p] is the number of entries n believes p to have.               *)
(***************************************************************************)
EXTENDS Integers, Sequences, FiniteSets, FiniteSetsExt

CONSTANTS
    Nodes,    \* a node and its peers
    Runners,  \* bound on the nodes whose election timer fires
    Nobody,   \* the empty votedFor
    MaxTerm,  \* bound on terms
    MaxLog,   \* bound on the length of a log
    MaxCalls, \* bound on AppendEntries calls a leader has out to one peer
    MaxElections, MaxSends, MaxLost  \* bounds on runCandidate calls, on
              \* replicateToFollowers calls, and on lost AppendEntries calls

ASSUME RaftAssumption ==
    /\ IsFiniteSet(Nodes) /\ Nobody \notin Nodes /\ Runners \subseteq Nodes
    /\ MaxTerm \in Nat /\ MaxLog \in Nat /\ MaxCalls \in Nat \ {0}
    /\ MaxElections \in Nat /\ MaxSends \in Nat /\ MaxLost \in Nat

VARIABLES
    state,        \* state[n]: "follower", "candidate", "leader"
    currentTerm,  \* currentTerm[n]
    votedFor,     \* votedFor[n]
    log,          \* log[n]: LogEntry: Term, Command
    commitIndex,  \* commitIndex[n]; outside n.mu lastApplied is the highest it has been
    nextIndex,    \* nextIndex[n][p]
    matchIndex,   \* matchIndex[n][p]
    loop,         \* loop[n]: where the run loop is
    proposing,    \* the nodes with a Propose between append and replication
    votes,        \* votes[n][r]: the votes variable of n's r-th runCandidate
    calls,        \* the RPC goroutines that have not ended
    spent,        \* how much of the three bounds has been used
    slips         \* history: what the code did that Raft would not do

node == <<state, currentTerm, votedFor>>
logs == <<log, commitIndex>>
index == <<nextIndex, matchIndex>>
vars == <<node, logs, index, loop, proposing, votes, calls, spent, slips>>

Peers(n) == Nodes \ {n}
Majority(k) == k > Cardinality(Nodes) \div 2
LastTerm(l) == IF l = <<>> THEN 0 ELSE l[Len(l)].term

Init ==
    /\ state = [n \in Nodes |-> "follower"]
    /\ currentTerm = [n \in Nodes |-> 0]
    /\ votedFor = [n \in Nodes |-> Nobody]
    /\ log = [n \in Nodes |-> <<>>]
    /\ commitIndex = [n \in Nodes |-> 0]
    /\ nextIndex = [n \in Nodes |-> [p \in Peers(n) |-> 0]]
    /\ matchIndex = [n \in Nodes |-> [p \in Peers(n) |-> 0]]
    /\ loop = [n \in Nodes |-> "follower"]
    /\ proposing = {}
    /\ votes = [n \in Nodes |-> <<>>]
    /\ calls = {}
    /\ spent = [elections |-> 0, sends |-> 0, lost |-> 0]
    /\ slips = {}

-----------------------------------------------------------------------------
(* The run loop                                                            *)

\* switch n.State(): the branch is taken on what the state was.
Dispatch(n) ==
    /\ loop[n] = "decide"
    /\ loop' = [loop EXCEPT ![n] = state[n]]
    /\ UNCHANGED <<node, logs, index, proposing, votes, calls, slips, spent>>

\* runFollower: the timer always fires; AppendEntries does not reset it.
FollowerTimeout(n) ==
    /\ loop[n] = "follower" /\ n \in Runners
    /\ spent.elections < MaxElections
    /\ state' = [state EXCEPT ![n] = "candidate"]
    /\ loop' = [loop EXCEPT ![n] = "decide"]
    /\ UNCHANGED <<currentTerm, votedFor, logs, index, proposing, votes, calls,
                   slips, spent>>

\* runCandidate: a new term, whatever the state has become since Dispatch, and
\* one RequestVote goroutine per peer.
RunCandidate(n) ==
    LET t == currentTerm[n] + 1
        r == Len(votes[n]) + 1
    IN
    /\ loop[n] = "candidate"
    /\ t <= MaxTerm
    /\ spent.elections < MaxElections
    /\ spent' = [spent EXCEPT !.elections = @ + 1]
    /\ currentTerm' = [currentTerm EXCEPT ![n] = t]
    /\ votedFor' = [votedFor EXCEPT ![n] = n]
    /\ votes' = [votes EXCEPT ![n] = Append(@, 1)]
    /\ calls' = calls \cup
          {[kind |-> "vote", from |-> n, to |-> p, term |-> t, round |-> r,
            last |-> Len(log[n]), lastTerm |-> LastTerm(log[n])] : p \in Peers(n)}
    /\ loop' = [loop EXCEPT ![n] = "voting"]
    /\ slips' = slips \cup IF state[n] = "leader" THEN {"usurped"} ELSE {}
    /\ UNCHANGED <<state, logs, index, proposing>>

\* runCandidate returns, on notifyCh or on its timer, to the switch.
CandidateWaitEnds(n) ==
    /\ loop[n] = "voting"
    /\ loop' = [loop EXCEPT ![n] = state[n]]
    /\ UNCHANGED <<node, logs, index, proposing, votes, calls, slips, spent>>

\* One AppendEntries goroutine per peer, with the log and the indexes as they
\* are now.
Replicate(n, by) ==
    LET l == log[n] IN
    {[kind |-> "append", from |-> n, to |-> p, term |-> currentTerm[n], by |-> by,
      prev |-> nextIndex[n][p],
      prevTerm |-> IF nextIndex[n][p] \in 1..Len(l) THEN l[nextIndex[n][p]].term ELSE 0,
      entries |-> SubSeq(l, nextIndex[n][p] + 1, Len(l)),
      commit |-> commitIndex[n]] : p \in Peers(n)}

Appends(n, p) ==
    {c \in calls : c.from = n /\ c.to = p /\ c.kind \in {"append", "appended"}}

\* The bound on replicateToFollowers calls.
CountSend ==
    /\ spent.sends < MaxSends
    /\ spent' = [spent EXCEPT !.sends = @ + 1]

\* replicateToFollowers, with the bound on goroutines.
Send(n, by) ==
    /\ \A p \in Peers(n) : Cardinality(Appends(n, p)) < MaxCalls
    /\ calls' = calls \cup Replicate(n, by)

\* runLeader's ticker: leave if no longer leader, else replicate and wait for
\* the answers before the next tick.
LeaderTick(n) ==
    /\ loop[n] = "leader"
    /\ \A p \in Peers(n) : \A c \in Appends(n, p) : c.by # "tick"
    /\ \/ /\ state[n] # "leader"
          /\ loop' = [loop EXCEPT ![n] = state[n]]
          /\ UNCHANGED <<calls, spent>>
       \/ state[n] = "leader" /\ CountSend /\ Send(n, "tick") /\ UNCHANGED loop
    /\ UNCHANGED <<node, logs, index, proposing, votes, slips>>

\* Propose: append to the leader's log and unlock.  Commands are told apart by
\* the node that was asked and the place it gave them.  Bound: one Propose of a
\* node at a time is between its append and its replication.
Propose(n) ==
    /\ state[n] = "leader" /\ n \notin proposing
    /\ Len(log[n]) < MaxLog /\ CountSend
    /\ log' = [log EXCEPT ![n] = Append(@,
                  [term |-> currentTerm[n], cmd |-> <<n, Len(@) + 1>>])]
    /\ proposing' = proposing \cup {n}
    /\ UNCHANGED <<node, commitIndex, index, loop, votes, calls, slips>>

\* Its replicateToFollowers, which looks at the state again.
ProposeReplicates(n) ==
    /\ n \in proposing
    /\ proposing' = proposing \ {n}
    /\ \/ state[n] # "leader" /\ UNCHANGED calls
       \/ state[n] = "leader" /\ Send(n, "propose")
    /\ UNCHANGED <<node, logs, index, loop, votes, slips, spent>>

-----------------------------------------------------------------------------
(* Requests                                                                *)

\* A HandleRequestVote that does not look at the logs.
UpToDateAlways(n, c) == TRUE

\* HandleRequestVote's upToDate.
UpToDate(n, c) ==
    \/ c.lastTerm > LastTerm(log[n])
    \/ c.lastTerm = LastTerm(log[n]) /\ c.last >= Len(log[n])

\* A HandleRequestVote that votes again for any candidate of the term.
GrantsTwice(n, c, voted) == UpToDate(n, c)

\* The vote goes to c's candidate.
Grants(n, c, voted) == voted \in {Nobody, c.from} /\ UpToDate(n, c)

\* HandleRequestVote.  A refusal in no higher term ends the goroutine without
\* any effect.
HandleRequestVote(c) ==
    LET n == c.to
        newer == c.term > currentTerm[n]
        voted == IF newer THEN Nobody ELSE votedFor[n]
        granted == c.term >= currentTerm[n] /\ Grants(n, c, voted)
        answer == IF granted
                  THEN [kind |-> "granted", from |-> c.from, to |-> n,
                        term |-> c.term, round |-> c.round]
                  ELSE [kind |-> "refused", from |-> c.from, to |-> n,
                        t |-> currentTerm[n]]
    IN
    /\ c.kind = "vote"
    /\ currentTerm' = [currentTerm EXCEPT ![n] = IF newer THEN c.term ELSE @]
    /\ state' = [state EXCEPT ![n] = IF newer THEN "follower" ELSE @]
    /\ votedFor' = [votedFor EXCEPT ![n] = IF granted THEN c.from ELSE voted]
    /\ calls' = (calls \ {c}) \cup
          IF granted \/ currentTerm[n] > c.term THEN {answer} ELSE {}
    /\ UNCHANGED <<logs, index, loop, proposing, votes, slips, spent>>

\* A merge that appends all it is sent, also what it has already.
MergedAgain(l, prev, entries) == l \o entries

\* The loop over the entries: the first one that is missing or has another
\* term replaces the rest of the log.
Merged(l, prev, entries) ==
    LET new == {i \in 1..Len(entries) :
                   \/ prev + i > Len(l)
                   \/ l[prev + i].term # entries[i].term}
    IN IF new = {} THEN l
       ELSE SubSeq(l, 1, prev + Min(new) - 1)
              \o SubSeq(entries, Min(new), Len(entries))

\* The prev-log check.
Consistent(l, prev, prevTerm) ==
    prev = 0 \/ (prev <= Len(l) /\ l[prev].term = prevTerm)

\* HandleAppendEntries, with its two refusals.
HandleAppendEntries(c) ==
    LET n == c.to
        stale == c.term < currentTerm[n]
        ok == ~stale /\ Consistent(log[n], c.prev, c.prevTerm)
        l == IF ok THEN Merged(log[n], c.prev, c.entries) ELSE log[n]
        last == Min({c.commit, Len(l)})
    IN
    /\ c.kind = "append"
    /\ currentTerm' = [currentTerm EXCEPT ![n] = Max({@, c.term})]
    /\ votedFor' = [votedFor EXCEPT ![n] =
                      IF c.term > currentTerm[n] THEN Nobody ELSE @]
    /\ state' = [state EXCEPT ![n] = IF stale THEN @ ELSE "follower"]
    /\ log' = [log EXCEPT ![n] = l]
    /\ commitIndex' = [commitIndex EXCEPT ![n] =
                         IF ok /\ c.commit > @ THEN last ELSE @]
    /\ calls' = (calls \ {c}) \cup
          {[kind |-> "appended", from |-> c.from, to |-> n, term |-> c.term,
            by |-> c.by, ok |-> ok, t |-> currentTerm'[n],
            upTo |-> IF ok THEN c.prev + Len(c.entries) ELSE 0]}
    /\ UNCHANGED <<index, loop, proposing, votes, slips, spent>>

-----------------------------------------------------------------------------
(* Answers                                                                 *)

\* A vote is counted for the election that asked for it; with a majority the
\* node is leader, if it is still a candidate of that term.
VoteGranted(c) ==
    LET n == c.from
        k == votes[n][c.round] + 1
        wins == Majority(k) /\ state[n] = "candidate" /\ currentTerm[n] = c.term
    IN
    /\ c.kind = "granted"
    /\ votes' = [votes EXCEPT ![n][c.round] = k]
    /\ state' = [state EXCEPT ![n] = IF wins THEN "leader" ELSE @]
    /\ nextIndex' = IF wins THEN [nextIndex EXCEPT ![n] = [p \in Peers(n) |-> Len(log[n])]]
                    ELSE nextIndex
    /\ matchIndex' = IF wins THEN [matchIndex EXCEPT ![n] = [p \in Peers(n) |-> 0]]
                     ELSE matchIndex
    /\ calls' = calls \ {c}
    /\ UNCHANGED <<currentTerm, votedFor, logs, loop, proposing, slips, spent>>

\* A refusal with a term above the election's: the node takes that term and
\* forgets its vote, without a look at its present term.
VoteRefused(c) ==
    LET n == c.from IN
    /\ c.kind = "refused"
    /\ state' = [state EXCEPT ![n] = "follower"]
    /\ currentTerm' = [currentTerm EXCEPT ![n] = c.t]
    /\ votedFor' = [votedFor EXCEPT ![n] = Nobody]
    /\ calls' = calls \ {c}
    /\ slips' = slips \cup IF c.t <= currentTerm[n] THEN {"forgot"} ELSE {}
    /\ UNCHANGED <<logs, index, loop, proposing, votes, spent>>

\* advanceCommitLocked's candidates for the new commit index.
Committable(n, match) ==
    {i \in commitIndex[n] + 1 .. Len(log[n]) :
        /\ log[n][i].term = currentTerm[n]
        /\ Majority(1 + Cardinality({p \in Peers(n) : match[p] >= i}))}

\* A step back that goes below the first entry.
StepBackAlways(i) == i - 1

\* nextIndex after a refusal.
StepBack(i) == IF i > 0 THEN i - 1 ELSE i

\* An answer to AppendEntries: step down, ignore it, take the peer to have the
\* whole present log, or go one entry back.
Appended(c) ==
    LET n == c.from
        p == c.to
        len == Len(log[n])
        match == [matchIndex[n] EXCEPT ![p] = len]
        new == Committable(n, match)
        current == state[n] = "leader" /\ currentTerm[n] = c.term
    IN
    /\ c.kind = "appended"
    /\ calls' = calls \ {c}
    /\ \/ /\ c.t > currentTerm[n]
          /\ state' = [state EXCEPT ![n] = "follower"]
          /\ currentTerm' = [currentTerm EXCEPT ![n] = c.t]
          /\ votedFor' = [votedFor EXCEPT ![n] = Nobody]
          /\ UNCHANGED <<commitIndex, index, slips>>
       \/ /\ c.t <= currentTerm[n] /\ ~current
          /\ UNCHANGED <<node, commitIndex, index, slips>>
       \/ /\ c.t <= currentTerm[n] /\ current /\ c.ok
          /\ nextIndex' = [nextIndex EXCEPT ![n][p] = len]
          /\ matchIndex' = [matchIndex EXCEPT ![n] = match]
          /\ commitIndex' = [commitIndex EXCEPT ![n] = IF new = {} THEN @ ELSE Max(new)]
          /\ slips' = slips \cup IF c.upTo < len THEN {"overclaimed"} ELSE {}
          /\ UNCHANGED node
       \/ /\ c.t <= currentTerm[n] /\ current /\ ~c.ok
          /\ nextIndex' = [nextIndex EXCEPT ![n][p] = StepBack(@)]
          /\ UNCHANGED <<node, commitIndex, matchIndex, slips>>
    /\ UNCHANGED <<log, loop, proposing, votes, spent>>

\* The transport loses a request or an answer and returns false, at once.  For
\* a vote that is as good as a goroutine that does not go on.  Abstraction: a
\* request that was reported lost does not arrive later.
LoseAppend(c) ==
    LET n == c.from IN
    /\ c.kind \in {"append", "appended"}
    /\ spent.lost < MaxLost
    /\ spent' = [spent EXCEPT !.lost = @ + 1]
    /\ calls' = calls \ {c}
    /\ nextIndex' = [nextIndex EXCEPT ![n][c.to] =
          IF state[n] = "leader" /\ currentTerm[n] = c.term THEN StepBack(@) ELSE @]
    /\ UNCHANGED <<node, logs, matchIndex, loop, proposing, votes, slips>>

Next ==
    \/ \E n \in Nodes :
          \/ Dispatch(n) \/ FollowerTimeout(n) \/ RunCandidate(n)
          \/ CandidateWaitEnds(n) \/ LeaderTick(n)
          \/ Propose(n) \/ ProposeReplicates(n)
    \/ \E c \in calls :
          \/ HandleRequestVote(c) \/ HandleAppendEntries(c)
          \/ LoseAppend(c)
          \/ VoteGranted(c) \/ VoteRefused(c) \/ Appended(c)

Spec == Init /\ [][Next]_vars

-----------------------------------------------------------------------------
Entries == [term : 1..MaxTerm, cmd : Nodes \X (1..MaxLog)]

\* Types; no election counts more votes than there are nodes, and a leader never
\* believes a peer to have more entries than it has itself.
TypeOK ==
    /\ state \in [Nodes -> {"follower", "candidate", "leader"}]
    /\ currentTerm \in [Nodes -> 0..MaxTerm]
    /\ votedFor \in [Nodes -> Nodes \cup {Nobody}]
    /\ loop \in [Nodes -> {"decide", "follower", "candidate", "voting", "leader"}]
    /\ proposing \subseteq Nodes
    /\ slips \subseteq {"usurped", "forgot", "overclaimed"}
    /\ \A n \in Nodes :
          /\ log[n] \in Seq(Entries) /\ Len(log[n]) <= MaxLog
          /\ commitIndex[n] \in 0..MaxLog
          /\ votes[n] \in Seq(1..Cardinality(Nodes))
          /\ nextIndex[n] \in [Peers(n) -> 0..MaxLog]
          /\ matchIndex[n] \in [Peers(n) -> 0..MaxLog]
          /\ state[n] = "leader" => \A p \in Peers(n) : nextIndex[n][p] <= Len(log[n])

\* One leader per term, as long as no node has forgotten a vote (a late refusal
\* applied after its term, raft.go:322-326) and none has campaigned as a leader
\* (the majority of an earlier election arrived between State() and
\* runCandidate's lock): these two are the only holes.
OneLeaderPerTerm ==
    slips \cap {"forgot", "usurped"} = {} =>
        \A m, n \in Nodes :
            /\ state[m] = "leader" /\ state[n] = "leader"
            /\ currentTerm[m] = currentTerm[n]
            => m = n

\* The logs agree up to any entry that has the same term in both, in spite of
\* lost, late and reordered AppendEntries calls of several leaders.
LogMatching ==
    slips \cap {"forgot", "usurped"} = {} =>
        \A m, n \in Nodes : \A i \in 1..Min({Len(log[m]), Len(log[n])}) :
            log[m][i].term = log[n][i].term =>
                SubSeq(log[m], 1, i) = SubSeq(log[n], 1, i)

\* What one node has applied stays in its log, and no other node applies anything
\* else at that index, when, besides, no leader has taken an acknowledgement for
\* more than the call carried (raft.go:415).
AppliedAgree ==
    slips = {} =>
        /\ \A n \in Nodes : commitIndex[n] <= Len(log[n])
        /\ \A m, n \in Nodes : \A i \in 1..Min({commitIndex[m], commitIndex[n]}) :
            log[m][i] = log[n][i]

\* "Leaders advance commitIndex when a majority matches" (raft/doc.go): at the
\* moment a leader advances, a majority has the entry.
CommitsWhatMatches ==
    [][\A n \in Nodes :
          state[n] = "leader" /\ commitIndex'[n] > commitIndex[n] =>
              Majority(Cardinality({m \in Nodes :
                  /\ Len(log[m]) >= commitIndex'[n]
                  /\ log[m][commitIndex'[n]] = log[n][commitIndex'[n]]}))]_vars
=============================================================================
