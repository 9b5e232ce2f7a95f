----------------------------- MODULE RaftProofs -----------------------------
(***************************************************************************)
(* Raft for any number of nodes, terms, calls and losses: the types, one   *)
(* leader per term and the log matching property, as long as the code has  *)
(* made none of its two slips in elections, and the agreement on what is   *)
(* applied, as long as it has not made the third one either.               *)
(*                                                                         *)
(* The state forgets what the argument is about: who was counted in which  *)
(* election, for whom a node voted in an earlier term, who has led, which  *)
(* logs there have been, who has had which entry when its term was still   *)
(* the node's own.  The invariant says that there are such records,        *)
(*   E: <<n, r, t>>, the r-th runCandidate of n was for term t             *)
(*   H: <<n, r, p>>, it has counted the vote of p                          *)
(*   V: <<p, n, t>>, p has voted for n in term t                           *)
(*   L: <<n, t>>,    n has led term t                                      *)
(*   A: the logs that the nodes have had                                   *)
(*   K: <<p, t, i>>, p has had in its term t an entry of term t at i,      *)
(* that agree with each other and with the state.                          *)
(***************************************************************************)
EXTENDS Raft, FiniteSetTheorems, SequenceTheorems, TLAPS

-----------------------------------------------------------------------------
(* Types                                                                   *)

VoteCalls == [kind : {"vote"}, from : Nodes, to : Nodes, term : 1..MaxTerm,
              round : Nat, last : Nat, lastTerm : Nat]
GrantedCalls == [kind : {"granted"}, from : Nodes, to : Nodes, term : 1..MaxTerm,
                 round : Nat]
RefusedCalls == [kind : {"refused"}, from : Nodes, to : Nodes, t : 0..MaxTerm]
AppendCalls == [kind : {"append"}, from : Nodes, to : Nodes, term : 1..MaxTerm,
                by : {"tick", "propose"}, prev : 0..MaxLog, prevTerm : 0..MaxTerm,
                entries : Seq(Entries), commit : 0..MaxLog]
AppendedCalls == [kind : {"appended"}, from : Nodes, to : Nodes, term : 1..MaxTerm,
                  by : {"tick", "propose"}, ok : BOOLEAN, t : 0..MaxTerm, upTo : Nat]

\* A goroutine and the call it makes or has made.
CallTypes ==
    \A c \in calls :
        /\ \/ c \in VoteCalls \/ c \in GrantedCalls \/ c \in RefusedCalls
           \/ c \in AppendCalls \/ c \in AppendedCalls
        /\ c.to # c.from
        /\ c.kind = "append" => c.prev + Len(c.entries) <= MaxLog

NodeTypes ==
    /\ state \in [Nodes -> {"follower", "candidate", "leader"}]
    /\ currentTerm \in [Nodes -> 0..MaxTerm]
    /\ votedFor \in [Nodes -> Nodes \cup {Nobody}]
    /\ loop \in [Nodes -> {"decide", "follower", "candidate", "voting", "leader"}]
    /\ proposing \subseteq Nodes
    /\ slips \subseteq {"usurped", "forgot", "overclaimed"}
    /\ votes \in [Nodes -> Seq(Nat \ {0})]

LogTypes ==
    /\ log \in [Nodes -> Seq(Entries)]
    /\ \A n \in Nodes : Len(log[n]) <= MaxLog
    /\ commitIndex \in [Nodes -> 0..MaxLog]

IndexTypes ==
    /\ DOMAIN nextIndex = Nodes /\ DOMAIN matchIndex = Nodes
    /\ \A n \in Nodes : /\ nextIndex[n] \in [Peers(n) -> 0..MaxLog]
                        /\ matchIndex[n] \in [Peers(n) -> 0..MaxLog]

\* The run loop is in runFollower as a follower only, and a leader has a term
\* and does not believe a peer to have more than it has itself.
Leading ==
    \A n \in Nodes :
        /\ loop[n] = "follower" => state[n] = "follower"
        /\ loop[n] = "leader" => state[n] # "candidate"
        /\ state[n] = "leader" =>
              /\ currentTerm[n] >= 1
              /\ \A p \in Peers(n) : nextIndex[n][p] <= Len(log[n])

Types == NodeTypes /\ LogTypes /\ IndexTypes /\ CallTypes /\ Leading

-----------------------------------------------------------------------------
(* Votes                                                                   *)

Voting(c) == c.kind = "vote" \/ c.kind = "granted"
Replicating(c) == c.kind = "append" \/ c.kind = "appended"

Voters(H, n, r) == {p \in Nodes : <<n, r, p>> \in H}

\* An election has counted each of its voters once, and a goroutine that has
\* still to be counted is the only one of its peer.
Counting(H) ==
    /\ \A n \in Nodes : \A r \in 1..Len(votes[n]) :
          votes[n][r] = Cardinality(Voters(H, n, r))
    /\ \A n, p \in Nodes : \A r \in Nat : <<n, r, p>> \in H => r \in 1..Len(votes[n])
    /\ \A c \in calls : Voting(c) =>
          /\ c.round \in 1..Len(votes[c.from])
          /\ <<c.from, c.round, c.to>> \notin H
    /\ \A c, d \in calls :
          /\ Voting(c) /\ Voting(d)
          /\ c.from = d.from /\ c.to = d.to /\ c.round = d.round
          => c = d

\* An election is for the term its calls carry.
Rounds(E) ==
    /\ \A n \in Nodes : \A r, t \in Nat : <<n, r, t>> \in E => r \in 1..Len(votes[n])
    /\ \A c \in calls : Voting(c) =>
          \A t \in Nat : <<c.from, c.round, t>> \in E <=> t = c.term

\* A node votes never in a term to come, votedFor is its vote in the present
\* one, and a granted call has a vote.
VotesGiven(V) ==
    /\ \A p, n \in Nodes : \A t \in Nat : <<p, n, t>> \in V =>
          t <= currentTerm[p] /\ (t = currentTerm[p] => votedFor[p] = n)
    /\ \A c \in calls : c.kind = "granted" => <<c.to, c.from, c.term>> \in V

\* Elections count votes that were given, and a node gives one vote in a term.
Ballots(E, H, V) ==
    /\ \A n, p \in Nodes : \A r, t \in Nat :
          <<n, r, t>> \in E /\ <<n, r, p>> \in H => <<p, n, t>> \in V
    /\ \A p, m, n \in Nodes : \A t \in Nat :
          <<p, m, t>> \in V /\ <<p, n, t>> \in V => m = n

\* An election of n for term t has counted a majority.
Elected(E, H, n, t) ==
    \E r \in Nat : <<n, r, t>> \in E /\ Majority(Cardinality(Voters(H, n, r)))

\* Whoever has led a term was elected for it, and leads as long as the term is
\* its present one; only such nodes replicate.
Led(E, H, L) ==
    /\ \A n \in Nodes : \A t \in Nat : <<n, t>> \in L =>
          /\ Elected(E, H, n, t)
          /\ t <= currentTerm[n]
          /\ t = currentTerm[n] => state[n] = "leader"
    /\ \A n \in Nodes : state[n] = "leader" => <<n, currentTerm[n]>> \in L
    /\ \A c \in calls : Replicating(c) => <<c.from, c.term>> \in L

-----------------------------------------------------------------------------
(* Logs                                                                    *)

\* Two logs agree up to any index at which they have the same term.
Match(s, u) ==
    \A i \in 1..Len(s) : i <= Len(u) /\ s[i].term = u[i].term =>
        \A j \in 1..i : s[j] = u[j]

\* A call carries the end of the log s, and the term before it.
Carries(c, s) ==
    /\ Len(s) = c.prev + Len(c.entries)
    /\ c.prev > 0 => s[c.prev].term = c.prevTerm
    /\ \A i \in 1..Len(c.entries) : c.entries[i] = s[c.prev + i]

\* All logs there have been match, their terms were led, a leader has every
\* index at which its term was ever written, and calls carry such logs.
LogHistory(L, A) ==
    /\ A \subseteq Seq(Entries) /\ \A n \in Nodes : log[n] \in A
    /\ \A s, u \in A : Match(s, u)
    /\ \A s \in A : \A i \in 1..Len(s) : \E n \in Nodes : <<n, s[i].term>> \in L
    /\ \A n \in Nodes : state[n] = "leader" =>
          \A s \in A : \A i \in 1..Len(s) :
              s[i].term = currentTerm[n] => i <= Len(log[n])
    /\ \A c \in calls : c.kind = "append" => \E s \in A : Carries(c, s)

NoSlip == "forgot" \notin slips /\ "usurped" \notin slips

Records(E, H, V, L, A) ==
    /\ Counting(H)
    /\ NoSlip => /\ Rounds(E) /\ VotesGiven(V) /\ Ballots(E, H, V) /\ Led(E, H, L)
                 /\ LogHistory(L, A)

-----------------------------------------------------------------------------
(* Entries that count                                                      *)

\* The log s has an entry of term t at index i; some log has had one.
Has(s, i, t) == i \in 1..Len(s) /\ s[i].term = t
Written(A, i, t) == \E s \in A : Has(s, i, t)

\* Every node of a majority has had the entry in its own term; or it may still
\* come to have it, since the term is not over for it.
Chosen(K, i, t) ==
    \E Q \in SUBSET Nodes :
        Majority(Cardinality(Q)) /\ \A q \in Q : <<q, t, i>> \in K
Choosable(K, i, t) ==
    \E Q \in SUBSET Nodes :
        /\ Majority(Cardinality(Q))
        /\ \A q \in Q : currentTerm[q] <= t \/ <<q, t, i>> \in K

\* The log s has all the entries of terms before w that may be chosen.
Complete(A, K, s, w) ==
    \A t, i \in Nat : t < w /\ Written(A, i, t) /\ Choosable(K, i, t) => Has(s, i, t)

\* K holds what the nodes have in their present terms, and what may be chosen
\* of it they have not lost.
EntriesHad(A, K) ==
    /\ \A q \in Nodes : \A t, i \in Nat : <<q, t, i>> \in K =>
          /\ t <= currentTerm[q] /\ Written(A, i, t)
          /\ Choosable(K, i, t) => Has(log[q], i, t)
    /\ \A q \in Nodes : \A i \in Nat :
          Has(log[q], i, currentTerm[q]) => <<q, currentTerm[q], i>> \in K

\* Terms never fall along a log nor exceed the node's, and a log has all that
\* was written in a term up to its last entry of that term.
LogOrder(A) ==
    /\ \A s \in A : \A i, j \in 1..Len(s) : i <= j => s[i].term <= s[j].term
    /\ \A n \in Nodes : \A i \in 1..Len(log[n]) : log[n][i].term <= currentTerm[n]
    /\ \A s \in A : \A i, j, t \in Nat :
          Has(s, j, t) /\ Written(A, i, t) /\ i <= j => Has(s, i, t)

\* Below an entry a log has all the entries of earlier terms that may be chosen.
LogsComplete(A, K) ==
    \A s \in A : \A j \in 1..Len(s) : \A t, i \in Nat :
        t < s[j].term /\ Written(A, i, t) /\ Choosable(K, i, t) => Has(s, i, t) /\ i < j

\* A leader has what was written in its term and all that may be chosen of
\* earlier ones.
LeaderLog(A, K, n) ==
    /\ \A i \in Nat : Written(A, i, currentTerm[n]) => Has(log[n], i, currentTerm[n])
    /\ Complete(A, K, log[n], currentTerm[n])

\* What it takes a peer to have, the peer has had in this term.
LeaderMatch(K, n) ==
    \A p \in Peers(n) :
        /\ matchIndex[n][p] <= Len(log[n])
        /\ \A i \in 1..matchIndex[n][p] :
              Has(log[n], i, currentTerm[n]) => <<p, currentTerm[n], i>> \in K

\* The first k entries of s are below a chosen one.
Committed(K, s, k) ==
    k = 0 \/ \E i, t \in Nat : k <= i /\ Has(s, i, t) /\ Chosen(K, i, t)

InOffice(c) == state[c.from] = "leader" /\ currentTerm[c.from] = c.term

\* The log that a call carries is one of its leader in its term.
LeadersLog(A, K, c, s) ==
    /\ Carries(c, s) /\ Complete(A, K, s, c.term) /\ Committed(K, s, c.commit)
    /\ \A i \in 1..Len(s) : s[i].term <= c.term
    /\ \A u \in A : \A i \in Nat : Has(u, i, c.term) =>
          \A j \in 1..i : j <= Len(s) => u[j] = s[j]
    /\ InOffice(c) => /\ Len(s) <= Len(log[c.from])
                      /\ \A j \in 1..Len(s) : s[j] = log[c.from][j]

\* An acknowledgement is for entries the peer has had.
Acknowledges(K, c) ==
    InOffice(c) /\ c.ok =>
        /\ c.upTo <= Len(log[c.from])
        /\ \A i \in 1..c.upTo : Has(log[c.from], i, c.term) => <<c.to, c.term, i>> \in K

Unled(L, t) == \A m \in Nodes : <<m, t>> \notin L

\* As long as nobody leads the term, a call for votes tells the candidate's log.
AsksForVote(L, c) ==
    /\ c.term <= currentTerm[c.from]
    /\ c.term = currentTerm[c.from] /\ Unled(L, c.term) =>
          c.last = Len(log[c.from]) /\ c.lastTerm = LastTerm(log[c.from])

\* ... and it has all that may be chosen of what its voter has had.
VoteFor(L, K, q, n, w) ==
    /\ w <= currentTerm[n]
    /\ w = currentTerm[n] /\ Unled(L, w) =>
          \A t, i \in Nat :
              t < w /\ <<q, t, i>> \in K /\ Choosable(K, i, t) => Has(log[n], i, t)

CommitRecords(V, L, A, K) ==
    /\ EntriesHad(A, K) /\ LogOrder(A) /\ LogsComplete(A, K)
    /\ \A n \in Nodes :
          /\ state[n] = "leader" => LeaderLog(A, K, n) /\ LeaderMatch(K, n)
          /\ Committed(K, log[n], commitIndex[n])
    /\ \A c \in calls :
          /\ c.kind = "append" => \E s \in A : LeadersLog(A, K, c, s)
          /\ c.kind = "appended" => Acknowledges(K, c)
          /\ c.kind = "vote" => AsksForVote(L, c)
    /\ \A q, n \in Nodes : \A w \in Nat : <<q, n, w>> \in V => VoteFor(L, K, q, n, w)

AllRecords(E, H, V, L, A, K) ==
    Records(E, H, V, L, A) /\ (slips = {} => CommitRecords(V, L, A, K))

RaftInv == Types /\ \E E, H, V, L, A, K : AllRecords(E, H, V, L, A, K)

-----------------------------------------------------------------------------
(* Least and greatest elements, parts of logs                              *)

LEMMA LeastNumber ==
    ASSUME NEW S \in SUBSET Nat, S # {}
    PROVE  Min(S) \in S /\ \A y \in S : Min(S) <= y
<1>1. PICK x \in S : \A y \in S : ~(<<y, x>> \in OpToRel(<, Nat))
    BY NatLessThanWellFounded, WFMin
<1>2. \A y \in S : ~(y < x)
    BY <1>1 DEF OpToRel
<1>3. \A y \in S : x <= y
    BY <1>2
<1> QED BY <1>3 DEF Min

LEMMA GreatestNumber ==
    ASSUME NEW k \in Nat, NEW S \in SUBSET (0..k), S # {}
    PROVE  Max(S) \in S /\ \A y \in S : Max(S) >= y
<1> DEFINE D == {d \in Nat : \E x \in S : d = k - x}
<1>1. D \in SUBSET Nat /\ D # {}
    <2>1. PICK x \in S : TRUE
        OBVIOUS
    <2>2. k - x \in D
        BY <2>1
    <2> QED BY <2>2
<1>2. Min(D) \in D /\ \A y \in D : Min(D) <= y
    BY <1>1, LeastNumber
<1>3. PICK x \in S : Min(D) = k - x
    BY <1>2
<1>4. \A y \in S : k - y \in D
    OBVIOUS
<1>5. \A y \in S : x >= y
    <2> TAKE y \in S
    <2>1. k - x <= k - y
        BY <1>2, <1>3, <1>4
    <2> QED BY <2>1
<1> QED BY <1>5 DEF Max

LEMMA MinOfTwo ==
    ASSUME NEW a \in Nat, NEW b \in Nat
    PROVE  Min({a, b}) = IF a <= b THEN a ELSE b
<1>1. Min({a, b}) \in {a, b} /\ \A y \in {a, b} : Min({a, b}) <= y
    BY LeastNumber
<1> QED BY <1>1

LEMMA MaxOfTwo ==
    ASSUME NEW a \in Nat, NEW b \in Nat
    PROVE  Max({a, b}) = IF a >= b THEN a ELSE b
<1>1. \E x \in {a, b} : \A y \in {a, b} : x >= y
    OBVIOUS
<1>2. Max({a, b}) \in {a, b} /\ \A y \in {a, b} : Max({a, b}) >= y
    BY <1>1 DEF Max
<1> QED BY <1>2

LEMMA SmallerSeq ==
    ASSUME NEW S, NEW T, NEW s \in Seq(S), \A i \in 1..Len(s) : s[i] \in T
    PROVE  s \in Seq(T)
<1>1. s \in [1..Len(s) -> T] /\ Len(s) \in Nat
    OBVIOUS
<1> QED BY <1>1, SeqDef

\* What replicateToFollowers sends, from place k + 1 on.
LEMMA RestOfLog ==
    ASSUME NEW S, NEW l \in Seq(S), NEW k \in Nat
    PROVE  /\ SubSeq(l, k + 1, Len(l)) \in Seq(S)
           /\ k <= Len(l) => Len(SubSeq(l, k + 1, Len(l))) = Len(l) - k
           /\ k > Len(l) => SubSeq(l, k + 1, Len(l)) = <<>>
           /\ \A i \in 1..Len(SubSeq(l, k + 1, Len(l))) :
                 SubSeq(l, k + 1, Len(l))[i] = l[k + i]
OBVIOUS

LEMMA JoinedLogs ==
    ASSUME NEW S, NEW a \in Seq(S), NEW b \in Seq(S)
    PROVE  /\ a \o b \in Seq(S) /\ Len(a \o b) = Len(a) + Len(b)
           /\ \A i \in 1..Len(a) : (a \o b)[i] = a[i]
           /\ \A i \in 1..Len(b) : (a \o b)[Len(a) + i] = b[i]
<1>1. a \o b \in Seq(S) /\ Len(a \o b) = Len(a) + Len(b)
    OBVIOUS
<1>2. \A i \in 1..Len(a) : (a \o b)[i] = a[i]
    OBVIOUS
<1>3. ASSUME NEW i \in 1..Len(b) PROVE (a \o b)[Len(a) + i] = b[i]
    <2>1. Len(a) + i \in 1..(Len(a) + Len(b)) /\ Len(a) + i > Len(a) /\ Len(a) + i - Len(a) = i
        OBVIOUS
    <2> QED BY <2>1
<1> QED BY <1>1, <1>2, <1>3

\* u is l up to the m-th entry of a call, and the call from there on.
ReplacedFrom(u, l, prev, entries, m) ==
    /\ prev + m - 1 <= Len(l)
    /\ \A i \in 1..(m - 1) : l[prev + i].term = entries[i].term
    /\ prev + m > Len(l) \/ l[prev + m].term # entries[m].term
    /\ Len(u) = prev + Len(entries)
    /\ \A i \in 1..(prev + m - 1) : u[i] = l[i]
    /\ \A i \in m..Len(entries) : u[prev + i] = entries[i]

\* The two outcomes of the loop over the entries.
LEMMA MergedFacts ==
    ASSUME NEW S, NEW l \in Seq(S), NEW prev \in Nat, prev <= Len(l),
           NEW entries \in Seq(S)
    PROVE  \/ /\ Merged(l, prev, entries) = l
              /\ prev + Len(entries) <= Len(l)
              /\ \A i \in 1..Len(entries) : l[prev + i].term = entries[i].term
           \/ /\ Merged(l, prev, entries) \in Seq(S)
              /\ \E m \in 1..Len(entries) :
                    ReplacedFrom(Merged(l, prev, entries), l, prev, entries, m)
<1> DEFINE new == {i \in 1..Len(entries) :
                      \/ prev + i > Len(l)
                      \/ l[prev + i].term # entries[i].term}
           m == Min(new)
<1>1. Len(l) \in Nat /\ Len(entries) \in Nat
    OBVIOUS
<1>2. Merged(l, prev, entries) =
        IF new = {} THEN l
        ELSE SubSeq(l, 1, prev + m - 1) \o SubSeq(entries, m, Len(entries))
    BY DEF Merged
<1>3. CASE new = {}
    <2>1. Merged(l, prev, entries) = l
        BY <1>2, <1>3
    <2>2. \A i \in 1..Len(entries) : prev + i <= Len(l) /\ l[prev + i].term = entries[i].term
        BY <1>1, <1>3
    <2>3. prev + Len(entries) <= Len(l)
        <3>1. CASE Len(entries) = 0
            BY <3>1, <1>1
        <3>2. CASE Len(entries) # 0
            <4>1. Len(entries) \in 1..Len(entries)
                BY <3>2, <1>1
            <4> QED BY <4>1, <2>2
        <3> QED BY <3>1, <3>2
    <2> QED BY <2>1, <2>2, <2>3
<1>4. CASE new # {}
    <2>1. m \in new /\ \A y \in new : m <= y
        <3>1. new \in SUBSET Nat
            OBVIOUS
        <3> QED BY <3>1, <1>4, LeastNumber
    <2>2. /\ m \in 1..Len(entries)
          /\ prev + m > Len(l) \/ l[prev + m].term # entries[m].term
        BY <2>1
    <2>3. \A i \in 1..(m - 1) : i \notin new /\ i \in 1..Len(entries)
        <3> TAKE i \in 1..(m - 1)
        <3> HIDE DEF new, m
        <3>1. i < m /\ i \in 1..Len(entries)
            BY <2>2, <1>1
        <3>2. i \notin new
            BY <3>1, <2>1, <2>2
        <3> QED BY <3>1, <3>2
    <2>4. \A i \in 1..(m - 1) : prev + i <= Len(l) /\ l[prev + i].term = entries[i].term
        BY <2>3, <1>1
    <2> HIDE DEF new, m
    <2>5. prev + m - 1 <= Len(l)
        <3>1. CASE m = 1
            BY <3>1, <1>1
        <3>2. CASE m # 1
            <4>1. m - 1 \in 1..(m - 1)
                BY <3>2, <2>2, <1>1
            <4> QED BY <4>1, <2>4, <2>2, <1>1
        <3> QED BY <3>1, <3>2
    <2>6. PICK a \in Seq(S) :
          /\ a = SubSeq(l, 1, prev + m - 1) /\ Len(a) = prev + m - 1
          /\ \A i \in 1..(prev + m - 1) : a[i] = l[i]
        <3>1. /\ SubSeq(l, 1, prev + m - 1) \in Seq(S)
              /\ Len(SubSeq(l, 1, prev + m - 1)) = prev + m - 1
              /\ \A i \in 1..(prev + m - 1) : SubSeq(l, 1, prev + m - 1)[i] = l[i]
            BY <2>2, <2>5, <1>1
        <3> QED BY <3>1, Zenon
    <2>7. PICK b \in Seq(S) :
          /\ b = SubSeq(entries, m, Len(entries)) /\ Len(b) = Len(entries) - m + 1
          /\ \A i \in 1..(Len(entries) - m + 1) : b[i] = entries[m + i - 1]
        <3>1. /\ SubSeq(entries, m, Len(entries)) \in Seq(S)
              /\ Len(SubSeq(entries, m, Len(entries))) = Len(entries) - m + 1
              /\ \A i \in 1..(Len(entries) - m + 1) :
                    SubSeq(entries, m, Len(entries))[i] = entries[m + i - 1]
            BY <2>2, <1>1
        <3> QED BY <3>1, Zenon
    <2>8. /\ a \o b \in Seq(S) /\ Len(a \o b) = Len(a) + Len(b)
          /\ \A i \in 1..Len(a) : (a \o b)[i] = a[i]
          /\ \A i \in 1..Len(b) : (a \o b)[Len(a) + i] = b[i]
        BY JoinedLogs
    <2>9. Len(a \o b) = prev + Len(entries)
        <3>1. Len(a) = prev + m - 1 /\ Len(b) = Len(entries) - m + 1 /\ m \in Nat
            BY <2>6, <2>7, <2>2
        <3>2. Len(a \o b) = Len(a) + Len(b)
            BY <2>8
        <3> QED BY <3>1, <3>2, <1>1
    <2>10. \A i \in 1..(prev + m - 1) : (a \o b)[i] = l[i]
        BY <2>6, <2>8
    <2>11. \A i \in m..Len(entries) : (a \o b)[prev + i] = entries[i]
        <3> TAKE i \in m..Len(entries)
        <3> DEFINE k == i - m + 1
        <3>1. k \in 1..(Len(entries) - m + 1) /\ k \in 1..Len(b) /\ m + k - 1 = i
            BY <2>2, <2>7, <1>1
        <3>2. b[k] = entries[i]
            BY <3>1, <2>7
        <3>3. Len(a) + k = prev + i
            BY <2>2, <2>6, <1>1
        <3> QED BY <3>1, <3>2, <3>3, <2>8
    <2>12. Merged(l, prev, entries) = a \o b
        BY <1>2, <1>4, <2>6, <2>7
    <2>13. ReplacedFrom(a \o b, l, prev, entries, m)
        BY <2>2, <2>4, <2>5, <2>9, <2>10, <2>11 DEF ReplacedFrom
    <2> QED BY <2>2, <2>8, <2>12, <2>13
<1> QED BY <1>3, <1>4

-----------------------------------------------------------------------------
(* Every step keeps the types                                              *)

LEMMA CallKinds ==
    ASSUME CallTypes, NEW c \in calls
    PROVE  /\ c.from \in Nodes /\ c.to \in Nodes /\ c.to # c.from
           /\ c.to \in Peers(c.from) /\ c.from \in Peers(c.to)
           /\ c.kind = "vote" => c \in VoteCalls
           /\ c.kind = "granted" => c \in GrantedCalls
           /\ c.kind = "refused" => c \in RefusedCalls
           /\ c.kind = "append" => c \in AppendCalls /\ c.prev + Len(c.entries) <= MaxLog
           /\ c.kind = "appended" => c \in AppendedCalls
BY DEF CallTypes, VoteCalls, GrantedCalls, RefusedCalls, AppendCalls, AppendedCalls, Peers

LEMMA InitTypes == Init => Types
<1> SUFFICES ASSUME Init PROVE Types
    OBVIOUS
<1> USE RaftAssumption DEF Init
<1>1. NodeTypes
    BY DEF NodeTypes
<1>2. LogTypes
    BY DEF LogTypes
<1>3. IndexTypes
    BY DEF IndexTypes
<1>4. CallTypes
    BY DEF CallTypes
<1>5. Leading
    BY DEF Leading
<1> QED BY <1>1, <1>2, <1>3, <1>4, <1>5 DEF Types

\* Fewer goroutines are no other goroutines.
LEMMA FewerCallTypes == CallTypes /\ calls' \subseteq calls => CallTypes'
BY DEF CallTypes

\* Steps of the run loop that start no goroutine.
LEMMA LoopTypes ==
    ASSUME Types, NEW n \in Nodes,
           Dispatch(n) \/ FollowerTimeout(n) \/ CandidateWaitEnds(n)
    PROVE  Types'
<1> USE DEF Types
<1>0. /\ UNCHANGED <<currentTerm, votedFor, logs, index, proposing, votes, calls, slips>>
      /\ \/ UNCHANGED state /\ loop' = [loop EXCEPT ![n] = state[n]]
         \/ /\ loop[n] = "follower" /\ state' = [state EXCEPT ![n] = "candidate"]
            /\ loop' = [loop EXCEPT ![n] = "decide"]
    BY DEF Dispatch, FollowerTimeout, CandidateWaitEnds, node
<1>1. NodeTypes'
    BY <1>0 DEF NodeTypes
<1>2. LogTypes' /\ IndexTypes' /\ CallTypes'
    BY <1>0 DEF LogTypes, IndexTypes, CallTypes, logs, index
<1>3. Leading'
    BY <1>0, <1>1 DEF Leading, NodeTypes, logs, index
<1> QED BY <1>1, <1>2, <1>3

LEMMA LastTermType ==
    ASSUME NEW l \in Seq(Entries), RaftAssumption PROVE LastTerm(l) \in Nat
<1>1. CASE l = <<>>
    BY <1>1 DEF LastTerm
<1>2. CASE l # <<>>
    <2>1. Len(l) \in 1..Len(l)
        BY <1>2
    <2>2. l[Len(l)] \in Entries
        BY <2>1
    <2>3. l[Len(l)].term \in 1..MaxTerm
        BY <2>2 DEF Entries
    <2> QED BY <2>3, <1>2, RaftAssumption DEF LastTerm
<1> QED BY <1>1, <1>2

LEMMA RunCandidateTypes ==
    ASSUME Types, NEW n \in Nodes, RunCandidate(n) PROVE Types'
<1> USE DEF Types
<1> USE RaftAssumption
<1>1. currentTerm[n] + 1 \in 1..MaxTerm /\ currentTerm[n] \in 0..MaxTerm
    BY DEF RunCandidate, NodeTypes
<1>2. Append(votes[n], 1) \in Seq(Nat \ {0}) /\ Len(votes[n]) + 1 \in Nat
    BY DEF NodeTypes
<1>3. NodeTypes'
    BY <1>1, <1>2 DEF RunCandidate, NodeTypes
<1>4. LogTypes' /\ IndexTypes'
    BY DEF RunCandidate, LogTypes, IndexTypes, logs, index
<1>5. CallTypes'
    <2> SUFFICES ASSUME NEW c \in calls', c \notin calls
                 PROVE  c \in VoteCalls /\ c.to # c.from /\ c.kind # "append"
        BY DEF CallTypes
    <2>1. PICK p \in Peers(n) :
            c = [kind |-> "vote", from |-> n, to |-> p, term |-> currentTerm[n] + 1,
                 round |-> Len(votes[n]) + 1, last |-> Len(log[n]),
                 lastTerm |-> LastTerm(log[n])]
        BY DEF RunCandidate
    <2>2. Len(log[n]) \in Nat /\ LastTerm(log[n]) \in Nat
        BY LastTermType DEF LogTypes
    <2>3. p \in Nodes /\ p # n
        BY DEF Peers
    <2> QED BY <2>1, <2>2, <2>3, <1>1, <1>2 DEF VoteCalls
<1>6. Leading'
    BY <1>1 DEF RunCandidate, Leading, NodeTypes, logs, index
<1> QED BY <1>3, <1>4, <1>5, <1>6

\* What replicateToFollowers sends.
LEMMA ReplicateTypes ==
    ASSUME Types, NEW n \in Nodes, state[n] = "leader", NEW by \in {"tick", "propose"},
           NEW c \in Replicate(n, by)
    PROVE  /\ c \in AppendCalls /\ c.to # c.from
           /\ c.prev + Len(c.entries) <= MaxLog
           /\ c.from = n /\ c.term = currentTerm[n] /\ Carries(c, log[n])
<1> USE RaftAssumption DEF Types
<1>1. PICK p \in Peers(n) :
        c = [kind |-> "append", from |-> n, to |-> p, term |-> currentTerm[n], by |-> by,
             prev |-> nextIndex[n][p],
             prevTerm |-> IF nextIndex[n][p] \in 1..Len(log[n])
                          THEN log[n][nextIndex[n][p]].term ELSE 0,
             entries |-> SubSeq(log[n], nextIndex[n][p] + 1, Len(log[n])),
             commit |-> commitIndex[n]]
    BY DEF Replicate
<1>2. p \in Nodes /\ p # n
    BY DEF Peers
<1>3. PICK k \in 0..MaxLog : k = nextIndex[n][p] /\ k <= Len(log[n])
    BY DEF IndexTypes, Leading
<1>4. PICK l \in Seq(Entries) : l = log[n] /\ Len(l) <= MaxLog /\ Len(l) \in Nat
    BY DEF LogTypes
<1>5. PICK es \in Seq(Entries) :
        /\ es = SubSeq(l, k + 1, Len(l)) /\ Len(es) = Len(l) - k
        /\ \A i \in 1..Len(es) : es[i] = l[k + i]
    <2>1. /\ SubSeq(l, k + 1, Len(l)) \in Seq(Entries)
          /\ Len(SubSeq(l, k + 1, Len(l))) = Len(l) - k
          /\ \A i \in 1..Len(SubSeq(l, k + 1, Len(l))) :
                SubSeq(l, k + 1, Len(l))[i] = l[k + i]
        <3>1. k \in Nat /\ k <= Len(l)
            BY <1>3, <1>4
        <3>2. /\ SubSeq(l, k + 1, Len(l)) \in Seq(Entries)
              /\ k <= Len(l) => Len(SubSeq(l, k + 1, Len(l))) = Len(l) - k
              /\ \A i \in 1..Len(SubSeq(l, k + 1, Len(l))) :
                    SubSeq(l, k + 1, Len(l))[i] = l[k + i]
            BY <3>1, RestOfLog
        <3> QED BY <3>1, <3>2
    <2> QED BY <2>1, Zenon
<1>6. PICK pt \in 0..MaxTerm :
        /\ pt = IF k \in 1..Len(l) THEN l[k].term ELSE 0
        /\ k > 0 => pt = l[k].term
    <2>1. CASE k = 0
        BY <2>1
    <2>2. CASE k > 0
        <3>1. k \in 1..Len(l)
            BY <2>2, <1>3, <1>4
        <3>2. l[k] \in Entries
            BY <3>1
        <3>3. l[k].term \in 0..MaxTerm
            BY <3>2 DEF Entries
        <3> QED BY <3>1, <3>3
    <2> QED BY <2>1, <2>2
<1>7. currentTerm[n] \in 1..MaxTerm /\ commitIndex[n] \in 0..MaxLog
    BY DEF Leading, NodeTypes, LogTypes
<1>8. c = [kind |-> "append", from |-> n, to |-> p, term |-> currentTerm[n], by |-> by,
           prev |-> k, prevTerm |-> pt, entries |-> es, commit |-> commitIndex[n]]
    BY <1>1, <1>3, <1>4, <1>5, <1>6
<1>9. c \in AppendCalls
    BY <1>8, <1>7, <1>2 DEF AppendCalls
<1>10. /\ c.kind = "append" /\ c.from = n /\ c.to = p /\ c.term = currentTerm[n]
       /\ c.prev = k /\ c.prevTerm = pt /\ c.entries = es
    BY <1>8
<1>11. c.prev + Len(c.entries) = Len(l)
    BY <1>10, <1>5, <1>3, <1>4
<1>12. Carries(c, log[n])
    BY <1>10, <1>11, <1>4, <1>5, <1>6 DEF Carries
<1> QED BY <1>2, <1>4, <1>9, <1>10, <1>11, <1>12

\* LeaderTick and ProposeReplicates.
LEMMA SendTypes ==
    ASSUME Types, NEW n \in Nodes, LeaderTick(n) \/ ProposeReplicates(n)
    PROVE  /\ Types'
           /\ UNCHANGED <<node, logs, index, votes, slips>>
           /\ \A c \in calls' : c \in calls \/
                 (state[n] = "leader" /\ \E by \in {"tick", "propose"} : c \in Replicate(n, by))
<1> USE DEF Types
<1>1. /\ UNCHANGED <<node, logs, index, votes, slips>> /\ proposing' \subseteq proposing
      /\ loop' = loop \/ (loop[n] = "leader" /\ loop' = [loop EXCEPT ![n] = state[n]])
      /\ \/ calls' = calls
         \/ /\ state[n] = "leader"
            /\ \E by \in {"tick", "propose"} : calls' = calls \cup Replicate(n, by)
    BY DEF LeaderTick, ProposeReplicates, Send
<1>2. \A c \in calls' : c \in calls \/
        (state[n] = "leader" /\ \E by \in {"tick", "propose"} : c \in Replicate(n, by))
    BY <1>1
<1>3. NodeTypes'
    BY <1>1 DEF NodeTypes, node
<1>4. LogTypes' /\ IndexTypes'
    BY <1>1 DEF LogTypes, IndexTypes, logs, index
<1>5. CallTypes'
    <2> SUFFICES ASSUME NEW c \in calls', c \notin calls
                 PROVE  c \in AppendCalls /\ c.to # c.from /\ c.prev + Len(c.entries) <= MaxLog
        BY DEF CallTypes
    <2> QED BY <1>2, ReplicateTypes
<1>6. Leading'
    BY <1>1 DEF Leading, NodeTypes, node, logs, index
<1> QED BY <1>1, <1>2, <1>3, <1>4, <1>5, <1>6

LEMMA ProposeTypes ==
    ASSUME Types, NEW n \in Nodes, Propose(n)
    PROVE  /\ Types'
           /\ log'[n] = Append(log[n], [term |-> currentTerm[n], cmd |-> <<n, Len(log[n]) + 1>>])
           /\ log'[n] \in Seq(Entries) /\ Len(log'[n]) = Len(log[n]) + 1
           /\ \A i \in 1..Len(log[n]) : log'[n][i] = log[n][i]
           /\ log'[n][Len(log[n]) + 1].term = currentTerm[n]
<1> USE DEF Types
<1>1. PICK l \in Seq(Entries) : l = log[n] /\ Len(l) < MaxLog /\ Len(l) \in Nat
    BY DEF Propose, LogTypes
<1>2. currentTerm[n] \in 1..MaxTerm /\ Len(l) + 1 \in 1..MaxLog
    BY <1>1, RaftAssumption DEF Propose, NodeTypes, Leading
<1>3. PICK e \in Entries : /\ e = [term |-> currentTerm[n], cmd |-> <<n, Len(l) + 1>>]
                           /\ e.term = currentTerm[n]
    <2>1. <<n, Len(l) + 1>> \in Nodes \X (1..MaxLog)
        BY <1>2
    <2>2. [term |-> currentTerm[n], cmd |-> <<n, Len(l) + 1>>] \in Entries
        BY <2>1, <1>2 DEF Entries
    <2> QED BY <2>2
<1>4. PICK m \in Seq(Entries) :
        /\ m = Append(l, e) /\ Len(m) = Len(l) + 1 /\ m[Len(l) + 1] = e
        /\ \A i \in 1..Len(l) : m[i] = l[i]
    <2>1. /\ Append(l, e) \in Seq(Entries) /\ Len(Append(l, e)) = Len(l) + 1
          /\ Append(l, e)[Len(l) + 1] = e
          /\ \A i \in 1..Len(l) : Append(l, e)[i] = l[i]
        OBVIOUS
    <2> QED BY <2>1, Zenon
<1>5. log' = [log EXCEPT ![n] = m]
    BY <1>1, <1>3, <1>4 DEF Propose
<1>6. log'[n] = m
    BY <1>5 DEF LogTypes
<1>7. LogTypes'
    <2>1. Len(m) <= MaxLog
        BY <1>4, <1>1, RaftAssumption
    <2>2. log' \in [Nodes -> Seq(Entries)]
        BY <1>5 DEF LogTypes
    <2>3. \A k \in Nodes : Len(log'[k]) <= MaxLog
        BY <1>5, <2>1 DEF LogTypes
    <2> QED BY <2>2, <2>3 DEF LogTypes, Propose
<1>8. NodeTypes' /\ IndexTypes' /\ CallTypes'
    BY DEF Propose, NodeTypes, IndexTypes, CallTypes, node, index
<1>9. \A k \in Nodes : Len(log'[k]) >= Len(log[k])
    BY <1>1, <1>4, <1>5 DEF LogTypes
<1>10. Leading'
    BY <1>9, <1>7 DEF Propose, Leading, NodeTypes, IndexTypes, LogTypes, node, index
<1>11. log'[n] = Append(log[n], [term |-> currentTerm[n], cmd |-> <<n, Len(log[n]) + 1>>])
    BY <1>6, <1>4, <1>3, <1>1
<1>12. log'[n][Len(log[n]) + 1].term = currentTerm[n]
    BY <1>6, <1>4, <1>3, <1>1
<1> QED BY <1>1, <1>4, <1>6, <1>7, <1>8, <1>10, <1>11, <1>12

\* The effects of HandleRequestVote on the voter: it takes a newer term as a
\* follower; it votes only for a candidate of its term, if it has not voted for
\* another one there.
VoteWithheld(c) ==
    /\ currentTerm'[c.to] = currentTerm[c.to] => votedFor'[c.to] = votedFor[c.to]
    /\ \A d \in calls' : d \in calls \/ d.kind = "refused"

VoteGiven(c) ==
    /\ calls' = (calls \ {c}) \cup {[kind |-> "granted", from |-> c.from, to |-> c.to,
                                     term |-> c.term, round |-> c.round]}
    /\ currentTerm'[c.to] = c.term /\ votedFor'[c.to] = c.from
    /\ currentTerm[c.to] = c.term => votedFor[c.to] \in {Nobody, c.from}
    /\ UpToDate(c.to, c)

VoteStep(c) ==
    /\ \A n \in Nodes : n # c.to =>
          UNCHANGED <<state[n], currentTerm[n], votedFor[n]>>
    /\ \/ /\ c.term > currentTerm[c.to]
          /\ currentTerm'[c.to] = c.term /\ state'[c.to] = "follower"
       \/ /\ c.term <= currentTerm[c.to]
          /\ currentTerm'[c.to] = currentTerm[c.to] /\ state'[c.to] = state[c.to]
    /\ VoteWithheld(c) \/ VoteGiven(c)

LEMMA VoteStepTypes ==
    ASSUME Types, NEW c \in calls, HandleRequestVote(c)
    PROVE  Types' /\ VoteStep(c) /\ c \in VoteCalls
<1> USE DEF Types
<1> DEFINE n == c.to
           newer == c.term > currentTerm[n]
           voted == IF newer THEN Nobody ELSE votedFor[n]
           granted == c.term >= currentTerm[n] /\ Grants(n, c, voted)
           yes == [kind |-> "granted", from |-> c.from, to |-> n,
                   term |-> c.term, round |-> c.round]
           no == [kind |-> "refused", from |-> c.from, to |-> n, t |-> currentTerm[n]]
<1>1. /\ c \in VoteCalls /\ n \in Nodes /\ c.from \in Nodes /\ n # c.from
      /\ c.term \in 1..MaxTerm /\ c.round \in Nat
    <2>1. c.kind = "vote"
        BY DEF HandleRequestVote
    <2> QED BY <2>1, CallKinds DEF VoteCalls
<1>2. /\ currentTerm' = [currentTerm EXCEPT ![n] = IF newer THEN c.term ELSE @]
      /\ state' = [state EXCEPT ![n] = IF newer THEN "follower" ELSE @]
      /\ votedFor' = [votedFor EXCEPT ![n] = IF granted THEN c.from ELSE voted]
      /\ calls' = (calls \ {c}) \cup
            IF granted \/ currentTerm[n] > c.term THEN {IF granted THEN yes ELSE no} ELSE {}
      /\ UNCHANGED <<logs, index, loop, proposing, votes, slips, spent>>
    BY DEF HandleRequestVote
<1>3. currentTerm[n] \in 0..MaxTerm /\ votedFor[n] \in Nodes \cup {Nobody}
    BY <1>1 DEF NodeTypes
<1>4. voted \in Nodes \cup {Nobody} /\ granted => voted \in {Nobody, c.from}
    BY <1>3 DEF Grants
<1>5. granted => c.term >= currentTerm[n] /\ UpToDate(n, c)
    BY DEF Grants
<1>6. yes \in GrantedCalls /\ no \in RefusedCalls
    BY <1>1, <1>3 DEF GrantedCalls, RefusedCalls
<1>7. newer <=> c.term > currentTerm[n]
    OBVIOUS
<1>8. voted = IF newer THEN Nobody ELSE votedFor[n]
    OBVIOUS
<1>9. yes.kind = "granted" /\ yes.to = n /\ yes.from = c.from
    OBVIOUS
<1>10. no.kind = "refused" /\ no.to = n /\ no.from = c.from
    OBVIOUS
<1> HIDE DEF newer, voted, granted, yes, no
<1>11. NodeTypes'
    <2>1. voted \in Nodes \cup {Nobody}
        BY <1>3, <1>8
    <2> QED BY <2>1, <1>1, <1>2, <1>3 DEF NodeTypes
<1>12. LogTypes' /\ IndexTypes'
    BY <1>2 DEF LogTypes, IndexTypes, logs, index
<1>13. CallTypes'
    <2> SUFFICES ASSUME NEW d \in calls', d \notin calls
                 PROVE  /\ d \in GrantedCalls \/ d \in RefusedCalls
                        /\ d.to # d.from /\ d.kind # "append"
        BY DEF CallTypes
    <2>1. d = yes \/ d = no
        BY <1>2
    <2> QED BY <2>1, <1>6, <1>9, <1>10, <1>1
<1>14. Leading'
    BY <1>1, <1>2, <1>7, <1>3 DEF Leading, NodeTypes, logs, index
<1>15. \A m \in Nodes : m # c.to => UNCHANGED <<state[m], currentTerm[m], votedFor[m]>>
    BY <1>1, <1>2 DEF NodeTypes
<1>16. /\ currentTerm'[n] = IF newer THEN c.term ELSE currentTerm[n]
       /\ state'[n] = IF newer THEN "follower" ELSE state[n]
       /\ votedFor'[n] = IF granted THEN c.from ELSE voted
    BY <1>1, <1>2 DEF NodeTypes
<1>17. \/ /\ c.term > currentTerm[n]
          /\ currentTerm'[n] = c.term /\ state'[n] = "follower"
       \/ /\ c.term <= currentTerm[n]
          /\ currentTerm'[n] = currentTerm[n] /\ state'[n] = state[n]
    BY <1>16, <1>7, <1>1, <1>3
<1>18. CASE ~granted
    <2>1. currentTerm'[n] = currentTerm[n] => votedFor'[n] = votedFor[n]
        BY <1>18, <1>16, <1>7, <1>8, <1>1, <1>3
    <2>2. calls' \subseteq calls \ {c} \/ calls' = (calls \ {c}) \cup {no}
        BY <1>18, <1>2
    <2>3. VoteStep(c)
        BY <2>1, <2>2, <1>10, <1>15, <1>17 DEF VoteStep, VoteWithheld
    <2> QED BY <2>3, <1>1, <1>11, <1>12, <1>13, <1>14
<1>19. CASE granted
    <2>1. currentTerm'[n] = c.term /\ votedFor'[n] = c.from
        BY <1>19, <1>16, <1>5, <1>7, <1>1, <1>3
    <2>2. currentTerm[n] = c.term => votedFor[n] \in {Nobody, c.from}
        BY <1>19, <1>4, <1>7, <1>8, <1>1, <1>3
    <2>3. calls' = (calls \ {c}) \cup {yes}
        BY <1>19, <1>2
    <2>4. VoteStep(c)
        BY <2>1, <2>2, <2>3, <1>5, <1>15, <1>17, <1>19 DEF VoteStep, VoteGiven, yes
    <2> QED BY <2>4, <1>1, <1>11, <1>12, <1>13, <1>14
<1> QED BY <1>18, <1>19

\* The effects of HandleAppendEntries on the follower: a stale call changes
\* nothing; any other makes it a follower of the call's term, and an accepted one
\* leaves the merged log.
AppendStep(c) ==
    /\ \A n \in Nodes : n # c.to =>
          UNCHANGED <<state[n], currentTerm[n], votedFor[n], log[n]>>
    /\ \/ c.term < currentTerm[c.to] /\ UNCHANGED node
       \/ /\ c.term = currentTerm[c.to] /\ UNCHANGED <<currentTerm, votedFor>>
          /\ state'[c.to] = "follower"
       \/ /\ c.term > currentTerm[c.to] /\ currentTerm'[c.to] = c.term
          /\ state'[c.to] = "follower"
    /\ \/ UNCHANGED log
       \/ /\ c.term >= currentTerm[c.to] /\ Consistent(log[c.to], c.prev, c.prevTerm)
          /\ log'[c.to] = Merged(log[c.to], c.prev, c.entries)
    /\ \A d \in calls' : d \in calls \/
          (d.kind = "appended" /\ d.from = c.from /\ d.to = c.to /\ d.term = c.term)

LEMMA AppendStepTypes ==
    ASSUME Types, NEW c \in calls, HandleAppendEntries(c)
    PROVE  Types' /\ AppendStep(c) /\ c \in AppendCalls
<1> USE RaftAssumption DEF Types
<1> DEFINE n == c.to
           stale == c.term < currentTerm[n]
           ok == ~stale /\ Consistent(log[n], c.prev, c.prevTerm)
           l == IF ok THEN Merged(log[n], c.prev, c.entries) ELSE log[n]
           last == Min({c.commit, Len(l)})
           answer == [kind |-> "appended", from |-> c.from, to |-> n, term |-> c.term,
                      by |-> c.by, ok |-> ok, t |-> currentTerm'[n],
                      upTo |-> IF ok THEN c.prev + Len(c.entries) ELSE 0]
<1>1. /\ c \in AppendCalls /\ n \in Nodes /\ c.from \in Nodes /\ n # c.from
      /\ c.term \in 1..MaxTerm /\ c.by \in {"tick", "propose"} /\ c.prev \in 0..MaxLog
      /\ c.entries \in Seq(Entries) /\ c.commit \in 0..MaxLog
      /\ c.prev + Len(c.entries) <= MaxLog
    <2>1. c.kind = "append"
        BY DEF HandleAppendEntries
    <2> QED BY <2>1, CallKinds DEF AppendCalls
<1>2. /\ currentTerm' = [currentTerm EXCEPT ![n] = Max({@, c.term})]
      /\ votedFor' = [votedFor EXCEPT ![n] = IF c.term > currentTerm[n] THEN Nobody ELSE @]
      /\ state' = [state EXCEPT ![n] = IF stale THEN @ ELSE "follower"]
      /\ log' = [log EXCEPT ![n] = l]
      /\ commitIndex' = [commitIndex EXCEPT ![n] = IF ok /\ c.commit > @ THEN last ELSE @]
      /\ calls' = (calls \ {c}) \cup {answer}
      /\ UNCHANGED <<index, loop, proposing, votes, slips, spent>>
    BY DEF HandleAppendEntries
<1>3. /\ currentTerm[n] \in 0..MaxTerm /\ log[n] \in Seq(Entries) /\ Len(log[n]) <= MaxLog
      /\ commitIndex[n] \in 0..MaxLog /\ Len(log[n]) \in Nat /\ Len(c.entries) \in Nat
    <2>1. currentTerm[n] \in 0..MaxTerm
        BY <1>1 DEF NodeTypes
    <2>2. /\ log[n] \in Seq(Entries) /\ Len(log[n]) <= MaxLog
          /\ commitIndex[n] \in 0..MaxLog
        BY <1>1 DEF LogTypes
    <2> QED BY <2>1, <2>2, <1>1
<1>4. ok => c.prev \in Nat /\ c.prev <= Len(log[n])
    BY <1>1, <1>3 DEF Consistent
<1>5. l \in Seq(Entries) /\ Len(l) <= MaxLog
    <2>1. CASE ~ok
        BY <2>1, <1>3
    <2>2. CASE ok
        <3>1. PICK a \in Seq(Entries) : a = log[n]
            BY <1>3
        <3>2. PICK es \in Seq(Entries) : es = c.entries
            BY <1>1
        <3>3. PICK k \in Nat : k = c.prev /\ k <= Len(a)
            BY <2>2, <1>4, <3>1
        <3>4. \/ Merged(a, k, es) = a
              \/ Merged(a, k, es) \in Seq(Entries) /\ Len(Merged(a, k, es)) = k + Len(es)
            BY <3>3, MergedFacts DEF ReplacedFrom
        <3>5. l = Merged(a, k, es)
            BY <2>2, <3>1, <3>2, <3>3
        <3> QED BY <3>1, <3>2, <3>3, <3>4, <3>5, <1>1, <1>3
    <2> QED BY <2>1, <2>2
<1>6. stale <=> c.term < currentTerm[n]
    OBVIOUS
<1>7. ok => ~stale /\ Consistent(log[n], c.prev, c.prevTerm)
    OBVIOUS
<1>8. l = IF ok THEN Merged(log[n], c.prev, c.entries) ELSE log[n]
    OBVIOUS
<1>9. ok \in BOOLEAN
    OBVIOUS
<1> HIDE DEF stale, ok, l
<1>10. last \in 0..MaxLog
    <2>1. Len(l) \in Nat /\ c.commit \in Nat
        BY <1>1, <1>5
    <2>2. last = IF c.commit <= Len(l) THEN c.commit ELSE Len(l)
        BY <2>1, MinOfTwo
    <2> QED BY <2>1, <2>2, <1>1
<1> HIDE DEF last
<1>11. Max({currentTerm[n], c.term}) = IF currentTerm[n] >= c.term THEN currentTerm[n] ELSE c.term
    <2>1. currentTerm[n] \in Nat /\ c.term \in Nat
        BY <1>1, <1>3
    <2> QED BY <2>1, MaxOfTwo
<1>12. /\ currentTerm'[n] = IF currentTerm[n] >= c.term THEN currentTerm[n] ELSE c.term
       /\ state'[n] = IF stale THEN state[n] ELSE "follower"
       /\ log'[n] = l
       /\ c.term <= currentTerm[n] => currentTerm' = currentTerm /\ votedFor' = votedFor
       /\ stale => state' = state
    <2>1. /\ currentTerm'[n] = Max({currentTerm[n], c.term}) /\ log'[n] = l
          /\ state'[n] = IF stale THEN state[n] ELSE "follower"
          /\ stale => state' = state
          /\ c.term <= currentTerm[n] => votedFor' = votedFor
        <3>1. currentTerm'[n] = Max({currentTerm[n], c.term})
            BY <1>1, <1>2 DEF NodeTypes
        <3>2. log'[n] = l
            BY <1>1, <1>2 DEF LogTypes
        <3>3. /\ state'[n] = IF stale THEN state[n] ELSE "follower"
              /\ stale => state' = state
            BY <1>1, <1>2 DEF NodeTypes
        <3>4. c.term <= currentTerm[n] => votedFor' = votedFor
            BY <1>1, <1>2, <1>3 DEF NodeTypes
        <3> QED BY <3>1, <3>2, <3>3, <3>4
    <2>2. c.term <= currentTerm[n] => currentTerm' = currentTerm
        BY <1>1, <1>2, <1>3, <1>11 DEF NodeTypes
    <2> QED BY <2>1, <2>2, <1>11
<1>13. NodeTypes'
    <2>1. Max({currentTerm[n], c.term}) \in 0..MaxTerm
        BY <1>11, <1>1, <1>3
    <2>2. currentTerm' \in [Nodes -> 0..MaxTerm]
        BY <2>1, <1>2, <1>1 DEF NodeTypes
    <2>3. /\ votedFor' \in [Nodes -> Nodes \cup {Nobody}]
          /\ state' \in [Nodes -> {"follower", "candidate", "leader"}]
        BY <1>2, <1>1 DEF NodeTypes
    <2> QED BY <2>2, <2>3, <1>2 DEF NodeTypes
<1>14. LogTypes' /\ IndexTypes'
    <2>1. log' \in [Nodes -> Seq(Entries)] /\ \A k \in Nodes : Len(log'[k]) <= MaxLog
        BY <1>1, <1>2, <1>5 DEF LogTypes
    <2>2. commitIndex' \in [Nodes -> 0..MaxLog]
        BY <1>1, <1>2, <1>10 DEF LogTypes
    <2> QED BY <2>1, <2>2, <1>2 DEF LogTypes, IndexTypes, index
<1>15. /\ answer \in AppendedCalls /\ answer.to = n /\ answer.from = c.from
       /\ answer.kind = "appended" /\ answer.term = c.term
    <2>1. currentTerm'[n] \in 0..MaxTerm
        BY <1>13, <1>1 DEF NodeTypes
    <2>2. (IF ok THEN c.prev + Len(c.entries) ELSE 0) \in Nat
        BY <1>1, <1>3
    <2> QED BY <2>1, <2>2, <1>1, <1>9 DEF AppendedCalls
<1> HIDE DEF answer
<1>16. CallTypes'
    <2> SUFFICES ASSUME NEW d \in calls', d \notin calls
                 PROVE  d \in AppendedCalls /\ d.to # d.from /\ d.kind # "append"
        BY DEF CallTypes
    <2>1. d = answer
        BY <1>2
    <2> QED BY <2>1, <1>15, <1>1
<1>17. Leading'
    <2>1. \A m \in Nodes : state'[m] = "leader" =>
            /\ state[m] = "leader" /\ currentTerm'[m] = currentTerm[m] /\ log'[m] = log[m]
        <3> TAKE m \in Nodes
        <3>1. CASE m = n
            BY <3>1, <1>12, <1>6, <1>7, <1>8, <1>1, <1>3
        <3>2. CASE m # n
            BY <3>2, <1>2 DEF NodeTypes, LogTypes
        <3> QED BY <3>1, <3>2
    <2>2. \A m \in Nodes : state'[m] = state[m] \/ state'[m] = "follower"
        BY <1>2 DEF NodeTypes
    <2> QED BY <2>1, <2>2, <1>2 DEF Leading, index
<1>18. \A m \in Nodes : m # c.to =>
          UNCHANGED <<state[m], currentTerm[m], votedFor[m], log[m]>>
    BY <1>1, <1>2 DEF NodeTypes, LogTypes
<1>19. \/ c.term < currentTerm[c.to] /\ UNCHANGED node
       \/ /\ c.term = currentTerm[c.to] /\ UNCHANGED <<currentTerm, votedFor>>
          /\ state'[c.to] = "follower"
       \/ /\ c.term > currentTerm[c.to] /\ currentTerm'[c.to] = c.term
          /\ state'[c.to] = "follower"
    BY <1>12, <1>6, <1>1, <1>3 DEF node
<1>20. \/ UNCHANGED log
       \/ /\ c.term >= currentTerm[c.to] /\ Consistent(log[c.to], c.prev, c.prevTerm)
          /\ log'[c.to] = Merged(log[c.to], c.prev, c.entries)
    <2>1. CASE ok
        BY <2>1, <1>12, <1>6, <1>7, <1>8, <1>1, <1>3
    <2>2. CASE ~ok
        BY <2>2, <1>2, <1>8, <1>1 DEF LogTypes
    <2> QED BY <2>1, <2>2
<1>21. AppendStep(c)
    BY <1>18, <1>19, <1>20, <1>15, <1>2 DEF AppendStep
<1> QED BY <1>1, <1>13, <1>14, <1>16, <1>17, <1>21

\* The effects of an answer to RequestVote or AppendEntries, and of a lost call,
\* on the sender's state: it wins its election; it takes a term and forgets its
\* vote; or it stays as it is.
Wins(c) ==
    /\ Majority(votes[c.from][c.round] + 1)
    /\ state[c.from] = "candidate" /\ currentTerm[c.from] = c.term
    /\ state' = [state EXCEPT ![c.from] = "leader"]
    /\ UNCHANGED <<currentTerm, votedFor>>

TakesTerm(n, t) ==
    /\ state' = [state EXCEPT ![n] = "follower"]
    /\ currentTerm' = [currentTerm EXCEPT ![n] = t]
    /\ votedFor' = [votedFor EXCEPT ![n] = Nobody]

LEMMA VoteGrantedTypes ==
    ASSUME Types, NEW c \in calls, VoteGranted(c),
           c.round \in 1..Len(votes[c.from])
    PROVE  /\ Types' /\ c \in GrantedCalls
           /\ votes' = [votes EXCEPT ![c.from] = [votes[c.from] EXCEPT ![c.round] = @ + 1]]
           /\ calls' = calls \ {c} /\ UNCHANGED <<logs, slips>>
           /\ Wins(c) \/ UNCHANGED node
<1> USE DEF Types
<1> DEFINE n == c.from
           k == votes[n][c.round] + 1
           wins == Majority(k) /\ state[n] = "candidate" /\ currentTerm[n] = c.term
<1>1. /\ c \in GrantedCalls /\ n \in Nodes /\ c.term \in 1..MaxTerm /\ c.round \in Nat
    <2>1. c.kind = "granted"
        BY DEF VoteGranted
    <2> QED BY <2>1, CallKinds DEF GrantedCalls
<1>2. /\ votes' = [votes EXCEPT ![n][c.round] = k]
      /\ state' = [state EXCEPT ![n] = IF wins THEN "leader" ELSE @]
      /\ nextIndex' = IF wins THEN [nextIndex EXCEPT ![n] = [p \in Peers(n) |-> Len(log[n])]]
                      ELSE nextIndex
      /\ matchIndex' = IF wins THEN [matchIndex EXCEPT ![n] = [p \in Peers(n) |-> 0]]
                       ELSE matchIndex
      /\ calls' = calls \ {c}
      /\ UNCHANGED <<currentTerm, votedFor, logs, loop, proposing, slips, spent>>
    BY DEF VoteGranted
<1>3. votes[n] \in Seq(Nat \ {0}) /\ k \in Nat
    BY <1>1 DEF NodeTypes
<1>4. wins => Majority(k) /\ state[n] = "candidate" /\ currentTerm[n] = c.term
    OBVIOUS
<1>5. votes' = [votes EXCEPT ![n] = [votes[n] EXCEPT ![c.round] = @ + 1]]
    BY <1>2
<1> HIDE DEF wins
<1>6. [votes[n] EXCEPT ![c.round] = @ + 1] \in Seq(Nat \ {0})
    BY <1>3
<1>7. NodeTypes'
    <2>1. votes' \in [Nodes -> Seq(Nat \ {0})]
        BY <1>1, <1>5, <1>6 DEF NodeTypes
    <2>2. state' \in [Nodes -> {"follower", "candidate", "leader"}]
        BY <1>1, <1>2 DEF NodeTypes
    <2> QED BY <2>1, <2>2, <1>2 DEF NodeTypes
<1>8. LogTypes' /\ CallTypes'
    BY <1>2, FewerCallTypes DEF LogTypes, logs
<1>9. Len(log[n]) \in 0..MaxLog /\ 0 \in 0..MaxLog
    BY <1>1, RaftAssumption DEF LogTypes
<1>10. IndexTypes'
    <2>1. CASE wins
        <3>1. DOMAIN nextIndex' = Nodes /\ DOMAIN matchIndex' = Nodes
            BY <2>1, <1>2 DEF IndexTypes
        <3>2. \A m \in Nodes : nextIndex'[m] \in [Peers(m) -> 0..MaxLog]
            BY <2>1, <1>1, <1>2, <1>9 DEF IndexTypes
        <3>3. \A m \in Nodes : matchIndex'[m] \in [Peers(m) -> 0..MaxLog]
            BY <2>1, <1>1, <1>2, <1>9 DEF IndexTypes
        <3> QED BY <3>1, <3>2, <3>3 DEF IndexTypes
    <2>2. CASE ~wins
        BY <2>2, <1>2 DEF IndexTypes
    <2> QED BY <2>1, <2>2
<1>11. Leading'
    <2>1. CASE ~wins
        <3>1. state' = state
            BY <2>1, <1>1, <1>2 DEF NodeTypes
        <3> QED BY <3>1, <2>1, <1>2 DEF Leading, logs
    <2>2. CASE wins
        <3>1. \A p \in Peers(n) : nextIndex'[n][p] <= Len(log'[n])
            BY <2>2, <1>1, <1>2, <1>9 DEF IndexTypes, logs
        <3>2. currentTerm'[n] >= 1 /\ loop[n] # "follower" /\ state'[n] = "leader"
            BY <2>2, <1>1, <1>2, <1>4 DEF Leading, NodeTypes
        <3>3. \A m \in Nodes : m # n =>
                UNCHANGED <<state[m], currentTerm[m], nextIndex[m], log[m]>>
            BY <2>2, <1>1, <1>2 DEF NodeTypes, IndexTypes, logs
        <3> QED BY <3>1, <3>2, <3>3, <1>2 DEF Leading
    <2> QED BY <2>1, <2>2
<1>12. Wins(c) \/ UNCHANGED node
    <2>1. CASE wins
        BY <2>1, <1>2, <1>4 DEF Wins
    <2>2. CASE ~wins
        BY <2>2, <1>1, <1>2 DEF node, NodeTypes
    <2> QED BY <2>1, <2>2
<1> QED BY <1>1, <1>2, <1>5, <1>7, <1>8, <1>10, <1>11, <1>12

\* A node that takes a term and becomes a follower.
LEMMA TakesTermTypes ==
    ASSUME Types, NEW n \in Nodes, NEW t \in 0..MaxTerm, TakesTerm(n, t),
           UNCHANGED <<logs, index, loop, proposing, votes>>,
           slips' \subseteq {"usurped", "forgot", "overclaimed"}, calls' \subseteq calls
    PROVE  Types'
<1> USE DEF Types, TakesTerm
<1>1. NodeTypes'
    BY RaftAssumption DEF NodeTypes
<1>2. LogTypes' /\ IndexTypes' /\ CallTypes'
    BY FewerCallTypes DEF LogTypes, IndexTypes, logs, index
<1>3. Leading'
    BY DEF Leading, NodeTypes, logs, index
<1> QED BY <1>1, <1>2, <1>3

LEMMA VoteRefusedTypes ==
    ASSUME Types, NEW c \in calls, VoteRefused(c)
    PROVE  /\ Types' /\ c \in RefusedCalls /\ TakesTerm(c.from, c.t)
           /\ calls' = calls \ {c} /\ UNCHANGED <<logs, votes>>
           /\ c.t <= currentTerm[c.from] => "forgot" \in slips'
           /\ slips \subseteq slips'
<1>1. c \in RefusedCalls /\ c.from \in Nodes /\ c.t \in 0..MaxTerm
    <2>1. c.kind = "refused"
        BY DEF VoteRefused
    <2> QED BY <2>1, CallKinds DEF RefusedCalls, Types
<1>2. /\ TakesTerm(c.from, c.t) /\ calls' = calls \ {c} /\ UNCHANGED <<logs, votes>>
      /\ UNCHANGED <<index, loop, proposing>>
      /\ c.t <= currentTerm[c.from] => "forgot" \in slips'
      /\ slips \subseteq slips' /\ slips' \subseteq slips \cup {"forgot"}
    BY DEF VoteRefused, TakesTerm
<1>3. slips' \subseteq {"usurped", "forgot", "overclaimed"} /\ calls' \subseteq calls
    BY <1>2 DEF Types, NodeTypes
<1>4. Types'
    BY <1>1, <1>2, <1>3, TakesTermTypes
<1> QED BY <1>1, <1>2, <1>4

\* A step that changes what a sender believes of one peer, and its commit index.
LEMMA IndexStepTypes ==
    ASSUME Types, NEW n \in Nodes, NEW p \in Peers(n),
           NEW i \in 0..MaxLog, NEW j \in 0..MaxLog, NEW k \in 0..MaxLog,
           state[n] = "leader" => i <= Len(log[n]),
           nextIndex' = [nextIndex EXCEPT ![n][p] = i],
           \/ UNCHANGED matchIndex
           \/ matchIndex' = [matchIndex EXCEPT ![n] = [matchIndex[n] EXCEPT ![p] = j]],
           \/ UNCHANGED commitIndex
           \/ commitIndex' = [commitIndex EXCEPT ![n] = k],
           UNCHANGED <<node, log, loop, proposing, votes>>,
           slips' \subseteq {"usurped", "forgot", "overclaimed"}, calls' \subseteq calls
    PROVE  Types'
<1> USE DEF Types
<1>1. NodeTypes' /\ LogTypes' /\ CallTypes'
    <2>1. NodeTypes'
        BY DEF NodeTypes, node
    <2>2. LogTypes'
        BY DEF LogTypes
    <2> QED BY <2>1, <2>2, FewerCallTypes
<1>2. /\ DOMAIN nextIndex' = Nodes /\ DOMAIN matchIndex' = Nodes
      /\ \A m \in Nodes : nextIndex'[m] \in [Peers(m) -> 0..MaxLog]
    BY DEF IndexTypes
<1>3. \A m \in Nodes : matchIndex'[m] \in [Peers(m) -> 0..MaxLog]
    <2>1. CASE UNCHANGED matchIndex
        BY <2>1 DEF IndexTypes
    <2>2. CASE matchIndex' = [matchIndex EXCEPT ![n] = [matchIndex[n] EXCEPT ![p] = j]]
        <3>1. [matchIndex[n] EXCEPT ![p] = j] \in [Peers(n) -> 0..MaxLog]
            BY DEF IndexTypes
        <3> QED BY <2>2, <3>1 DEF IndexTypes
    <2> QED BY <2>1, <2>2
<1>4. \A m \in Nodes : \A q \in Peers(m) :
        nextIndex'[m][q] = nextIndex[m][q] \/ (m = n /\ nextIndex'[m][q] = i)
    BY DEF IndexTypes
<1>5. Leading'
    BY <1>4 DEF Leading, node
<1> QED BY <1>1, <1>2, <1>3, <1>5 DEF IndexTypes

LEMMA StepBackType ==
    ASSUME NEW i \in 0..MaxLog
    PROVE  StepBack(i) \in 0..MaxLog /\ StepBack(i) <= i
BY RaftAssumption DEF StepBack

LEMMA LoseAppendTypes ==
    ASSUME Types, NEW c \in calls, LoseAppend(c)
    PROVE  Types' /\ calls' = calls \ {c} /\ UNCHANGED <<node, logs, votes, slips>>
<1> DEFINE n == c.from
           p == c.to
           i == IF state[n] = "leader" /\ currentTerm[n] = c.term
                THEN StepBack(nextIndex[n][p]) ELSE nextIndex[n][p]
<1>1. n \in Nodes /\ p \in Peers(n)
    BY CallKinds DEF Types
<1>2. /\ calls' = calls \ {c} /\ nextIndex' = [nextIndex EXCEPT ![n][p] = i]
      /\ UNCHANGED <<node, logs, matchIndex, loop, proposing, votes, slips>>
    BY DEF LoseAppend
<1>3. nextIndex[n][p] \in 0..MaxLog
    BY <1>1 DEF Types, IndexTypes
<1>4. i \in 0..MaxLog /\ i <= nextIndex[n][p]
    BY <1>3, StepBackType
<1>5. state[n] = "leader" => i <= Len(log[n])
    <2>1. state[n] = "leader" => nextIndex[n][p] <= Len(log[n])
        BY <1>1 DEF Types, Leading
    <2>2. Len(log[n]) \in Nat
        BY <1>1 DEF Types, LogTypes
    <2> QED BY <2>1, <2>2, <1>3, <1>4
<1>6. /\ UNCHANGED <<node, log, loop, proposing, votes>> /\ calls' \subseteq calls
      /\ slips' \subseteq {"usurped", "forgot", "overclaimed"} /\ UNCHANGED commitIndex
      /\ UNCHANGED matchIndex
    BY <1>2 DEF logs, Types, NodeTypes
<1>7. Types'
    <2>1. PICK x \in 0..MaxLog : x = i
        BY <1>4
    <2> HIDE DEF i
    <2>2. nextIndex' = [nextIndex EXCEPT ![n][p] = x] /\ (state[n] = "leader" => x <= Len(log[n]))
        BY <2>1, <1>2, <1>5
    <2> QED BY <2>2, <1>1, <1>6, IndexStepTypes
<1> QED BY <1>2, <1>7

LEMMA AppendedTypes ==
    ASSUME Types, NEW c \in calls, Appended(c)
    PROVE  /\ Types' /\ c \in AppendedCalls
           /\ calls' = calls \ {c} /\ UNCHANGED <<log, votes>> /\ slips \subseteq slips'
           /\ \/ UNCHANGED node
              \/ c.t > currentTerm[c.from] /\ TakesTerm(c.from, c.t)
<1> DEFINE n == c.from
           p == c.to
           len == Len(log[n])
           match == [matchIndex[n] EXCEPT ![p] = len]
           new == Committable(n, match)
           commit == IF new = {} THEN commitIndex[n] ELSE Max(new)
           current == state[n] = "leader" /\ currentTerm[n] = c.term
<1>1. n \in Nodes /\ p \in Peers(n) /\ c \in AppendedCalls /\ c.t \in 0..MaxTerm
    <2>1. c.kind = "appended"
        BY DEF Appended
    <2> QED BY <2>1, CallKinds DEF AppendedCalls, Types
<1>2. /\ calls' = calls \ {c} /\ UNCHANGED <<log, votes, loop, proposing>>
      /\ \/ /\ c.t > currentTerm[n] /\ TakesTerm(n, c.t)
            /\ UNCHANGED <<commitIndex, index, slips>>
         \/ UNCHANGED <<node, commitIndex, index, slips>>
         \/ /\ current /\ nextIndex' = [nextIndex EXCEPT ![n][p] = len]
            /\ matchIndex' = [matchIndex EXCEPT ![n] = match]
            /\ commitIndex' = [commitIndex EXCEPT ![n] = commit]
            /\ slips' = slips \cup IF c.upTo < len THEN {"overclaimed"} ELSE {}
            /\ UNCHANGED node
         \/ /\ nextIndex' = [nextIndex EXCEPT ![n][p] = StepBack(@)]
            /\ UNCHANGED <<node, commitIndex, matchIndex, slips>>
    BY DEF Appended, TakesTerm
<1>3. /\ nextIndex[n][p] \in 0..MaxLog /\ len \in 0..MaxLog /\ commitIndex[n] \in 0..MaxLog
      /\ state[n] = "leader" => nextIndex[n][p] <= len
    BY <1>1 DEF Types, IndexTypes, LogTypes, Leading
<1>4. commit \in 0..MaxLog
    <2>1. new \in SUBSET (0..MaxLog)
        <3>1. new \subseteq commitIndex[n] + 1 .. Len(log[n])
            BY DEF Committable
        <3> HIDE DEF new
        <3>2. \A i \in commitIndex[n] + 1 .. Len(log[n]) : i \in 0..MaxLog
            <4>1. PICK a \in 0..MaxLog : a = commitIndex[n]
                BY <1>3
            <4>2. PICK b \in 0..MaxLog : b = Len(log[n])
                BY <1>3
            <4>3. \A i \in a + 1 .. b : i \in 0..MaxLog
                BY RaftAssumption
            <4> QED BY <4>1, <4>2, <4>3
        <3> QED BY <3>1, <3>2
    <2>2. new # {} => Max(new) \in new
        BY <2>1, GreatestNumber, RaftAssumption
    <2> HIDE DEF new
    <2> QED BY <2>1, <2>2, <1>3
<1>5. /\ slips \subseteq slips' /\ calls' \subseteq calls
      /\ slips' \subseteq {"usurped", "forgot", "overclaimed"}
    BY <1>2 DEF Types, NodeTypes
<1>6. \/ UNCHANGED node
      \/ c.t > currentTerm[c.from] /\ TakesTerm(c.from, c.t)
    BY <1>2
<1> HIDE DEF commit, current
<1>7. Types'
    <2>1. CASE TakesTerm(n, c.t) /\ UNCHANGED <<commitIndex, index, slips>>
        <3>1. UNCHANGED <<logs, index, loop, proposing, votes>>
            BY <2>1, <1>2 DEF logs
        <3> QED BY <2>1, <3>1, <1>1, <1>5, TakesTermTypes
    <2>2. CASE UNCHANGED <<node, commitIndex, index, slips>>
        <3>1. /\ NodeTypes' /\ LogTypes' /\ IndexTypes' /\ CallTypes'
            BY <2>2, <1>2, FewerCallTypes
            DEF Types, NodeTypes, LogTypes, IndexTypes, node, index
        <3>2. Leading'
            BY <2>2, <1>2 DEF Types, Leading, node, index
        <3> QED BY <3>1, <3>2 DEF Types
    <2>3. CASE /\ nextIndex' = [nextIndex EXCEPT ![n][p] = len]
               /\ matchIndex' = [matchIndex EXCEPT ![n] = match]
               /\ commitIndex' = [commitIndex EXCEPT ![n] = commit]
               /\ UNCHANGED node
        <3>1. PICK x \in 0..MaxLog : x = len
            BY <1>3
        <3>2. PICK y \in 0..MaxLog : y = commit
            BY <1>4
        <3>3. /\ nextIndex' = [nextIndex EXCEPT ![n][p] = x]
              /\ matchIndex' = [matchIndex EXCEPT ![n] = [matchIndex[n] EXCEPT ![p] = x]]
              /\ commitIndex' = [commitIndex EXCEPT ![n] = y]
              /\ x <= Len(log[n])
            BY <2>3, <3>1, <3>2
        <3>4. UNCHANGED <<node, log, loop, proposing, votes>>
            BY <2>3, <1>2
        <3> QED BY <3>3, <3>4, <1>1, <1>5, IndexStepTypes
    <2>4. CASE /\ nextIndex' = [nextIndex EXCEPT ![n][p] = StepBack(@)]
               /\ UNCHANGED <<node, commitIndex, matchIndex, slips>>
        <3>1. PICK x \in 0..MaxLog : x = StepBack(nextIndex[n][p]) /\ x <= nextIndex[n][p]
            BY <1>3, StepBackType
        <3>2. /\ nextIndex' = [nextIndex EXCEPT ![n][p] = x]
              /\ state[n] = "leader" => x <= Len(log[n])
            BY <2>4, <3>1, <1>3
        <3>3. UNCHANGED <<node, log, loop, proposing, votes>>
            BY <2>4, <1>2
        <3> QED BY <3>2, <3>3, <2>4, <1>1, <1>5, IndexStepTypes
    <2> QED BY <2>1, <2>2, <2>3, <2>4, <1>2
<1> QED BY <1>1, <1>2, <1>5, <1>6, <1>7

-----------------------------------------------------------------------------
(* Every step keeps the records                                            *)

LEMMA VotersFinite ==
    ASSUME NEW H, NEW n, NEW r
    PROVE  /\ Voters(H, n, r) \subseteq Nodes /\ IsFiniteSet(Voters(H, n, r))
           /\ Cardinality(Voters(H, n, r)) \in Nat /\ Cardinality(Nodes) \in Nat
           /\ Cardinality(Voters(H, n, r)) <= Cardinality(Nodes)
<1>1. Voters(H, n, r) \subseteq Nodes /\ IsFiniteSet(Nodes)
    BY RaftAssumption DEF Voters
<1> QED BY <1>1, FS_Subset, FS_CardinalityType

\* Two majorities have a voter in common, who has voted once.
LEMMA OneElected ==
    ASSUME NEW E, NEW H, NEW V, Ballots(E, H, V), NEW t \in Nat,
           NEW m \in Nodes, NEW n \in Nodes, Elected(E, H, m, t), Elected(E, H, n, t)
    PROVE  m = n
<1>1. PICK r \in Nat : <<m, r, t>> \in E /\ Majority(Cardinality(Voters(H, m, r)))
    BY DEF Elected
<1>2. PICK q \in Nat : <<n, q, t>> \in E /\ Majority(Cardinality(Voters(H, n, q)))
    BY DEF Elected
<1>3. Cardinality(Voters(H, m, r)) + Cardinality(Voters(H, n, q)) > Cardinality(Nodes)
    <2>1. /\ Cardinality(Voters(H, m, r)) \in Nat /\ Cardinality(Voters(H, n, q)) \in Nat
          /\ Cardinality(Nodes) \in Nat
        BY VotersFinite
    <2> QED BY <2>1, <1>1, <1>2 DEF Majority
<1>4. /\ IsFiniteSet(Nodes) /\ Voters(H, m, r) \subseteq Nodes /\ Voters(H, n, q) \subseteq Nodes
    BY VotersFinite, RaftAssumption
<1>5. PICK p \in Nodes : p \in Voters(H, m, r) /\ p \in Voters(H, n, q)
    <2>1. Voters(H, m, r) \cap Voters(H, n, q) # {}
        BY <1>3, <1>4, FS_MajoritiesIntersect
    <2> QED BY <2>1, <1>4
<1>6. <<p, m, t>> \in V /\ <<p, n, t>> \in V
    BY <1>1, <1>2, <1>5 DEF Voters, Ballots
<1> QED BY <1>6 DEF Ballots

\* More counted votes leave the elected elected.
LEMMA StillElected ==
    ASSUME NEW E, NEW H, NEW E2, NEW H2, E \subseteq E2, H \subseteq H2,
           NEW n \in Nodes, NEW t \in Nat, Elected(E, H, n, t)
    PROVE  Elected(E2, H2, n, t)
<1>1. PICK r \in Nat : <<n, r, t>> \in E /\ Majority(Cardinality(Voters(H, n, r)))
    BY DEF Elected
<1>2. Voters(H, n, r) \subseteq Voters(H2, n, r)
    BY DEF Voters
<1>3. Cardinality(Voters(H, n, r)) <= Cardinality(Voters(H2, n, r))
    BY <1>2, VotersFinite, FS_Subset
<1>4. /\ Cardinality(Voters(H, n, r)) \in Nat /\ Cardinality(Voters(H2, n, r)) \in Nat
      /\ Cardinality(Nodes) \in Nat
    BY VotersFinite
<1>5. Majority(Cardinality(Voters(H2, n, r)))
    BY <1>1, <1>3, <1>4 DEF Majority
<1> QED BY <1>1, <1>5 DEF Elected

LEMMA InitRecords == Init => Records({}, {}, {}, {}, {<<>>})
<1> SUFFICES ASSUME Init PROVE Records({}, {}, {}, {}, {<<>>})
    OBVIOUS
<1> USE DEF Init
<1>1. \A n \in Nodes : Len(votes[n]) = 0
    OBVIOUS
<1>2. Counting({})
    BY <1>1 DEF Counting
<1>3. Rounds({}) /\ VotesGiven({}) /\ Ballots({}, {}, {}) /\ Led({}, {}, {})
    BY DEF Rounds, VotesGiven, Ballots, Led
<1>4. LogHistory({}, {<<>>})
    <2>1. \A s \in {<<>>} : s \in Seq(Entries) /\ Len(s) = 0
        OBVIOUS
    <2> QED BY <2>1 DEF LogHistory, Match
<1> QED BY <1>2, <1>3, <1>4 DEF Records

\* What a step that adds nothing to the records may do to a node: leave it, or
\* make it a follower, in a newer term or with a log that has been there.
Stays(n) ==
    /\ UNCHANGED <<currentTerm[n], votedFor[n], log[n]>>
    /\ state'[n] = "leader" <=> state[n] = "leader"
Rises(n, A) ==
    currentTerm'[n] > currentTerm[n] /\ state'[n] # "leader" /\ log'[n] \in A
Follows(n, A) ==
    /\ UNCHANGED <<currentTerm[n], votedFor[n]>>
    /\ state[n] # "leader" /\ state'[n] # "leader" /\ log'[n] \in A

\* A call that is new and needs no new record.
Backed(c, L, A) ==
    \/ c.kind = "refused"
    \/ /\ Replicating(c) /\ c.from \in Nodes
       /\ NoSlip' => <<c.from, c.term>> \in L
       /\ NoSlip' /\ c.kind = "append" => \E s \in A : Carries(c, s)

LEMMA KeepRecords ==
    ASSUME Types, Types', NEW E, NEW H, NEW V, NEW L, NEW A, Records(E, H, V, L, A),
           UNCHANGED votes, slips \subseteq slips',
           \A c \in calls' : c \in calls \/ Backed(c, L, A),
           NoSlip' => \A n \in Nodes : Stays(n) \/ Rises(n, A) \/ Follows(n, A)
    PROVE  Records(E, H, V, L, A)'
<1>1. \A c \in calls' : Voting(c) => c \in calls
    BY DEF Backed, Voting, Replicating
<1>2. Counting(H)'
    BY <1>1 DEF Counting, Records, Voting
<1>3. ASSUME NoSlip' PROVE /\ Rounds(E)' /\ VotesGiven(V)' /\ Ballots(E, H, V)'
                           /\ Led(E, H, L)' /\ LogHistory(L, A)'
    <2>1. NoSlip
        BY <1>3 DEF NoSlip
    <2>2. Rounds(E) /\ VotesGiven(V) /\ Ballots(E, H, V) /\ Led(E, H, L) /\ LogHistory(L, A)
        BY <2>1 DEF Records
    <2>3. Rounds(E)'
        BY <2>2, <1>1 DEF Rounds, Voting
    <2>4. Ballots(E, H, V)'
        BY <2>2 DEF Ballots
    <2>5. \A n \in Nodes : /\ currentTerm[n] \in Nat /\ currentTerm'[n] \in Nat
                           /\ currentTerm'[n] >= currentTerm[n]
                           /\ currentTerm'[n] = currentTerm[n] => votedFor'[n] = votedFor[n]
        BY <1>3 DEF Types, NodeTypes, Stays, Rises, Follows
    <2>6. VotesGiven(V)'
        <3>1. ASSUME NEW p \in Nodes, NEW n \in Nodes, NEW t \in Nat, <<p, n, t>> \in V
              PROVE  t <= currentTerm'[p] /\ (t = currentTerm'[p] => votedFor'[p] = n)
            <4>1. t <= currentTerm[p] /\ (t = currentTerm[p] => votedFor[p] = n)
                BY <2>2, <3>1 DEF VotesGiven
            <4> QED BY <4>1, <2>5
        <3>2. \A c \in calls' : c.kind = "granted" => <<c.to, c.from, c.term>> \in V
            BY <2>2, <1>1 DEF VotesGiven, Voting
        <3> QED BY <3>1, <3>2 DEF VotesGiven
    <2>7. Led(E, H, L)'
        <3>1. ASSUME NEW n \in Nodes, NEW t \in Nat, <<n, t>> \in L
              PROVE  /\ Elected(E, H, n, t) /\ t <= currentTerm'[n]
                     /\ t = currentTerm'[n] => state'[n] = "leader"
            <4>1. /\ Elected(E, H, n, t) /\ t <= currentTerm[n]
                  /\ t = currentTerm[n] => state[n] = "leader"
                BY <2>2, <3>1 DEF Led
            <4>2. t = currentTerm'[n] => state'[n] = "leader"
                <5>1. CASE Stays(n)
                    BY <4>1, <5>1 DEF Stays
                <5>2. CASE Rises(n, A)
                    BY <4>1, <5>2, <2>5 DEF Rises
                <5>3. CASE Follows(n, A)
                    BY <4>1, <5>3 DEF Follows
                <5> QED BY <5>1, <5>2, <5>3, <1>3
            <4> QED BY <4>1, <4>2, <2>5
        <3>2. ASSUME NEW n \in Nodes, state'[n] = "leader"
              PROVE  <<n, currentTerm'[n]>> \in L
            BY <3>2, <2>2, <1>3 DEF Led, Stays, Rises, Follows
        <3>3. ASSUME NEW c \in calls', Replicating(c) PROVE <<c.from, c.term>> \in L
            <4>1. CASE c \in calls
                BY <4>1, <3>3, <2>2 DEF Led
            <4>2. CASE Backed(c, L, A)
                BY <4>2, <3>3, <1>3 DEF Backed, Replicating
            <4> QED BY <4>1, <4>2
        <3> QED BY <3>1, <3>2, <3>3 DEF Led, Replicating
    <2>8. LogHistory(L, A)'
        <3>1. \A n \in Nodes : log'[n] \in A
            BY <2>2, <1>3 DEF LogHistory, Stays, Rises, Follows
        <3>2. ASSUME NEW n \in Nodes, state'[n] = "leader"
              PROVE  \A s \in A : \A i \in 1..Len(s) :
                         s[i].term = currentTerm'[n] => i <= Len(log'[n])
            <4>1. Stays(n)
                BY <3>2, <1>3 DEF Rises, Follows
            <4> QED BY <4>1, <3>2, <2>2 DEF LogHistory, Stays
        <3>3. ASSUME NEW c \in calls', c.kind = "append" PROVE \E s \in A : Carries(c, s)
            <4>1. CASE c \in calls
                BY <4>1, <3>3, <2>2 DEF LogHistory
            <4>2. CASE Backed(c, L, A)
                BY <4>2, <3>3, <1>3 DEF Backed, Replicating
            <4> QED BY <4>1, <4>2
        <3> QED BY <3>1, <3>2, <3>3, <2>2 DEF LogHistory
    <2> QED BY <2>3, <2>4, <2>6, <2>7, <2>8
<1> QED BY <1>2, <1>3 DEF Records

LEMMA NodeRecords ==
    ASSUME Types, NEW E, NEW H, NEW V, NEW L, NEW A, Records(E, H, V, L, A), NEW n \in Nodes,
           \/ Dispatch(n) \/ FollowerTimeout(n) \/ CandidateWaitEnds(n)
           \/ LeaderTick(n) \/ ProposeReplicates(n)
    PROVE  Types' /\ Records(E, H, V, L, A)'
<1>1. CASE Dispatch(n) \/ FollowerTimeout(n) \/ CandidateWaitEnds(n)
    <2>1. Types'
        BY <1>1, LoopTypes
    <2>2. /\ UNCHANGED <<currentTerm, votedFor, log, votes, calls, slips>>
          /\ \/ UNCHANGED state
             \/ loop[n] = "follower" /\ state' = [state EXCEPT ![n] = "candidate"]
        BY <1>1 DEF Dispatch, FollowerTimeout, CandidateWaitEnds, node, logs
    <2>3. \A m \in Nodes : Stays(m)
        BY <2>2 DEF Stays, Types, Leading, NodeTypes
    <2> QED BY <2>1, <2>2, <2>3, KeepRecords
<1>2. CASE LeaderTick(n) \/ ProposeReplicates(n)
    <2>1. /\ Types' /\ UNCHANGED <<node, logs, index, votes, slips>>
          /\ \A c \in calls' : c \in calls \/
                (state[n] = "leader" /\ \E by \in {"tick", "propose"} : c \in Replicate(n, by))
        BY <1>2, SendTypes
    <2>2. \A m \in Nodes : Stays(m)
        BY <2>1 DEF Stays, node, logs
    <2>3. ASSUME NEW c \in calls', c \notin calls PROVE Backed(c, L, A)
        <3>1. PICK by \in {"tick", "propose"} : c \in Replicate(n, by)
            BY <2>1, <2>3
        <3>2. /\ state[n] = "leader" /\ c \in AppendCalls
              /\ c.from = n /\ c.term = currentTerm[n] /\ Carries(c, log[n])
            BY <2>1, <2>3, <3>1, ReplicateTypes
        <3>3. c.kind = "append"
            BY <3>2 DEF AppendCalls
        <3>4. NoSlip' => <<c.from, c.term>> \in L /\ log[n] \in A
            BY <3>2, <2>1 DEF NoSlip, Records, Led, LogHistory
        <3> QED BY <3>2, <3>3, <3>4 DEF Backed, Replicating
    <2>4. UNCHANGED <<votes, slips>>
        BY <2>1
    <2> QED BY <2>1, <2>2, <2>3, <2>4, KeepRecords
<1> QED BY <1>1, <1>2

\* An answer to AppendEntries, or a lost call.
LEMMA AnswerRecords ==
    ASSUME Types, NEW E, NEW H, NEW V, NEW L, NEW A, Records(E, H, V, L, A), NEW c \in calls,
           LoseAppend(c) \/ Appended(c) \/ VoteRefused(c)
    PROVE  Types' /\ Records(E, H, V, L, A)'
<1>0. c.from \in Nodes
    BY CallKinds DEF Types
<1>1. CASE LoseAppend(c)
    <2>1. Types' /\ calls' = calls \ {c} /\ UNCHANGED <<node, logs, votes, slips>>
        BY <1>1, LoseAppendTypes
    <2>2. \A m \in Nodes : Stays(m)
        BY <2>1 DEF Stays, node, logs
    <2> QED BY <2>1, <2>2, KeepRecords
<1>2. ASSUME NEW t \in 0..MaxTerm, TakesTerm(c.from, t), NoSlip' => t > currentTerm[c.from],
             UNCHANGED log, NoSlip' => NoSlip
      PROVE  NoSlip' => \A n \in Nodes : Stays(n) \/ Rises(n, A)
    <2> SUFFICES ASSUME NoSlip', NEW n \in Nodes PROVE Stays(n) \/ Rises(n, A)
        OBVIOUS
    <2>1. CASE n = c.from
        <3>1. currentTerm'[n] = t /\ state'[n] = "follower"
            BY <1>2, <2>1, <1>0 DEF TakesTerm, Types, NodeTypes
        <3>2. log'[n] \in A
            BY <1>2 DEF Records, LogHistory
        <3> QED BY <3>1, <3>2, <2>1, <1>2 DEF Rises
    <2>2. CASE n # c.from
        BY <2>2, <1>2 DEF TakesTerm, Stays, Types, NodeTypes
    <2> QED BY <2>1, <2>2
<1>3. CASE Appended(c)
    <2>1. /\ Types' /\ c \in AppendedCalls
          /\ calls' = calls \ {c} /\ UNCHANGED <<log, votes>> /\ slips \subseteq slips'
          /\ \/ UNCHANGED node
             \/ c.t > currentTerm[c.from] /\ TakesTerm(c.from, c.t)
        BY <1>3, AppendedTypes
    <2>2. NoSlip' => \A n \in Nodes : Stays(n) \/ Rises(n, A)
        <3>1. CASE UNCHANGED node
            BY <3>1, <2>1 DEF Stays, node
        <3>2. CASE c.t > currentTerm[c.from] /\ TakesTerm(c.from, c.t)
            <4>1. c.t \in 0..MaxTerm /\ (NoSlip' => NoSlip)
                BY <2>1 DEF AppendedCalls, NoSlip
            <4> QED BY <4>1, <3>2, <2>1, <1>2
        <3> QED BY <3>1, <3>2, <2>1
    <2> QED BY <2>1, <2>2, KeepRecords
<1>4. CASE VoteRefused(c)
    <2>1. /\ Types' /\ c \in RefusedCalls /\ TakesTerm(c.from, c.t)
          /\ calls' = calls \ {c} /\ UNCHANGED <<logs, votes>>
          /\ c.t <= currentTerm[c.from] => "forgot" \in slips'
          /\ slips \subseteq slips'
        BY <1>4, VoteRefusedTypes
    <2>2. /\ c.t \in 0..MaxTerm /\ UNCHANGED log /\ NoSlip' => NoSlip
        BY <2>1 DEF RefusedCalls, logs, NoSlip
    <2>3. NoSlip' => c.t > currentTerm[c.from]
        <3>1. currentTerm[c.from] \in Nat /\ c.t \in Nat
            BY <1>0, <2>1 DEF RefusedCalls, Types, NodeTypes
        <3> QED BY <3>1, <2>1 DEF NoSlip
    <2>4. NoSlip' => \A n \in Nodes : Stays(n) \/ Rises(n, A)
        <3>1. UNCHANGED log /\ (NoSlip' => NoSlip) /\ c.t \in 0..MaxTerm
            BY <2>1 DEF RefusedCalls, logs, NoSlip
        <3> QED BY <3>1, <2>1, <2>3, <1>2
    <2> QED BY <2>1, <2>4, KeepRecords
<1> QED BY <1>1, <1>3, <1>4

\* The merged log is the follower's own, which has all that the call carries, or
\* the carried one, from which the follower's differed.
LEMMA MergedIsKnown ==
    ASSUME NEW l \in Seq(Entries), NEW s \in Seq(Entries), Match(l, s), Match(s, l),
           NEW c \in AppendCalls, Carries(c, s), Consistent(l, c.prev, c.prevTerm)
    PROVE  \/ /\ Merged(l, c.prev, c.entries) = l
              /\ Len(s) <= Len(l) /\ \A j \in 1..Len(s) : l[j] = s[j]
           \/ /\ Merged(l, c.prev, c.entries) = s
              /\ \E j \in 1..Len(s) : j > Len(l) \/ l[j].term # s[j].term
<1>1. PICK k \in Nat : k = c.prev
    BY DEF AppendCalls
<1>2. PICK es \in Seq(Entries) : es = c.entries
    BY DEF AppendCalls
<1>3. /\ Len(s) = k + Len(es) /\ Len(l) \in Nat /\ Len(es) \in Nat
      /\ \A i \in 1..Len(es) : es[i] = s[k + i]
    <2>1. Len(l) \in Nat /\ Len(es) \in Nat
        OBVIOUS
    <2>2. /\ Len(s) = c.prev + Len(c.entries)
          /\ \A i \in 1..Len(c.entries) : c.entries[i] = s[c.prev + i]
        BY DEF Carries
    <2> QED BY <2>1, <2>2, <1>1, <1>2
<1>4. k <= Len(l) /\ (k > 0 => l[k].term = s[k].term)
    BY <1>1, <1>3 DEF Consistent, Carries
<1>5. CASE /\ Merged(l, k, es) = l /\ k + Len(es) <= Len(l)
           /\ \A i \in 1..Len(es) : l[k + i].term = es[i].term
    <2>1. Len(s) <= Len(l)
        BY <1>3, <1>5
    <2>2. CASE Len(s) = 0
        BY <2>1, <2>2, <1>1, <1>2, <1>5
    <2>3. CASE Len(s) # 0
        <3>1. Len(s) \in 1..Len(s) /\ Len(s) \in Nat
            BY <2>3
        <3>2. s[Len(s)].term = l[Len(s)].term
            <4>1. CASE Len(es) = 0
                BY <4>1, <3>1, <1>3, <1>4
            <4>2. CASE Len(es) # 0
                <5>1. Len(es) \in 1..Len(es) /\ k + Len(es) = Len(s)
                    BY <4>2, <1>3
                <5> QED BY <5>1, <1>3, <1>5
            <4> QED BY <4>1, <4>2
        <3>3. \A j \in 1..Len(s) : s[j] = l[j]
            BY <3>1, <3>2, <2>1 DEF Match
        <3> QED BY <3>3, <2>1, <1>1, <1>2, <1>5
    <2> QED BY <2>2, <2>3
<1>6. CASE /\ Merged(l, k, es) \in Seq(Entries)
           /\ \E m \in 1..Len(es) : ReplacedFrom(Merged(l, k, es), l, k, es, m)
    <2>1. PICK m \in 1..Len(es) :
            /\ k + m - 1 <= Len(l)
            /\ \A i \in 1..(m - 1) : l[k + i].term = es[i].term
            /\ Merged(l, k, es) \in Seq(Entries)
            /\ Len(Merged(l, k, es)) = k + Len(es)
            /\ \A i \in 1..(k + m - 1) : Merged(l, k, es)[i] = l[i]
            /\ \A i \in m..Len(es) : Merged(l, k, es)[k + i] = es[i]
            /\ k + m > Len(l) \/ l[k + m].term # es[m].term
        BY <1>6 DEF ReplacedFrom
    <2>2. PICK u \in Seq(Entries) : u = Merged(l, k, es)
        BY <2>1
    <2>3. \A i \in 1..(k + m - 1) : l[i] = s[i]
        <3>1. CASE k + m - 1 = 0
            BY <3>1
        <3>2. CASE k + m - 1 # 0
            <4>1. k + m - 1 \in 1..Len(l) /\ k + m - 1 <= Len(s)
                BY <3>2, <2>1, <1>3
            <4>2. l[k + m - 1].term = s[k + m - 1].term
                <5>1. CASE m = 1
                    BY <5>1, <1>4, <3>2
                <5>2. CASE m # 1
                    <6>1. m - 1 \in 1..(m - 1) /\ m - 1 \in 1..Len(es) /\ k + (m - 1) = k + m - 1
                        BY <5>2, <1>3
                    <6>2. l[k + (m - 1)].term = es[m - 1].term /\ es[m - 1] = s[k + (m - 1)]
                        BY <6>1, <2>1, <1>3
                    <6> QED BY <6>1, <6>2
                <5> QED BY <5>1, <5>2
            <4> QED BY <4>1, <4>2 DEF Match
        <3> QED BY <3>1, <3>2
    <2>4. Len(u) = Len(s)
        BY <2>1, <2>2, <1>3
    <2>5. ASSUME NEW i \in 1..Len(s) PROVE u[i] = s[i]
        <3>1. CASE i <= k + m - 1
            <4>1. i \in 1..(k + m - 1)
                BY <3>1, <1>3
            <4> QED BY <4>1, <2>1, <2>2, <2>3
        <3>2. CASE i > k + m - 1
            <4>1. i - k \in m..Len(es) /\ i - k \in 1..Len(es) /\ k + (i - k) = i
                BY <3>2, <1>3
            <4> QED BY <4>1, <2>1, <2>2, <1>3
        <3> QED BY <3>1, <3>2, <1>3
    <2>6. u = s
        BY <2>4, <2>5
    <2>7. k + m \in 1..Len(s) /\ (k + m > Len(l) \/ l[k + m].term # s[k + m].term)
        BY <2>1, <1>3
    <2> QED BY <2>2, <2>6, <2>7, <1>1, <1>2
<1>7. k <= Len(l)
    BY <1>4
<1> QED BY <1>5, <1>6, <1>7, MergedFacts

LEMMA AppendRecords ==
    ASSUME Types, NEW E, NEW H, NEW V, NEW L, NEW A, Records(E, H, V, L, A), NEW c \in calls,
           HandleAppendEntries(c)
    PROVE  Types' /\ Records(E, H, V, L, A)'
<1>1. Types' /\ AppendStep(c) /\ c \in AppendCalls /\ UNCHANGED <<votes, slips>>
    BY AppendStepTypes DEF HandleAppendEntries
<1>2. /\ c.from \in Nodes /\ c.to \in Nodes /\ c.from # c.to /\ c.kind = "append"
      /\ c.term \in Nat
    BY <1>1, CallKinds DEF AppendCalls, Types
<1>3. ASSUME NEW d \in calls', d \notin calls PROVE Backed(d, L, A)
    <2>1. d.kind = "appended" /\ d.from = c.from /\ d.term = c.term
        BY <1>1, <1>3 DEF AppendStep
    <2>2. NoSlip' => <<c.from, c.term>> \in L
        BY <1>1, <1>2 DEF NoSlip, Records, Led, Replicating
    <2> QED BY <2>1, <2>2, <1>2 DEF Backed, Replicating
<1>4. ASSUME NoSlip', NEW n \in Nodes PROVE Stays(n) \/ Rises(n, A) \/ Follows(n, A)
    <2>1. /\ Rounds(E) /\ VotesGiven(V) /\ Ballots(E, H, V) /\ Led(E, H, L)
          /\ LogHistory(L, A)
        BY <1>1, <1>4 DEF Records, NoSlip
    <2>2. CASE n # c.to
        BY <2>2, <1>1 DEF AppendStep, Stays
    <2>3. CASE n = c.to
        <3>1. currentTerm[n] \in Nat /\ log[n] \in Seq(Entries) /\ log[n] \in A
            BY <2>1 DEF LogHistory, Types, NodeTypes, LogTypes
        <3>2. log'[n] \in A
            <4>1. CASE UNCHANGED log
                BY <4>1, <3>1
            <4>2. CASE /\ Consistent(log[n], c.prev, c.prevTerm)
                       /\ log'[n] = Merged(log[n], c.prev, c.entries)
                <5>1. PICK s \in A : Carries(c, s)
                    BY <2>1, <1>2 DEF LogHistory
                <5>2. s \in Seq(Entries) /\ Match(log[n], s) /\ Match(s, log[n])
                    BY <5>1, <3>1, <2>1 DEF LogHistory
                <5>3. PICK l \in Seq(Entries) : l = log[n]
                    BY <3>1
                <5>4. Match(l, s) /\ Match(s, l) /\ Consistent(l, c.prev, c.prevTerm)
                    BY <5>2, <5>3, <4>2
                <5>5. Merged(l, c.prev, c.entries) = l \/ Merged(l, c.prev, c.entries) = s
                    BY <5>1, <5>2, <5>4, <1>1, MergedIsKnown
                <5> QED BY <5>5, <5>3, <5>1, <4>2, <3>1
            <4> QED BY <4>1, <4>2, <2>3, <1>1 DEF AppendStep
        <3>3. CASE c.term < currentTerm[n]
            <4>1. UNCHANGED node /\ UNCHANGED log
                BY <3>3, <3>1, <2>3, <1>1, <1>2 DEF AppendStep
            <4> QED BY <4>1 DEF Stays, node
        <3>4. CASE c.term = currentTerm[n]
            <4>1. state[n] # "leader"
                <5> SUFFICES ASSUME state[n] = "leader" PROVE FALSE
                    OBVIOUS
                <5>1. <<n, c.term>> \in L /\ <<c.from, c.term>> \in L
                    BY <3>4, <2>1, <1>2 DEF Led, Replicating
                <5>2. Elected(E, H, n, c.term) /\ Elected(E, H, c.from, c.term)
                    BY <5>1, <2>1, <1>2 DEF Led
                <5>3. n = c.from
                    BY <5>2, <2>1, <1>2, OneElected
                <5> QED BY <5>3, <2>3, <1>2
            <4>2. UNCHANGED <<currentTerm[n], votedFor[n]>> /\ state'[n] = "follower"
                BY <3>4, <2>3, <1>1, <1>2 DEF AppendStep
            <4> QED BY <4>1, <4>2, <3>2 DEF Follows
        <3>5. CASE c.term > currentTerm[n]
            <4>1. currentTerm'[n] = c.term /\ state'[n] = "follower"
                BY <3>5, <3>1, <2>3, <1>1, <1>2 DEF AppendStep
            <4> QED BY <4>1, <3>5, <3>2 DEF Rises
        <3> QED BY <3>1, <3>3, <3>4, <3>5, <1>2
    <2> QED BY <2>2, <2>3
<1> QED BY <1>1, <1>3, <1>4, KeepRecords

LEMMA WithheldRecords ==
    ASSUME Types, NEW E, NEW H, NEW V, NEW L, NEW A, Records(E, H, V, L, A), NEW c \in calls,
           HandleRequestVote(c), VoteWithheld(c)
    PROVE  Types' /\ Records(E, H, V, L, A)'
<1>1. Types' /\ VoteStep(c) /\ c \in VoteCalls /\ UNCHANGED <<votes, slips, log>>
    BY VoteStepTypes DEF HandleRequestVote, logs
<1>2. c.to \in Nodes /\ currentTerm[c.to] \in Nat /\ c.term \in Nat
    BY <1>1 DEF VoteCalls, Types, NodeTypes
<1>3. ASSUME NEW d \in calls', d \notin calls PROVE Backed(d, L, A)
    BY <1>3 DEF Backed, VoteWithheld
<1>4. ASSUME NoSlip', NEW n \in Nodes PROVE Stays(n) \/ Rises(n, A)
    <2>1. log'[n] \in A
        BY <1>4, <1>1 DEF Records, NoSlip, LogHistory
    <2>2. CASE n # c.to
        BY <2>2, <1>1 DEF VoteStep, Stays
    <2>3. CASE n = c.to
        BY <2>3, <2>1, <1>1, <1>2 DEF VoteStep, VoteWithheld, Stays, Rises
    <2> QED BY <2>2, <2>3
<1> QED BY <1>1, <1>3, <1>4, KeepRecords

\* A vote that is given joins the votes.
LEMMA GivenRecords ==
    ASSUME Types, NEW E, NEW H, NEW V, NEW L, NEW A, Records(E, H, V, L, A), NEW c \in calls,
           HandleRequestVote(c), VoteGiven(c)
    PROVE  Types' /\ Records(E, H, V \cup {<<c.to, c.from, c.term>>}, L, A)'
<1>1. Types' /\ VoteStep(c) /\ c \in VoteCalls /\ UNCHANGED <<votes, slips, log>>
    BY VoteStepTypes DEF HandleRequestVote, logs
<1>2. /\ c.to \in Nodes /\ c.from \in Nodes /\ currentTerm[c.to] \in Nat
      /\ c.term \in Nat /\ c.round \in Nat /\ c.kind = "vote" /\ c.from # c.to
    BY <1>1, CallKinds DEF VoteCalls, Types, NodeTypes
<1>3. PICK g : /\ g.kind = "granted" /\ g.from = c.from /\ g.to = c.to
               /\ g.term = c.term /\ g.round = c.round
               /\ calls' = (calls \ {c}) \cup {g}
    BY DEF VoteGiven
<1>4. PICK V2 : V2 = V \cup {<<c.to, c.from, c.term>>}
    OBVIOUS
<1>5. Counting(H)'
    <2>1. Counting(H)
        BY DEF Records
    <2>2. ASSUME NEW d \in calls', Voting(d)
          PROVE  /\ d.round \in 1..Len(votes[d.from])
                 /\ <<d.from, d.round, d.to>> \notin H
        <3>1. CASE d = g
            BY <3>1, <2>1, <1>2, <1>3 DEF Counting, Voting
        <3>2. CASE d # g
            BY <3>2, <2>1, <2>2, <1>3 DEF Counting
        <3> QED BY <3>1, <3>2
    <2>3. ASSUME NEW d \in calls', NEW e \in calls', Voting(d), Voting(e),
                 d.from = e.from, d.to = e.to, d.round = e.round
          PROVE  d = e
        <3>1. \A x \in calls : Voting(x) /\ x # c =>
                ~(x.from = c.from /\ x.to = c.to /\ x.round = c.round)
            BY <2>1, <1>2 DEF Counting, Voting
        <3>2. CASE d = g \/ e = g
            BY <3>1, <3>2, <2>3, <1>3
        <3>3. CASE d # g /\ e # g
            BY <3>3, <2>1, <2>3, <1>3 DEF Counting
        <3> QED BY <3>2, <3>3
    <2> QED BY <2>1, <2>2, <2>3, <1>1 DEF Counting, Voting
<1>6. ASSUME NoSlip' PROVE /\ Rounds(E)' /\ VotesGiven(V2)' /\ Ballots(E, H, V2)'
                           /\ Led(E, H, L)' /\ LogHistory(L, A)'
    <2>1. /\ Rounds(E) /\ VotesGiven(V) /\ Ballots(E, H, V) /\ Led(E, H, L)
          /\ LogHistory(L, A)
        BY <1>1, <1>6 DEF Records, NoSlip
    <2>2. /\ c.term >= currentTerm[c.to] /\ currentTerm'[c.to] = c.term
          /\ votedFor'[c.to] = c.from
          /\ currentTerm[c.to] = c.term => votedFor[c.to] \in {Nobody, c.from}
        BY <1>1, <1>2 DEF VoteStep, VoteGiven
    <2>3. \A n \in Nodes : n # c.to => UNCHANGED <<state[n], currentTerm[n], votedFor[n]>>
        BY <1>1 DEF VoteStep
    <2>4. ASSUME NEW n \in Nodes, <<c.to, n, c.term>> \in V PROVE n = c.from
        <3>1. c.term <= currentTerm[c.to] /\ (c.term = currentTerm[c.to] => votedFor[c.to] = n)
            BY <2>1, <2>4, <1>2 DEF VotesGiven
        <3> QED BY <3>1, <2>2, <1>2, RaftAssumption
    <2>5. Ballots(E, H, V2)'
        <3>1. ASSUME NEW p \in Nodes, NEW m \in Nodes, NEW n \in Nodes, NEW t \in Nat,
                     <<p, m, t>> \in V2, <<p, n, t>> \in V2
              PROVE  m = n
            <4>1. \A x \in Nodes : <<p, x, t>> \in V2 =>
                    <<p, x, t>> \in V \/ (p = c.to /\ x = c.from /\ t = c.term)
                BY <1>4
            <4> QED BY <4>1, <3>1, <2>1, <2>4 DEF Ballots
        <3>2. \A n, p \in Nodes : \A r, t \in Nat :
                <<n, r, t>> \in E /\ <<n, r, p>> \in H => <<p, n, t>> \in V2
            BY <2>1, <1>4 DEF Ballots
        <3> QED BY <3>1, <3>2 DEF Ballots
    <2>6. VotesGiven(V2)'
        <3>1. ASSUME NEW p \in Nodes, NEW n \in Nodes, NEW t \in Nat, <<p, n, t>> \in V2
              PROVE  t <= currentTerm'[p] /\ (t = currentTerm'[p] => votedFor'[p] = n)
            <4>1. CASE p = c.to /\ n = c.from /\ t = c.term
                BY <4>1, <2>2, <1>2
            <4>2. CASE <<p, n, t>> \in V
                <5>1. t <= currentTerm[p] /\ (t = currentTerm[p] => votedFor[p] = n)
                    BY <4>2, <2>1 DEF VotesGiven
                <5>2. CASE p # c.to
                    BY <5>1, <5>2, <2>3
                <5>3. CASE p = c.to
                    <6>1. t = c.term => n = c.from
                        BY <5>3, <4>2, <2>4
                    <6> QED BY <6>1, <5>1, <5>3, <2>2, <1>2
                <5> QED BY <5>2, <5>3
            <4> QED BY <4>1, <4>2, <3>1, <1>4
        <3>2. ASSUME NEW d \in calls', d.kind = "granted"
              PROVE  <<d.to, d.from, d.term>> \in V2
            BY <3>2, <2>1, <1>3, <1>4 DEF VotesGiven
        <3> QED BY <3>1, <3>2 DEF VotesGiven
    <2>7. Rounds(E)'
        <3>1. ASSUME NEW d \in calls', Voting(d)
              PROVE  \A t \in Nat : <<d.from, d.round, t>> \in E <=> t = d.term
            <4>1. CASE d = g
                BY <4>1, <2>1, <1>2, <1>3 DEF Rounds, Voting
            <4>2. CASE d # g
                BY <4>2, <3>1, <2>1, <1>3 DEF Rounds
            <4> QED BY <4>1, <4>2
        <3> QED BY <3>1, <2>1, <1>1 DEF Rounds, Voting
    <2>8. \A n \in Nodes :
            /\ currentTerm[n] \in Nat /\ currentTerm'[n] \in Nat
            /\ \/ currentTerm'[n] = currentTerm[n] /\ state'[n] = state[n]
               \/ currentTerm'[n] > currentTerm[n] /\ state'[n] # "leader"
        <3>1. \A n \in Nodes : currentTerm[n] \in Nat /\ currentTerm'[n] \in Nat
            BY <1>1 DEF Types, NodeTypes
        <3>2. \/ currentTerm'[c.to] = currentTerm[c.to] /\ state'[c.to] = state[c.to]
              \/ currentTerm'[c.to] > currentTerm[c.to] /\ state'[c.to] # "leader"
            BY <1>1, <1>2 DEF VoteStep
        <3> QED BY <3>1, <3>2, <2>3
    <2>9. Led(E, H, L)'
        <3>1. ASSUME NEW n \in Nodes, NEW t \in Nat, <<n, t>> \in L
              PROVE  /\ Elected(E, H, n, t) /\ t <= currentTerm'[n]
                     /\ t = currentTerm'[n] => state'[n] = "leader"
            BY <3>1, <2>1, <2>8 DEF Led
        <3>2. \A n \in Nodes : state'[n] = "leader" => <<n, currentTerm'[n]>> \in L
            BY <2>1, <2>8 DEF Led
        <3>3. \A d \in calls' : Replicating(d) => <<d.from, d.term>> \in L
            BY <2>1, <1>3 DEF Led, Replicating
        <3> QED BY <3>1, <3>2, <3>3 DEF Led, Replicating
    <2>10. LogHistory(L, A)'
        <3>1. \A d \in calls' : d.kind = "append" => d \in calls
            BY <1>3
        <3>2. \A n \in Nodes : state'[n] = "leader" =>
                state[n] = "leader" /\ currentTerm'[n] = currentTerm[n]
            BY <2>8
        <3> QED BY <3>1, <3>2, <2>1, <1>1 DEF LogHistory
    <2> QED BY <2>5, <2>6, <2>7, <2>9, <2>10
<1>7. Records(E, H, V2, L, A)'
    BY <1>5, <1>6 DEF Records
<1> QED BY <1>1, <1>4, <1>7

\* A new election is for a term nobody has voted in at n, and counts n itself.
LEMMA CandidateRecords ==
    ASSUME Types, NEW E, NEW H, NEW V, NEW L, NEW A, Records(E, H, V, L, A), NEW n \in Nodes,
           RunCandidate(n)
    PROVE  Types' /\ \E E2, H2, V2 : /\ V2 = V \cup {<<n, n, currentTerm[n] + 1>>}
                                   /\ Records(E2, H2, V2, L, A)'
<1>1. Types'
    BY RunCandidateTypes
<1>2. PICK t \in Nat : t = currentTerm[n] + 1 /\ currentTerm[n] \in Nat
    BY DEF Types, NodeTypes
<1>3. PICK r \in Nat : r = Len(votes[n]) + 1 /\ Len(votes[n]) \in Nat
    <2>1. votes[n] \in Seq(Nat \ {0})
        BY DEF Types, NodeTypes
    <2>2. Len(votes[n]) \in Nat
        BY <2>1
    <2> QED BY <2>2
<1>4. /\ currentTerm' = [currentTerm EXCEPT ![n] = t]
      /\ votedFor' = [votedFor EXCEPT ![n] = n]
      /\ votes' = [votes EXCEPT ![n] = Append(@, 1)]
      /\ \A c \in calls' : c \in calls \/
            (c.kind = "vote" /\ c.from = n /\ c.to \in Peers(n) /\ c.round = r /\ c.term = t)
      /\ slips \subseteq slips' /\ (state[n] = "leader" => "usurped" \in slips')
      /\ UNCHANGED <<state, log>>
    BY <1>2, <1>3 DEF RunCandidate, logs
<1>5. \A c, d \in calls' : c \notin calls /\ d \notin calls /\ c.to = d.to => c = d
    BY DEF RunCandidate
<1>6. /\ currentTerm'[n] = t /\ votedFor'[n] = n
      /\ \A m \in Nodes : m # n => UNCHANGED <<currentTerm[m], votedFor[m], votes[m]>>
    BY <1>4 DEF Types, NodeTypes
<1>7. /\ Len(votes'[n]) = r /\ votes'[n][r] = 1
      /\ \A q \in 1..Len(votes[n]) : votes'[n][q] = votes[n][q]
    <2>1. PICK v \in Seq(Nat \ {0}) : v = votes[n]
        BY DEF Types, NodeTypes
    <2>2. votes'[n] = Append(v, 1)
        BY <2>1, <1>4 DEF Types, NodeTypes
    <2>3. /\ Len(Append(v, 1)) = Len(v) + 1 /\ Append(v, 1)[Len(v) + 1] = 1
          /\ \A q \in 1..Len(v) : Append(v, 1)[q] = v[q]
        OBVIOUS
    <2> QED BY <2>1, <2>2, <2>3, <1>3
<1>8. \A m \in Nodes : \A q \in 1..Len(votes'[m]) :
        (m = n /\ q = r) \/ (q \in 1..Len(votes[m]) /\ votes'[m][q] = votes[m][q])
    BY <1>3, <1>6, <1>7
<1>9. \A m \in Nodes : \A q \in Nat : q \in 1..Len(votes[m]) =>
        q \in 1..Len(votes'[m]) /\ ~(m = n /\ q = r)
    BY <1>3, <1>6, <1>7
<1>10. r \in 1..Len(votes'[n]) /\ r \notin 1..Len(votes[n])
    BY <1>3, <1>7
<1>11. PICK E2 : E2 = E \cup {<<n, r, t>>}
    OBVIOUS
<1>12. PICK H2 : H2 = H \cup {<<n, r, n>>}
    OBVIOUS
<1>13. PICK V2 : V2 = V \cup {<<n, n, t>>}
    OBVIOUS
<1>14. \A c \in calls : c.from \in Nodes /\ c.to \in Nodes /\ (Voting(c) => c.round \in Nat)
    BY CallKinds DEF Types, Voting, VoteCalls, GrantedCalls
<1>15. Counting(H)
    BY DEF Records
<1>16. Counting(H2)'
    <2>1. ASSUME NEW m \in Nodes, NEW q \in 1..Len(votes'[m])
          PROVE  votes'[m][q] = Cardinality(Voters(H2, m, q))
        <3>1. CASE m = n /\ q = r
            <4>1. Voters(H2, m, q) = {n}
                <5>1. \A p \in Nodes : <<n, r, p>> \notin H
                    BY <1>15, <1>10 DEF Counting
                <5> QED BY <5>1, <3>1, <1>12 DEF Voters
            <4>2. Cardinality({n}) = 1
                BY FS_Singleton
            <4> QED BY <4>1, <4>2, <3>1, <1>7
        <3>2. CASE ~(m = n /\ q = r)
            <4>1. q \in 1..Len(votes[m]) /\ votes'[m][q] = votes[m][q]
                BY <3>2, <1>8
            <4>2. Voters(H2, m, q) = Voters(H, m, q)
                BY <3>2, <1>12 DEF Voters
            <4> QED BY <4>1, <4>2, <1>15 DEF Counting
        <3> QED BY <3>1, <3>2
    <2>2. ASSUME NEW m \in Nodes, NEW p \in Nodes, NEW q \in Nat, <<m, q, p>> \in H2
          PROVE  q \in 1..Len(votes'[m])
        <3>1. CASE <<m, q, p>> \in H
            BY <3>1, <1>15, <1>9 DEF Counting
        <3>2. CASE m = n /\ q = r
            BY <3>2, <1>10
        <3> QED BY <3>1, <3>2, <2>2, <1>12
    <2>3. ASSUME NEW c \in calls', Voting(c)
          PROVE  /\ c.round \in 1..Len(votes'[c.from])
                 /\ <<c.from, c.round, c.to>> \notin H2
        <3>1. CASE c \in calls
            <4>1. c.round \in 1..Len(votes[c.from]) /\ <<c.from, c.round, c.to>> \notin H
                BY <3>1, <2>3, <1>15 DEF Counting
            <4> QED BY <4>1, <3>1, <2>3, <1>9, <1>12, <1>14
        <3>2. CASE c \notin calls
            <4>1. c.from = n /\ c.round = r /\ c.to \in Nodes /\ c.to # n
                BY <3>2, <1>4 DEF Peers
            <4>2. <<n, r, c.to>> \notin H
                BY <4>1, <1>15, <1>10 DEF Counting
            <4> QED BY <4>1, <4>2, <1>10, <1>12
        <3> QED BY <3>1, <3>2
    <2>4. ASSUME NEW c \in calls', NEW d \in calls', Voting(c), Voting(d),
                 c.from = d.from, c.to = d.to, c.round = d.round
          PROVE  c = d
        <3>1. \A e \in calls : Voting(e) => ~(e.from = n /\ e.round = r)
            BY <1>15, <1>10 DEF Counting
        <3>2. CASE c \in calls /\ d \in calls
            BY <3>2, <2>4, <1>15 DEF Counting
        <3>3. CASE c \notin calls /\ d \notin calls
            BY <3>3, <2>4, <1>5
        <3>4. CASE c \in calls /\ d \notin calls
            BY <3>4, <3>1, <2>4, <1>4
        <3>5. CASE c \notin calls /\ d \in calls
            BY <3>5, <3>1, <2>4, <1>4
        <3> QED BY <3>2, <3>3, <3>4, <3>5
    <2> QED BY <2>1, <2>2, <2>3, <2>4 DEF Counting, Voting
<1>17. ASSUME NoSlip' PROVE /\ Rounds(E2)' /\ VotesGiven(V2)' /\ Ballots(E2, H2, V2)'
                            /\ Led(E2, H2, L)' /\ LogHistory(L, A)'
    <2>1. /\ Rounds(E) /\ VotesGiven(V) /\ Ballots(E, H, V) /\ Led(E, H, L)
          /\ LogHistory(L, A) /\ state[n] # "leader"
        BY <1>4, <1>17 DEF Records, NoSlip
    <2>2. \A c \in calls' : c.kind = "granted" \/ Replicating(c) => c \in calls
        BY <1>4 DEF Replicating
    <2>3. Rounds(E2)'
        <3>1. ASSUME NEW m \in Nodes, NEW q \in Nat, NEW u \in Nat, <<m, q, u>> \in E2
              PROVE  q \in 1..Len(votes'[m])
            <4>1. CASE <<m, q, u>> \in E
                BY <4>1, <2>1, <1>9 DEF Rounds
            <4>2. CASE m = n /\ q = r
                BY <4>2, <1>10
            <4> QED BY <4>1, <4>2, <3>1, <1>11
        <3>2. ASSUME NEW c \in calls', Voting(c)
              PROVE  \A u \in Nat : <<c.from, c.round, u>> \in E2 <=> u = c.term
            <4>1. CASE c \in calls
                <5>1. ~(c.from = n /\ c.round = r)
                    BY <4>1, <3>2, <1>15, <1>10 DEF Counting
                <5>2. \A u \in Nat : <<c.from, c.round, u>> \in E2 <=> <<c.from, c.round, u>> \in E
                    BY <5>1, <1>11
                <5> QED BY <5>2, <4>1, <3>2, <2>1 DEF Rounds
            <4>2. CASE c \notin calls
                <5>1. c.from = n /\ c.round = r /\ c.term = t
                    BY <4>2, <1>4
                <5>2. \A u \in Nat : <<n, r, u>> \notin E
                    BY <2>1, <1>10 DEF Rounds
                <5> QED BY <5>1, <5>2, <1>11
            <4> QED BY <4>1, <4>2
        <3> QED BY <3>1, <3>2 DEF Rounds, Voting
    <2>4. VotesGiven(V2)'
        <3>1. ASSUME NEW p \in Nodes, NEW m \in Nodes, NEW u \in Nat, <<p, m, u>> \in V2
              PROVE  u <= currentTerm'[p] /\ (u = currentTerm'[p] => votedFor'[p] = m)
            <4>1. CASE p = n /\ m = n /\ u = t
                BY <4>1, <1>6
            <4>2. CASE <<p, m, u>> \in V
                <5>1. u <= currentTerm[p] /\ (u = currentTerm[p] => votedFor[p] = m)
                    BY <4>2, <2>1 DEF VotesGiven
                <5> QED BY <5>1, <1>2, <1>6
            <4> QED BY <4>1, <4>2, <3>1, <1>13
        <3>2. \A c \in calls' : c.kind = "granted" => <<c.to, c.from, c.term>> \in V2
            BY <2>1, <2>2, <1>13 DEF VotesGiven
        <3> QED BY <3>1, <3>2 DEF VotesGiven
    <2>5. Ballots(E2, H2, V2)'
        <3>1. ASSUME NEW m \in Nodes, NEW p \in Nodes, NEW q \in Nat, NEW u \in Nat,
                     <<m, q, u>> \in E2, <<m, q, p>> \in H2
              PROVE  <<p, m, u>> \in V2
            <4>1. CASE m = n /\ q = r
                <5>1. <<n, r, u>> \notin E /\ <<n, r, p>> \notin H
                    BY <2>1, <1>10, <1>15 DEF Rounds, Counting
                <5> QED BY <5>1, <4>1, <3>1, <1>11, <1>12, <1>13
            <4>2. CASE ~(m = n /\ q = r)
                BY <4>2, <3>1, <2>1, <1>11, <1>12, <1>13 DEF Ballots
            <4> QED BY <4>1, <4>2
        <3>2. ASSUME NEW p \in Nodes, NEW x \in Nodes, NEW y \in Nodes, NEW u \in Nat,
                     <<p, x, u>> \in V2, <<p, y, u>> \in V2
              PROVE  x = y
            <4>1. \A z \in Nodes : <<n, z, t>> \notin V
                BY <2>1, <1>2 DEF VotesGiven
            <4>2. \A z \in Nodes : <<p, z, u>> \in V2 =>
                    <<p, z, u>> \in V \/ (p = n /\ z = n /\ u = t)
                BY <1>13
            <4> QED BY <4>1, <4>2, <3>2, <2>1 DEF Ballots
        <3> QED BY <3>1, <3>2 DEF Ballots
    <2>6. Led(E2, H2, L)'
        <3>1. ASSUME NEW m \in Nodes, NEW u \in Nat, <<m, u>> \in L
              PROVE  /\ Elected(E2, H2, m, u) /\ u <= currentTerm'[m]
                     /\ u = currentTerm'[m] => state'[m] = "leader"
            <4>1. /\ Elected(E, H, m, u) /\ u <= currentTerm[m]
                  /\ u = currentTerm[m] => state[m] = "leader"
                BY <3>1, <2>1 DEF Led
            <4>2. Elected(E2, H2, m, u)
                BY <4>1, <1>11, <1>12, StillElected
            <4> QED BY <4>1, <4>2, <1>2, <1>4, <1>6
        <3>2. \A m \in Nodes : state'[m] = "leader" => <<m, currentTerm'[m]>> \in L
            BY <2>1, <1>4, <1>6 DEF Led
        <3>3. \A c \in calls' : Replicating(c) => <<c.from, c.term>> \in L
            BY <2>1, <2>2 DEF Led
        <3> QED BY <3>1, <3>2, <3>3 DEF Led, Replicating
    <2>7. LogHistory(L, A)'
        <3>1. \A m \in Nodes : state'[m] = "leader" =>
                state[m] = "leader" /\ currentTerm'[m] = currentTerm[m]
            BY <2>1, <1>4, <1>6
        <3>2. \A c \in calls' : c.kind = "append" => c \in calls
            BY <2>2 DEF Replicating
        <3> QED BY <3>1, <3>2, <2>1, <1>4 DEF LogHistory
    <2> QED BY <2>3, <2>4, <2>5, <2>6, <2>7
<1>18. Records(E2, H2, V2, L, A)'
    BY <1>16, <1>17 DEF Records
<1>19. V2 = V \cup {<<n, n, currentTerm[n] + 1>>}
    BY <1>2, <1>13
<1> QED BY <1>1, <1>18, <1>19, Zenon

\* A counted vote joins the election; with a majority the node joins the leaders,
\* and nobody has written an entry of its term yet.
LEMMA CountedRecords ==
    ASSUME Types, NEW E, NEW H, NEW V, NEW L, NEW A, Records(E, H, V, L, A), NEW c \in calls,
           VoteGranted(c)
    PROVE  Types' /\ \E H2, L2 :
               /\ L2 = IF Wins(c) THEN L \cup {<<c.from, c.term>>} ELSE L
               /\ Records(E, H2, V, L2, A)'
<1>1. Counting(H)
    BY DEF Records
<1>2. c.kind = "granted" /\ c.round \in 1..Len(votes[c.from])
    BY <1>1 DEF VoteGranted, Counting, Voting
<1>3. /\ Types' /\ c \in GrantedCalls
      /\ votes' = [votes EXCEPT ![c.from] = [votes[c.from] EXCEPT ![c.round] = @ + 1]]
      /\ calls' = calls \ {c} /\ UNCHANGED <<log, slips>>
      /\ Wins(c) \/ UNCHANGED node
    BY <1>2, VoteGrantedTypes DEF logs
<1>4. PICK n \in Nodes : n = c.from
    BY <1>3 DEF GrantedCalls
<1>5. PICK p \in Nodes : p = c.to /\ p # n
    BY <1>3, <1>4, CallKinds DEF GrantedCalls, Types
<1>6. PICK r \in Nat : r = c.round /\ r \in 1..Len(votes[n])
    BY <1>2, <1>3, <1>4 DEF GrantedCalls
<1>7. PICK t \in Nat : t = c.term
    BY <1>3 DEF GrantedCalls
<1>8. \A m \in Nodes : votes[m] \in Seq(Nat \ {0}) /\ Len(votes'[m]) = Len(votes[m])
    <2>1. \A m \in Nodes : votes[m] \in Seq(Nat \ {0})
        BY DEF Types, NodeTypes
    <2>2. Len([votes[n] EXCEPT ![r] = @ + 1]) = Len(votes[n])
        BY <2>1
    <2>3. \A m \in Nodes : votes'[m] =
            IF m = n THEN [votes[n] EXCEPT ![r] = @ + 1] ELSE votes[m]
        BY <1>3, <1>4, <1>6 DEF Types, NodeTypes
    <2> QED BY <2>1, <2>2, <2>3
<1>9. \A m \in Nodes : \A q \in 1..Len(votes[m]) :
        votes'[m][q] = IF m = n /\ q = r THEN votes[m][q] + 1 ELSE votes[m][q]
    <2>1. PICK v \in Seq(Nat \ {0}) : v = votes[n]
        BY <1>8
    <2>2. \A q \in 1..Len(v) : [v EXCEPT ![r] = @ + 1][q] = IF q = r THEN v[q] + 1 ELSE v[q]
        BY <2>1, <1>6
    <2>3. \A m \in Nodes : votes'[m] = IF m = n THEN [v EXCEPT ![r] = @ + 1] ELSE votes[m]
        BY <2>1, <1>3, <1>4, <1>6 DEF Types, NodeTypes
    <2> QED BY <2>1, <2>2, <2>3
<1>10. PICK H2 : H2 = H \cup {<<n, r, p>>}
    OBVIOUS
<1>11. <<n, r, p>> \notin H
    BY <1>1, <1>2, <1>4, <1>5, <1>6 DEF Counting, Voting
<1>12. Voters(H2, n, r) = Voters(H, n, r) \cup {p} /\ p \notin Voters(H, n, r)
    BY <1>10, <1>11 DEF Voters
<1>13. Cardinality(Voters(H2, n, r)) = Cardinality(Voters(H, n, r)) + 1
    BY <1>12, VotersFinite, FS_AddElement
<1>14. \A m \in Nodes : \A q \in Nat : ~(m = n /\ q = r) => Voters(H2, m, q) = Voters(H, m, q)
    BY <1>10 DEF Voters
<1>15. Counting(H2)'
    <2>1. ASSUME NEW m \in Nodes, NEW q \in 1..Len(votes'[m])
          PROVE  votes'[m][q] = Cardinality(Voters(H2, m, q))
        <3>1. q \in 1..Len(votes[m]) /\ q \in Nat
            BY <1>8
        <3>2. votes[m][q] = Cardinality(Voters(H, m, q))
            BY <3>1, <1>1 DEF Counting
        <3>3. CASE m = n /\ q = r
            BY <3>1, <3>2, <3>3, <1>9, <1>13
        <3>4. CASE ~(m = n /\ q = r)
            BY <3>1, <3>2, <3>4, <1>9, <1>14
        <3> QED BY <3>3, <3>4
    <2>2. ASSUME NEW m \in Nodes, NEW x \in Nodes, NEW q \in Nat, <<m, q, x>> \in H2
          PROVE  q \in 1..Len(votes'[m])
        <3>1. q \in 1..Len(votes[m])
            BY <2>2, <1>1, <1>6, <1>10 DEF Counting
        <3> QED BY <3>1, <1>8
    <2>3. ASSUME NEW d \in calls', Voting(d)
          PROVE  /\ d.round \in 1..Len(votes'[d.from])
                 /\ <<d.from, d.round, d.to>> \notin H2
        <3>1. d \in calls /\ d # c /\ d.from \in Nodes
            BY <1>3, CallKinds DEF Types
        <3>2. d.round \in 1..Len(votes[d.from]) /\ <<d.from, d.round, d.to>> \notin H
            BY <3>1, <2>3, <1>1 DEF Counting
        <3>3. ~(d.from = n /\ d.round = r /\ d.to = p)
            BY <3>1, <2>3, <1>1, <1>2, <1>4, <1>5, <1>6 DEF Counting, Voting
        <3> QED BY <3>1, <3>2, <3>3, <1>8, <1>10
    <2>4. \A d, e \in calls' : d \in calls /\ e \in calls
        BY <1>3
    <2>5. \A d, e \in calls' :
            /\ Voting(d) /\ Voting(e)
            /\ d.from = e.from /\ d.to = e.to /\ d.round = e.round
            => d = e
        BY <2>4, <1>1 DEF Counting
    <2> QED BY <2>1, <2>2, <2>3, <2>5 DEF Counting, Voting
<1>16. PICK L2 : L2 = IF Wins(c) THEN L \cup {<<n, t>>} ELSE L
    OBVIOUS
<1>17. ASSUME NoSlip' PROVE /\ Rounds(E)' /\ VotesGiven(V)' /\ Ballots(E, H2, V)'
                            /\ Led(E, H2, L2)' /\ LogHistory(L2, A)'
    <2>1. /\ Rounds(E) /\ VotesGiven(V) /\ Ballots(E, H, V) /\ Led(E, H, L)
          /\ LogHistory(L, A)
        BY <1>3, <1>17 DEF Records, NoSlip
    <2>2. calls' \subseteq calls /\ UNCHANGED <<currentTerm, votedFor>>
        BY <1>3 DEF Wins, node
    <2>3. Rounds(E)'
        BY <2>1, <2>2, <1>8 DEF Rounds
    <2>4. VotesGiven(V)'
        BY <2>1, <2>2 DEF VotesGiven
    <2>5. /\ \A u \in Nat : <<n, r, u>> \in E <=> u = t
          /\ <<p, n, t>> \in V
        BY <2>1, <1>2, <1>4, <1>5, <1>6, <1>7 DEF Rounds, VotesGiven, Voting
    <2>6. Ballots(E, H2, V)
        <3>1. ASSUME NEW m \in Nodes, NEW x \in Nodes, NEW q \in Nat, NEW u \in Nat,
                     <<m, q, u>> \in E, <<m, q, x>> \in H2
              PROVE  <<x, m, u>> \in V
            <4>1. CASE <<m, q, x>> \in H
                BY <4>1, <3>1, <2>1 DEF Ballots
            <4>2. CASE m = n /\ q = r /\ x = p
                BY <4>2, <3>1, <2>5
            <4> QED BY <4>1, <4>2, <3>1, <1>10
        <3> QED BY <3>1, <2>1 DEF Ballots
    <2>7. \A m \in Nodes : \A u \in Nat : <<m, u>> \in L => Elected(E, H2, m, u)
        <3> TAKE m \in Nodes
        <3> TAKE u \in Nat
        <3> HAVE <<m, u>> \in L
        <3>1. Elected(E, H, m, u)
            BY <2>1 DEF Led
        <3> QED BY <3>1, <1>10, StillElected
    <2>8. CASE ~Wins(c)
        <3>1. UNCHANGED node /\ L2 = L
            BY <2>8, <1>3, <1>16
        <3>2. Led(E, H2, L2)'
            BY <3>1, <2>1, <2>2, <2>7 DEF Led, node
        <3>3. LogHistory(L2, A)'
            BY <3>1, <2>1, <2>2, <1>3 DEF LogHistory, node
        <3> QED BY <3>2, <3>3, <2>3, <2>4, <2>6 DEF Ballots
    <2>9. CASE Wins(c)
        <3>1. L2 = L \cup {<<n, t>>}
            BY <2>9, <1>16
        <3>2. /\ Majority(votes[n][r] + 1) /\ state[n] = "candidate" /\ currentTerm[n] = t
              /\ state'[n] = "leader"
              /\ \A m \in Nodes : m # n => state'[m] = state[m]
            BY <2>9, <1>4, <1>6, <1>7 DEF Wins, Types, NodeTypes
        <3>3. Elected(E, H2, n, t)
            <4>1. votes[n][r] = Cardinality(Voters(H, n, r))
                BY <1>1, <1>6 DEF Counting
            <4>2. Majority(Cardinality(Voters(H2, n, r)))
                BY <4>1, <3>2, <1>13
            <4> QED BY <4>2, <2>5 DEF Elected
        <3>4. \A m \in Nodes : <<m, t>> \notin L
            <4> SUFFICES ASSUME NEW m \in Nodes, <<m, t>> \in L PROVE FALSE
                OBVIOUS
            <4>1. Elected(E, H2, m, t)
                BY <2>7
            <4>2. m = n
                BY <4>1, <3>3, <2>6, OneElected
            <4> QED BY <4>2, <3>2, <2>1 DEF Led
        <3>5. Led(E, H2, L2)'
            <4>1. ASSUME NEW m \in Nodes, NEW u \in Nat, <<m, u>> \in L2
                  PROVE  /\ Elected(E, H2, m, u) /\ u <= currentTerm'[m]
                         /\ u = currentTerm'[m] => state'[m] = "leader"
                <5>1. CASE m = n /\ u = t
                    BY <5>1, <3>2, <3>3, <2>2
                <5>2. CASE <<m, u>> \in L
                    <6>1. /\ Elected(E, H2, m, u) /\ u <= currentTerm[m]
                          /\ u = currentTerm[m] => state[m] = "leader"
                        BY <5>2, <2>1, <2>7 DEF Led
                    <6> QED BY <6>1, <3>2, <2>2
                <5> QED BY <5>1, <5>2, <4>1, <3>1
            <4>2. \A m \in Nodes : state'[m] = "leader" => <<m, currentTerm'[m]>> \in L2
                BY <3>1, <3>2, <2>1, <2>2 DEF Led
            <4>3. \A d \in calls' : Replicating(d) => <<d.from, d.term>> \in L2
                BY <3>1, <2>1, <2>2 DEF Led
            <4> QED BY <4>1, <4>2, <4>3 DEF Led, Replicating
        <3>6. LogHistory(L2, A)'
            <4>1. \A s \in A : \A i \in 1..Len(s) : \E m \in Nodes : <<m, s[i].term>> \in L2
                BY <3>1, <2>1 DEF LogHistory
            <4>2. \A s \in A : \A i \in 1..Len(s) : s[i].term # t
                BY <3>4, <2>1 DEF LogHistory
            <4>3. ASSUME NEW m \in Nodes, state'[m] = "leader"
                  PROVE  \A s \in A : \A i \in 1..Len(s) :
                             s[i].term = currentTerm'[m] => i <= Len(log'[m])
                <5>1. CASE m = n
                    BY <5>1, <4>2, <3>2, <2>2
                <5>2. CASE m # n
                    BY <5>2, <4>3, <3>2, <2>1, <2>2, <1>3 DEF LogHistory
                <5> QED BY <5>1, <5>2
            <4>4. \A d \in calls' : d.kind = "append" => \E s \in A : Carries(d, s)
                BY <2>1, <2>2 DEF LogHistory
            <4> QED BY <4>1, <4>3, <4>4, <2>1, <1>3 DEF LogHistory
        <3> QED BY <3>5, <3>6, <2>3, <2>4, <2>6 DEF Ballots
    <2> QED BY <2>8, <2>9
<1>18. Records(E, H2, V, L2, A)'
    BY <1>15, <1>17 DEF Records
<1>19. L2 = IF Wins(c) THEN L \cup {<<c.from, c.term>>} ELSE L
    BY <1>4, <1>7, <1>16
<1> QED BY <1>3, <1>18, <1>19, Zenon

\* A proposed entry is the first of its term at its index.
LEMMA ProposedRecords ==
    ASSUME Types, NEW E, NEW H, NEW V, NEW L, NEW A, Records(E, H, V, L, A), NEW n \in Nodes,
           Propose(n)
    PROVE  Types' /\ \E A2 : A2 = A \cup {log'[n]} /\ Records(E, H, V, L, A2)'
<1>1. /\ Types' /\ log'[n] \in Seq(Entries) /\ Len(log'[n]) = Len(log[n]) + 1
      /\ \A i \in 1..Len(log[n]) : log'[n][i] = log[n][i]
      /\ log'[n][Len(log[n]) + 1].term = currentTerm[n]
    BY ProposeTypes
<1>2. /\ state[n] = "leader" /\ UNCHANGED <<state, currentTerm, votedFor, votes, calls, slips>>
      /\ \A m \in Nodes : m # n => log'[m] = log[m]
    BY DEF Propose, node, Types, LogTypes
<1>3. PICK l \in Seq(Entries) : l = log[n] /\ Len(l) \in Nat
    BY DEF Types, LogTypes
<1>4. PICK u \in Seq(Entries) :
        /\ u = log'[n] /\ Len(u) = Len(l) + 1 /\ u[Len(l) + 1].term = currentTerm[n]
        /\ \A i \in 1..Len(l) : u[i] = l[i]
    BY <1>1, <1>3
<1>5. \A i \in 1..Len(u) : i = Len(l) + 1 \/ i \in 1..Len(l)
    BY <1>3, <1>4
<1>6. PICK A2 : A2 = A \cup {u}
    OBVIOUS
<1>7. Counting(H)'
    BY <1>2 DEF Records, Counting
<1>8. ASSUME NoSlip' PROVE /\ Rounds(E)' /\ VotesGiven(V)' /\ Ballots(E, H, V)'
                           /\ Led(E, H, L)' /\ LogHistory(L, A2)'
    <2>1. /\ Rounds(E) /\ VotesGiven(V) /\ Ballots(E, H, V) /\ Led(E, H, L)
          /\ LogHistory(L, A)
        BY <1>2, <1>8 DEF Records, NoSlip
    <2>2. Rounds(E)' /\ VotesGiven(V)' /\ Ballots(E, H, V)' /\ Led(E, H, L)'
        BY <2>1, <1>2 DEF Rounds, VotesGiven, Ballots, Led
    <2>3. l \in A /\ \A s \in A : s \in Seq(Entries) /\ Len(s) \in Nat
        BY <2>1, <1>3 DEF LogHistory
    <2>4. \A s \in A : Len(l) + 1 \in 1..Len(s) => s[Len(l) + 1].term # currentTerm[n]
        <3> SUFFICES ASSUME NEW s \in A, Len(l) + 1 \in 1..Len(s),
                            s[Len(l) + 1].term = currentTerm[n]
                     PROVE  FALSE
            OBVIOUS
        <3>1. Len(l) + 1 <= Len(log[n])
            BY <2>1, <1>2 DEF LogHistory
        <3> QED BY <3>1, <1>3
    <2>5. ASSUME NEW s \in A PROVE Match(s, u) /\ Match(u, s)
        <3>1. ASSUME NEW i \in Nat, i \in 1..Len(s), i \in 1..Len(u), s[i].term = u[i].term
              PROVE  \A j \in 1..i : s[j] = u[j]
            <4>1. CASE i = Len(l) + 1
                BY <4>1, <3>1, <2>4, <1>4
            <4>2. CASE i \in 1..Len(l)
                <5>1. s[i].term = l[i].term
                    BY <4>2, <3>1, <1>4
                <5>2. Match(s, l)
                    BY <2>1, <2>3 DEF LogHistory
                <5>3. \A j \in 1..i : s[j] = l[j]
                    <6>1. i <= Len(l)
                        BY <4>2, <1>3
                    <6> QED BY <6>1, <5>1, <5>2, <3>1 DEF Match
                <5> QED BY <5>3, <4>2, <1>4
            <4> QED BY <4>1, <4>2, <3>1, <1>5
        <3>2. Match(s, u)
            BY <3>1, <2>3, <1>4 DEF Match
        <3>3. Match(u, s)
            <4> SUFFICES ASSUME NEW i \in 1..Len(u), i <= Len(s), u[i].term = s[i].term,
                                NEW j \in 1..i
                         PROVE  u[j] = s[j]
                BY DEF Match
            <4>1. i \in Nat /\ i \in 1..Len(s)
                BY <2>3, <1>4
            <4> QED BY <4>1, <3>1
        <3> QED BY <3>2, <3>3
    <2>6. Match(u, u)
        BY DEF Match
    <2>7. \A s, w \in A2 : Match(s, w)
        BY <2>5, <2>6, <2>1, <1>6 DEF LogHistory
    <2>8. A2 \subseteq Seq(Entries) /\ \A m \in Nodes : log'[m] \in A2
        BY <2>1, <1>2, <1>4, <1>6 DEF LogHistory
    <2>9. ASSUME NEW s \in A2, NEW i \in 1..Len(s)
          PROVE  \E m \in Nodes : <<m, s[i].term>> \in L
        <3>1. CASE s \in A
            BY <3>1, <2>1 DEF LogHistory
        <3>2. CASE s = u
            <4>1. CASE i = Len(l) + 1
                BY <4>1, <3>2, <2>1, <1>2, <1>4 DEF Led
            <4>2. CASE i \in 1..Len(l)
                BY <4>2, <3>2, <2>1, <2>3, <1>4 DEF LogHistory
            <4> QED BY <4>1, <4>2, <3>2, <1>5
        <3> QED BY <3>1, <3>2, <1>6
    <2>10. ASSUME NEW m \in Nodes, state'[m] = "leader", NEW s \in A2, NEW i \in 1..Len(s),
                  s[i].term = currentTerm'[m]
           PROVE  i <= Len(log'[m])
        <3>1. state[m] = "leader" /\ currentTerm'[m] = currentTerm[m]
            BY <2>10, <1>2
        <3>2. Len(log'[m]) >= Len(log[m]) /\ Len(log[m]) \in Nat /\ Len(log'[m]) \in Nat
            <4>1. log[m] \in Seq(Entries) /\ log'[m] \in Seq(Entries)
                BY <1>1 DEF Types, LogTypes
            <4>2. Len(log'[m]) = Len(log[m]) \/ Len(log'[m]) = Len(log[m]) + 1
                BY <1>1, <1>2
            <4>3. Len(log[m]) \in Nat /\ Len(log'[m]) \in Nat
                BY <4>1
            <4> QED BY <4>2, <4>3
        <3>3. CASE s \in A
            <4>1. i <= Len(log[m])
                BY <3>1, <3>3, <2>1, <2>10 DEF LogHistory
            <4> QED BY <4>1, <3>2, <2>3, <3>3
        <3>4. CASE s = u
            <4>1. CASE m = n
                BY <4>1, <3>4, <1>4
            <4>2. CASE m # n
                <5>1. u[i].term # currentTerm[m] \/ i \in 1..Len(l)
                    <6>1. currentTerm[m] # currentTerm[n]
                        <7> SUFFICES ASSUME currentTerm[m] = currentTerm[n] PROVE FALSE
                            OBVIOUS
                        <7>1. PICK t \in Nat : t = currentTerm[m]
                            BY DEF Types, NodeTypes
                        <7>2. Elected(E, H, m, t) /\ Elected(E, H, n, t)
                            BY <7>1, <3>1, <2>1, <1>2 DEF Led
                        <7> QED BY <7>2, <4>2, <2>1, OneElected
                    <6> QED BY <6>1, <3>4, <1>4, <1>5
                <5>2. i \in 1..Len(l) /\ l[i].term = currentTerm[m]
                    BY <5>1, <3>1, <3>4, <2>10, <1>4
                <5>3. i <= Len(log[m])
                    BY <5>2, <3>1, <2>1, <2>3 DEF LogHistory
                <5> QED BY <5>3, <4>2, <1>2
            <4> QED BY <4>1, <4>2
        <3> QED BY <3>3, <3>4, <1>6
    <2>11. \A c \in calls' : c.kind = "append" => \E s \in A2 : Carries(c, s)
        BY <2>1, <1>2, <1>6 DEF LogHistory
    <2>12. LogHistory(L, A2)'
        BY <2>7, <2>8, <2>9, <2>10, <2>11 DEF LogHistory
    <2> QED BY <2>2, <2>12
<1>9. Records(E, H, V, L, A2)'
    BY <1>7, <1>8 DEF Records
<1>10. A2 = A \cup {log'[n]}
    BY <1>4, <1>6
<1> QED BY <1>1, <1>9, <1>10, Zenon

-----------------------------------------------------------------------------
(* Every step keeps what is committed                                      *)

TermsGrow == \A n \in Nodes : currentTerm[n] <= currentTerm'[n]

LEMMA EntryTerm ==
    ASSUME NEW s \in Seq(Entries), NEW i \in 1..Len(s)
    PROVE  s[i].term \in Nat /\ i \in Nat
<1>1. s[i] \in Entries
    OBVIOUS
<1> QED BY <1>1, RaftAssumption DEF Entries

LEMMA TermType == Types => \A n \in Nodes : currentTerm[n] \in Nat
BY DEF Types, NodeTypes

LEMMA LogType == Types => \A n \in Nodes : log[n] \in Seq(Entries) /\ Len(log[n]) \in Nat
BY DEF Types, LogTypes

\* Entries join K only where the term is not over, so no entry becomes choosable.
LEMMA ChoosableBefore ==
    ASSUME Types, Types', TermsGrow, NEW K, NEW K2, NEW i \in Nat, NEW t \in Nat,
           \A q \in Nodes : <<q, t, i>> \in K2 => <<q, t, i>> \in K \/ currentTerm[q] <= t,
           Choosable(K2, i, t)'
    PROVE  Choosable(K, i, t)
<1>1. PICK Q \in SUBSET Nodes :
        /\ Majority(Cardinality(Q))
        /\ \A q \in Q : currentTerm'[q] <= t \/ <<q, t, i>> \in K2
    BY DEF Choosable
<1>2. \A q \in Nodes : currentTerm[q] \in Nat /\ currentTerm'[q] \in Nat
    BY TermType DEF Types, NodeTypes
<1>3. \A q \in Q : currentTerm[q] <= t \/ <<q, t, i>> \in K
    BY <1>1, <1>2 DEF TermsGrow
<1> QED BY <1>1, <1>3 DEF Choosable

LEMMA ChosenIsChoosable ==
    ASSUME NEW K, NEW i, NEW t, Chosen(K, i, t) PROVE Choosable(K, i, t)
BY DEF Chosen, Choosable

LEMMA StillCommitted ==
    ASSUME NEW K, NEW K2, K \subseteq K2, NEW s, NEW k, Committed(K, s, k)
    PROVE  Committed(K2, s, k)
<1>1. ASSUME NEW i, NEW t, Chosen(K, i, t) PROVE Chosen(K2, i, t)
    BY <1>1 DEF Chosen
<1> QED BY <1>1 DEF Committed

\* Nothing becomes choosable in this step.
Narrows(K, K2) ==
    K \subseteq K2 /\ \A t, i \in Nat : Choosable(K2, i, t)' => Choosable(K, i, t)

LEMMA SameLogs ==
    ASSUME Types, Types', TermsGrow, NEW A, NEW K, UNCHANGED log,
           EntriesHad(A, K), LogOrder(A), LogsComplete(A, K)
    PROVE  Narrows(K, K) /\ EntriesHad(A, K)' /\ LogOrder(A)' /\ LogsComplete(A, K)'
<1>1. Narrows(K, K)
    BY ChoosableBefore DEF Narrows
<1>2. \A q \in Nodes : /\ currentTerm[q] \in Nat /\ currentTerm'[q] \in Nat
                       /\ currentTerm[q] <= currentTerm'[q]
    BY TermType DEF Types, NodeTypes, TermsGrow
<1>3. LogOrder(A)'
    <2>1. ASSUME NEW n \in Nodes, NEW i \in 1..Len(log[n])
          PROVE  log[n][i].term <= currentTerm'[n]
        <3>1. log[n][i].term <= currentTerm[n] /\ log[n][i].term \in Nat
            BY LogType, EntryTerm DEF LogOrder
        <3> QED BY <3>1, <1>2
    <2> QED BY <2>1 DEF LogOrder
<1>4. EntriesHad(A, K)'
    <2>1. ASSUME NEW q \in Nodes, NEW t \in Nat, NEW i \in Nat, <<q, t, i>> \in K
          PROVE  /\ t <= currentTerm'[q] /\ Written(A, i, t)
                 /\ Choosable(K, i, t)' => Has(log[q], i, t)
        BY <2>1, <1>1, <1>2 DEF EntriesHad, Narrows
    <2>2. ASSUME NEW q \in Nodes, NEW i \in Nat, Has(log[q], i, currentTerm'[q])
          PROVE  <<q, currentTerm'[q], i>> \in K
        <3>1. currentTerm'[q] <= currentTerm[q]
            BY <2>2 DEF Has, LogOrder
        <3>2. currentTerm'[q] = currentTerm[q]
            BY <3>1, <1>2
        <3> QED BY <3>2, <2>2 DEF EntriesHad
    <2> QED BY <2>1, <2>2 DEF EntriesHad
<1>5. LogsComplete(A, K)'
    BY <1>1 DEF LogsComplete, Narrows
<1> QED BY <1>1, <1>3, <1>4, <1>5

LEMMA SameLeader ==
    ASSUME NEW A, NEW K, NEW K2, Narrows(K, K2), NEW n \in Nodes, Types,
           UNCHANGED <<log[n], currentTerm[n]>>, LeaderLog(A, K, n)
    PROVE  LeaderLog(A, K2, n)'
BY DEF LeaderLog, Narrows, Complete

LEMMA SameAppend ==
    ASSUME NEW A, NEW K, NEW K2, Narrows(K, K2), NEW c, NEW s, LeadersLog(A, K, c, s),
           InOffice(c)' => InOffice(c) /\ UNCHANGED log[c.from]
    PROVE  LeadersLog(A, K2, c, s)'
<1>1. Complete(A, K2, s, c.term)'
    BY DEF LeadersLog, Complete, Narrows
<1>2. Carries(c, s)' /\ Committed(K2, s, c.commit)'
    <2>1. Committed(K2, s, c.commit)
        BY StillCommitted DEF LeadersLog, Narrows
    <2> QED BY <2>1 DEF LeadersLog, Carries, Committed, Chosen, Has
<1> QED BY <1>1, <1>2 DEF LeadersLog

LEMMA SameAnswer ==
    ASSUME NEW K, NEW K2, K \subseteq K2, NEW c, Acknowledges(K, c),
           InOffice(c)' => InOffice(c) /\ UNCHANGED log[c.from]
    PROVE  Acknowledges(K2, c)'
BY DEF Acknowledges

LEMMA SameAsking ==
    ASSUME Types, Types', TermsGrow, NEW L, NEW L2, L \subseteq L2,
           NEW c, c.from \in Nodes, c.term \in Nat, UNCHANGED log[c.from], AsksForVote(L, c)
    PROVE  AsksForVote(L2, c)'
<1>1. currentTerm[c.from] \in Nat /\ currentTerm'[c.from] \in Nat
    BY DEF Types, NodeTypes
<1>2. Unled(L2, c.term) => Unled(L, c.term)
    BY DEF Unled
<1> QED BY <1>1, <1>2 DEF AsksForVote, TermsGrow

LEMMA SameVote ==
    ASSUME Types, Types', TermsGrow, NEW L, NEW L2, L \subseteq L2,
           NEW K, NEW K2, Narrows(K, K2),
           NEW q \in Nodes, NEW n \in Nodes, NEW w \in Nat, UNCHANGED log[n],
           \A t, i \in Nat : <<q, t, i>> \in K2 => <<q, t, i>> \in K \/ w <= t,
           VoteFor(L, K, q, n, w)
    PROVE  VoteFor(L2, K2, q, n, w)'
<1>1. currentTerm[n] \in Nat /\ currentTerm'[n] \in Nat /\ currentTerm[n] <= currentTerm'[n]
    BY DEF Types, NodeTypes, TermsGrow
<1>2. Unled(L2, w) => Unled(L, w)
    BY DEF Unled
<1>3. w <= currentTerm'[n]
    BY <1>1 DEF VoteFor
<1>4. ASSUME w = currentTerm'[n], Unled(L2, w), NEW t \in Nat, NEW i \in Nat,
             t < w, <<q, t, i>> \in K2, Choosable(K2, i, t)'
      PROVE  Has(log[n], i, t)
    <2>1. w = currentTerm[n]
        BY <1>1, <1>4 DEF VoteFor
    <2>2. <<q, t, i>> \in K
        BY <1>4
    <2> QED BY <2>1, <2>2, <1>2, <1>4 DEF VoteFor, Narrows
<1> QED BY <1>3, <1>4 DEF VoteFor

\* What a new call has to show.
CallKept(L, A, K, c) ==
    /\ c.kind = "append" => \E s \in A : LeadersLog(A, K, c, s)
    /\ c.kind = "appended" => Acknowledges(K, c)
    /\ c.kind = "vote" => AsksForVote(L, c)

\* A step that leaves the logs alone.
LEMMA KeepCommits ==
    ASSUME Types, Types', TermsGrow, UNCHANGED log,
           NEW V, NEW L, NEW L2, L \subseteq L2, NEW A, NEW K, CommitRecords(V, L, A, K),
           \A n \in Nodes : state'[n] = "leader" =>
               \/ LeaderLog(A, K, n)' /\ LeaderMatch(K, n)'
               \/ /\ state[n] = "leader" /\ UNCHANGED currentTerm[n]
                  /\ UNCHANGED matchIndex[n] \/ LeaderMatch(K, n)',
           \A n \in Nodes : UNCHANGED commitIndex[n] \/ Committed(K, log[n], commitIndex'[n]),
           \A c \in calls : Replicating(c) /\ InOffice(c)' => InOffice(c),
           \A c \in calls' : c \in calls \/ CallKept(L2, A, K, c)'
    PROVE  CommitRecords(V, L2, A, K)'
<1>1. Narrows(K, K) /\ EntriesHad(A, K)' /\ LogOrder(A)' /\ LogsComplete(A, K)'
    BY SameLogs DEF CommitRecords
<1>2. ASSUME NEW n \in Nodes, state'[n] = "leader" PROVE LeaderLog(A, K, n)' /\ LeaderMatch(K, n)'
    <2>1. CASE LeaderLog(A, K, n)' /\ LeaderMatch(K, n)'
        BY <2>1
    <2>2. CASE /\ state[n] = "leader" /\ UNCHANGED currentTerm[n]
               /\ UNCHANGED matchIndex[n] \/ LeaderMatch(K, n)'
        <3>1. LeaderLog(A, K, n) /\ LeaderMatch(K, n)
            BY <2>2 DEF CommitRecords
        <3>2. LeaderLog(A, K, n)'
            BY <3>1, <2>2, <1>1, SameLeader
        <3>3. UNCHANGED matchIndex[n] => LeaderMatch(K, n)'
            BY <3>1, <2>2 DEF LeaderMatch
        <3> QED BY <3>2, <3>3, <2>2
    <2> QED BY <2>1, <2>2, <1>2
<1>3. ASSUME NEW n \in Nodes PROVE Committed(K, log[n], commitIndex[n])'
    <2>1. Committed(K, log[n], commitIndex'[n])
        BY DEF CommitRecords
    <2> QED BY <2>1 DEF Committed, Chosen, Has
<1>4. ASSUME NEW c \in calls', c \in calls PROVE CallKept(L2, A, K, c)'
    <2>1. c.from \in Nodes /\ (c.kind = "vote" => c.term \in Nat)
        BY <1>4, CallKinds DEF Types, VoteCalls
    <2>2. ASSUME c.kind = "append" PROVE (\E s \in A : LeadersLog(A, K, c, s))'
        <3>1. PICK s \in A : LeadersLog(A, K, c, s)
            BY <1>4, <2>2 DEF CommitRecords
        <3>2. InOffice(c)' => InOffice(c) /\ UNCHANGED log[c.from]
            BY <1>4, <2>2 DEF Replicating
        <3>3. LeadersLog(A, K, c, s)'
            BY <3>1, <3>2, <1>1, SameAppend
        <3> QED BY <3>3
    <2>3. ASSUME c.kind = "appended" PROVE Acknowledges(K, c)'
        <3>1. Acknowledges(K, c)
            BY <1>4, <2>3 DEF CommitRecords
        <3>2. InOffice(c)' => InOffice(c) /\ UNCHANGED log[c.from]
            BY <1>4, <2>3 DEF Replicating
        <3> QED BY <3>1, <3>2, SameAnswer
    <2>4. ASSUME c.kind = "vote" PROVE AsksForVote(L2, c)'
        <3>1. AsksForVote(L, c)
            BY <1>4, <2>4 DEF CommitRecords
        <3> QED BY <3>1, <2>1, <2>4, SameAsking
    <2> QED BY <2>2, <2>3, <2>4 DEF CallKept
<1>5. \A c \in calls' : CallKept(L2, A, K, c)'
    BY <1>4
<1>6. ASSUME NEW q \in Nodes, NEW n \in Nodes, NEW w \in Nat, <<q, n, w>> \in V
      PROVE  VoteFor(L2, K, q, n, w)'
    <2>1. VoteFor(L, K, q, n, w)
        BY <1>6 DEF CommitRecords
    <2> QED BY <2>1, <1>1, SameVote
<1> QED BY <1>1, <1>2, <1>3, <1>5, <1>6 DEF CommitRecords, CallKept

\* ... and makes nobody leader.
LEMMA QuietCommits ==
    ASSUME Types, Types', UNCHANGED log,
           NEW V, NEW L, NEW A, NEW K, CommitRecords(V, L, A, K),
           \A n \in Nodes : Stays(n) \/ Rises(n, A),
           \A n \in Nodes : state'[n] = "leader" =>
               UNCHANGED matchIndex[n] \/ LeaderMatch(K, n)',
           \A n \in Nodes : UNCHANGED commitIndex[n] \/ Committed(K, log[n], commitIndex'[n]),
           \A c \in calls' : c \in calls \/ CallKept(L, A, K, c)'
    PROVE  TermsGrow /\ CommitRecords(V, L, A, K)'
<1>1. TermsGrow
    <2>1. \A n \in Nodes : currentTerm[n] \in Nat /\ currentTerm'[n] \in Nat
        BY DEF Types, NodeTypes
    <2> QED BY <2>1 DEF TermsGrow, Stays, Rises
<1>2. \A n \in Nodes : state'[n] = "leader" => state[n] = "leader" /\ UNCHANGED currentTerm[n]
    BY DEF Stays, Rises
<1>3. \A c \in calls : Replicating(c) /\ InOffice(c)' => InOffice(c)
    BY <1>2, CallKinds DEF InOffice, Types
<1> QED BY <1>1, <1>2, <1>3, KeepCommits

\* The log a leader sends.
LEMMA SentLog ==
    ASSUME Types, NEW V, NEW L, NEW A, NEW K, LogHistory(L, A), CommitRecords(V, L, A, K),
           NEW n \in Nodes, state[n] = "leader", NEW by \in {"tick", "propose"},
           NEW c \in Replicate(n, by)
    PROVE  LeadersLog(A, K, c, log[n])
<1>1. c.from = n /\ c.term = currentTerm[n] /\ Carries(c, log[n])
    BY ReplicateTypes
<1>2. c.commit = commitIndex[n]
    BY DEF Replicate
<1>3. LeaderLog(A, K, n) /\ Committed(K, log[n], commitIndex[n]) /\ LogOrder(A)
    BY DEF CommitRecords
<1>4. ASSUME NEW u \in A, NEW i \in Nat, Has(u, i, currentTerm[n]),
             NEW j \in 1..i, j <= Len(log[n])
      PROVE  u[j] = log[n][j]
    <2>1. Has(log[n], i, currentTerm[n])
        BY <1>3, <1>4 DEF LeaderLog, Written
    <2>2. Match(u, log[n])
        BY DEF LogHistory
    <2>3. i <= Len(log[n])
        BY <2>1, LogType DEF Has
    <2> QED BY <2>1, <2>2, <2>3, <1>4 DEF Has, Match
<1>5. \A i \in 1..Len(log[n]) : log[n][i].term <= currentTerm[n]
    BY <1>3 DEF LogOrder
<1>6. Complete(A, K, log[n], currentTerm[n])
    BY <1>3 DEF LeaderLog
<1> QED BY <1>1, <1>2, <1>3, <1>4, <1>5, <1>6 DEF LeadersLog

LEMMA NodeCommits ==
    ASSUME Types, Types', NEW V, NEW L, NEW A, NEW K, LogHistory(L, A), CommitRecords(V, L, A, K),
           NEW n \in Nodes,
           \/ Dispatch(n) \/ FollowerTimeout(n) \/ CandidateWaitEnds(n)
           \/ LeaderTick(n) \/ ProposeReplicates(n)
    PROVE  CommitRecords(V, L, A, K)'
<1>1. CASE Dispatch(n) \/ FollowerTimeout(n) \/ CandidateWaitEnds(n)
    <2>1. /\ UNCHANGED <<currentTerm, votedFor, log, commitIndex, matchIndex, calls>>
          /\ \/ UNCHANGED state
             \/ loop[n] = "follower" /\ state' = [state EXCEPT ![n] = "candidate"]
        BY <1>1 DEF Dispatch, FollowerTimeout, CandidateWaitEnds, node, logs, index
    <2>2. \A m \in Nodes : Stays(m)
        BY <2>1 DEF Stays, Types, Leading, NodeTypes
    <2> QED BY <2>1, <2>2, QuietCommits
<1>2. CASE LeaderTick(n) \/ ProposeReplicates(n)
    <2>1. /\ UNCHANGED <<node, log, commitIndex, matchIndex>>
          /\ \A c \in calls' : c \in calls \/
                (state[n] = "leader" /\ \E by \in {"tick", "propose"} : c \in Replicate(n, by))
        BY <1>2, SendTypes DEF logs, index
    <2>2. \A m \in Nodes : Stays(m)
        BY <2>1 DEF Stays, node
    <2>3. TermsGrow
        BY <2>1, TermType DEF TermsGrow, node
    <2>4. Narrows(K, K)
        BY <2>1, <2>3, SameLogs DEF CommitRecords
    <2>5. ASSUME NEW c \in calls', c \notin calls PROVE CallKept(L, A, K, c)'
        <3>1. PICK by \in {"tick", "propose"} : c \in Replicate(n, by)
            BY <2>1, <2>5
        <3>2. state[n] = "leader"
            BY <2>1, <2>5
        <3>3. LeadersLog(A, K, c, log[n])
            BY <3>1, <3>2, SentLog
        <3>4. PICK s \in A : s = log[n]
            BY DEF LogHistory
        <3>5. InOffice(c)' => InOffice(c) /\ UNCHANGED log[c.from]
            BY <2>1 DEF InOffice, node
        <3>6. LeadersLog(A, K, c, s)
            BY <3>3, <3>4
        <3>7. LeadersLog(A, K, c, s)'
            BY <3>5, <3>6, <2>4, SameAppend
        <3>8. c.kind = "append"
            BY <3>1 DEF Replicate
        <3> QED BY <3>7, <3>8 DEF CallKept
    <2> QED BY <2>1, <2>2, <2>5, QuietCommits
<1> QED BY <1>1, <1>2

\* A refused or withheld vote.
LEMMA WithheldCommits ==
    ASSUME Types, Types', NEW V, NEW L, NEW A, NEW K, LogHistory(L, A), CommitRecords(V, L, A, K),
           NEW c \in calls, HandleRequestVote(c), VoteWithheld(c)
    PROVE  CommitRecords(V, L, A, K)'
<1>1. VoteStep(c) /\ c \in VoteCalls /\ UNCHANGED <<log, commitIndex, matchIndex>>
    BY VoteStepTypes DEF HandleRequestVote, logs, index
<1>2. c.to \in Nodes /\ currentTerm[c.to] \in Nat /\ c.term \in Nat
    BY <1>1 DEF VoteCalls, Types, NodeTypes
<1>3. ASSUME NEW d \in calls', d \notin calls PROVE CallKept(L, A, K, d)'
    BY <1>3 DEF CallKept, VoteWithheld
<1>4. ASSUME NEW n \in Nodes PROVE Stays(n) \/ Rises(n, A)
    <2>1. log'[n] \in A
        BY <1>1 DEF LogHistory
    <2>2. CASE n # c.to
        BY <2>2, <1>1 DEF VoteStep, Stays
    <2>3. CASE n = c.to
        BY <2>3, <2>1, <1>1, <1>2 DEF VoteStep, VoteWithheld, Stays, Rises
    <2> QED BY <2>2, <2>3
<1> QED BY <1>1, <1>3, <1>4, QuietCommits

LEMMA TakesTermNodes ==
    ASSUME Types, NEW L, NEW A, LogHistory(L, A), UNCHANGED log,
           NEW n \in Nodes, NEW t \in 0..MaxTerm, TakesTerm(n, t), t > currentTerm[n]
    PROVE  \A m \in Nodes : (Stays(m) \/ Rises(m, A)) /\ (state'[m] = "leader" => m # n)
<1> SUFFICES ASSUME NEW m \in Nodes
             PROVE  (Stays(m) \/ Rises(m, A)) /\ (state'[m] = "leader" => m # n)
    OBVIOUS
<1>1. CASE m = n
    <2>1. currentTerm'[m] = t /\ state'[m] = "follower" /\ log'[m] \in A
        BY <1>1 DEF TakesTerm, Types, NodeTypes, LogHistory
    <2> QED BY <1>1, <2>1 DEF Rises
<1>2. CASE m # n
    BY <1>2 DEF TakesTerm, Stays, Types, NodeTypes
<1> QED BY <1>1, <1>2

LEMMA RefusedCommits ==
    ASSUME Types, Types', NEW V, NEW L, NEW A, NEW K, LogHistory(L, A), CommitRecords(V, L, A, K),
           slips' = {}, NEW c \in calls, VoteRefused(c)
    PROVE  CommitRecords(V, L, A, K)'
<1>1. /\ c \in RefusedCalls /\ TakesTerm(c.from, c.t) /\ calls' = calls \ {c}
      /\ c.t <= currentTerm[c.from] => "forgot" \in slips'
      /\ UNCHANGED <<log, commitIndex>>
    BY VoteRefusedTypes DEF logs
<1>2. UNCHANGED matchIndex
    BY DEF VoteRefused, index
<1>3. c.from \in Nodes /\ c.t \in 0..MaxTerm /\ c.t > currentTerm[c.from]
    BY <1>1, TermType DEF RefusedCalls
<1>4. \A m \in Nodes : Stays(m) \/ Rises(m, A)
    BY <1>1, <1>3, TakesTermNodes
<1> QED BY <1>1, <1>2, <1>4, QuietCommits

LEMMA LostCommits ==
    ASSUME Types, Types', NEW V, NEW L, NEW A, NEW K, LogHistory(L, A), CommitRecords(V, L, A, K),
           NEW c \in calls, LoseAppend(c)
    PROVE  CommitRecords(V, L, A, K)'
<1>1. calls' = calls \ {c} /\ UNCHANGED <<node, log, commitIndex, matchIndex>>
    BY DEF LoseAppend, logs
<1>2. \A m \in Nodes : Stays(m)
    BY <1>1 DEF Stays, node
<1> QED BY <1>1, <1>2, QuietCommits

\* A leader commits what a majority has had in its term.
LEMMA CommittedByMajority ==
    ASSUME Types, NEW V, NEW L, NEW A, NEW K, CommitRecords(V, L, A, K),
           NEW n \in Nodes, state[n] = "leader", NEW match,
           \A p \in Peers(n) : \A i \in 1..Len(log[n]) :
               match[p] >= i /\ Has(log[n], i, currentTerm[n]) => <<p, currentTerm[n], i>> \in K,
           Committable(n, match) # {}
    PROVE  Committed(K, log[n], Max(Committable(n, match)))
<1>1. PICK t \in Nat : t = currentTerm[n]
    BY TermType
<1>2. Len(log[n]) \in Nat /\ commitIndex[n] \in Nat
    BY LogType DEF Types, LogTypes
<1>3. Committable(n, match) \in SUBSET (0..Len(log[n]))
    BY <1>2 DEF Committable
<1>4. PICK i : i = Max(Committable(n, match)) /\ i \in Committable(n, match)
    BY <1>2, <1>3, GreatestNumber
<1>5. /\ i \in Nat /\ Has(log[n], i, t)
      /\ Majority(1 + Cardinality({p \in Peers(n) : match[p] >= i}))
    <2>1. /\ i \in commitIndex[n] + 1 .. Len(log[n]) /\ log[n][i].term = currentTerm[n]
          /\ Majority(1 + Cardinality({p \in Peers(n) : match[p] >= i}))
        BY <1>4 DEF Committable
    <2>2. i \in 1..Len(log[n])
        BY <2>1, <1>2
    <2> QED BY <2>1, <2>2, <1>1 DEF Has
<1>6. PICK P : P = {p \in Peers(n) : match[p] >= i}
    OBVIOUS
<1>7. n \notin P /\ P \subseteq Nodes /\ IsFiniteSet(P) /\ Cardinality(P) \in Nat
    <2>1. n \notin P /\ P \subseteq Nodes
        BY <1>6 DEF Peers
    <2> QED BY <2>1, RaftAssumption, FS_Subset, FS_CardinalityType
<1>8. Cardinality(P \cup {n}) = 1 + Cardinality(P)
    <2>1. Cardinality(P \cup {n}) = Cardinality(P) + 1
        BY <1>7, FS_AddElement
    <2> QED BY <2>1, <1>7
<1>9. ASSUME NEW q \in P \cup {n} PROVE <<q, t, i>> \in K
    <2>1. CASE q = n
        BY <2>1, <1>1, <1>5 DEF CommitRecords, EntriesHad
    <2>2. CASE q \in P
        BY <2>2, <1>1, <1>5, <1>6 DEF Has
    <2> QED BY <2>1, <2>2
<1>10. Majority(Cardinality(P \cup {n})) /\ P \cup {n} \in SUBSET Nodes
    BY <1>5, <1>6, <1>7, <1>8
<1>11. Chosen(K, i, t)
    BY <1>9, <1>10 DEF Chosen
<1>12. i <= i
    BY <1>5
<1> QED BY <1>4, <1>5, <1>11, <1>12 DEF Committed

\* An acknowledgement that covers the leader's log.
LEMMA AckedCommits ==
    ASSUME Types, Types', NEW V, NEW L, NEW A, NEW K, LogHistory(L, A), CommitRecords(V, L, A, K),
           slips' = {}, NEW c \in calls, Appended(c),
           c.t <= currentTerm[c.from], InOffice(c), c.ok
    PROVE  CommitRecords(V, L, A, K)'
<1>1. c \in AppendedCalls /\ c.kind = "appended" /\ c.to # c.from
    BY CallKinds DEF Appended, Types
<1>2. PICK n \in Nodes : n = c.from
    BY <1>1 DEF AppendedCalls
<1>3. PICK p \in Nodes : p = c.to /\ p \in Peers(n)
    BY <1>1, <1>2 DEF AppendedCalls, Peers
<1>4. /\ state[n] = "leader" /\ currentTerm[n] = c.term /\ ~(c.t > currentTerm[n])
    BY <1>1, <1>2, TermType DEF InOffice, AppendedCalls
<1>5. PICK match : match = [matchIndex[n] EXCEPT ![p] = Len(log[n])]
    OBVIOUS
<1>6. /\ matchIndex' = [matchIndex EXCEPT ![n] = match]
      /\ commitIndex' = [commitIndex EXCEPT ![n] =
            IF Committable(n, match) = {} THEN @ ELSE Max(Committable(n, match))]
      /\ slips' = slips \cup IF c.upTo < Len(log[n]) THEN {"overclaimed"} ELSE {}
      /\ UNCHANGED <<node, log>> /\ calls' = calls \ {c}
    BY <1>2, <1>3, <1>4, <1>5 DEF Appended
<1>7. Len(log[n]) \in Nat /\ c.upTo \in Nat /\ ~(c.upTo < Len(log[n]))
    BY <1>1, <1>6, LogType DEF AppendedCalls
<1>8. /\ c.upTo = Len(log[n])
      /\ \A i \in 1..Len(log[n]) : Has(log[n], i, currentTerm[n]) => <<p, currentTerm[n], i>> \in K
    <2>1. Acknowledges(K, c)
        BY <1>1 DEF CommitRecords
    <2>2. /\ c.upTo <= Len(log[n])
          /\ \A i \in 1..c.upTo : Has(log[n], i, currentTerm[n]) => <<p, currentTerm[n], i>> \in K
        BY <2>1, <1>2, <1>3, <1>4 DEF Acknowledges
    <2>3. c.upTo = Len(log[n])
        BY <2>2, <1>7
    <2> QED BY <2>2, <2>3
<1>9. matchIndex[n] \in [Peers(n) -> 0..MaxLog] /\ DOMAIN matchIndex = Nodes
    BY DEF Types, IndexTypes
<1>10. /\ match[p] = Len(log[n])
       /\ \A q \in Peers(n) : q # p => match[q] = matchIndex[n][q]
    BY <1>3, <1>5, <1>9
<1>11. ASSUME NEW q \in Peers(n)
       PROVE  /\ match[q] <= Len(log[n]) /\ match[q] \in Nat
              /\ \A i \in 1..Len(log[n]) :
                    match[q] >= i /\ Has(log[n], i, currentTerm[n]) => <<q, currentTerm[n], i>> \in K
    <2>1. CASE q = p
        BY <2>1, <1>7, <1>8, <1>10
    <2>2. CASE q # p
        <3>1. /\ matchIndex[n][q] <= Len(log[n]) /\ matchIndex[n][q] \in Nat
              /\ \A i \in 1..matchIndex[n][q] :
                    Has(log[n], i, currentTerm[n]) => <<q, currentTerm[n], i>> \in K
            BY <1>4, <1>9 DEF CommitRecords, LeaderMatch
        <3>2. match[q] = matchIndex[n][q]
            BY <2>2, <1>10
        <3>3. \A i \in 1..Len(log[n]) : match[q] >= i => i \in 1..matchIndex[n][q]
            BY <3>1, <3>2, <1>7
        <3> QED BY <3>1, <3>2, <3>3
    <2> QED BY <2>1, <2>2
<1>12. ASSUME NEW m \in Nodes, state'[m] = "leader"
       PROVE  UNCHANGED matchIndex[m] \/ LeaderMatch(K, m)'
    <2>1. CASE m # n
        BY <2>1, <1>6, <1>9
    <2>2. CASE m = n
        <3>1. matchIndex'[n] = match /\ UNCHANGED <<log, currentTerm>>
            BY <1>6, <1>9 DEF node
        <3>2. \A q \in Peers(n) : \A i \in 1..match[q] : i \in 1..Len(log[n]) /\ match[q] >= i
            BY <1>7, <1>11
        <3>3. \A q \in Peers(n) :
                /\ match[q] <= Len(log[n])
                /\ \A i \in 1..match[q] :
                      Has(log[n], i, currentTerm[n]) => <<q, currentTerm[n], i>> \in K
            BY <3>2, <1>11
        <3> QED BY <3>1, <3>3, <2>2 DEF LeaderMatch, Has
    <2> QED BY <2>1, <2>2
<1>13. ASSUME NEW m \in Nodes
       PROVE  UNCHANGED commitIndex[m] \/ Committed(K, log[m], commitIndex'[m])
    <2>1. CASE m # n \/ Committable(n, match) = {}
        BY <2>1, <1>6 DEF Types, LogTypes
    <2>2. CASE m = n /\ Committable(n, match) # {}
        <3>1. commitIndex'[n] = Max(Committable(n, match))
            BY <2>2, <1>6 DEF Types, LogTypes
        <3>2. Committed(K, log[n], Max(Committable(n, match)))
            BY <2>2, <1>4, <1>11, CommittedByMajority
        <3> QED BY <3>1, <3>2, <2>2
    <2> QED BY <2>1, <2>2
<1>14. \A m \in Nodes : Stays(m)
    BY <1>6 DEF Stays, node
<1>15. UNCHANGED log /\ \A d \in calls' : d \in calls
    BY <1>6
<1> QED BY <1>12, <1>13, <1>14, <1>15, QuietCommits

LEMMA AnswerCommits ==
    ASSUME Types, Types', NEW V, NEW L, NEW A, NEW K, LogHistory(L, A), CommitRecords(V, L, A, K),
           slips' = {}, NEW c \in calls, Appended(c)
    PROVE  CommitRecords(V, L, A, K)'
<1>1. c \in AppendedCalls /\ c.from \in Nodes /\ c.t \in 0..MaxTerm /\ currentTerm[c.from] \in Nat
    BY CallKinds, TermType DEF Appended, Types, AppendedCalls
<1>2. calls' = calls \ {c} /\ UNCHANGED log
    BY DEF Appended
<1>3. CASE c.t > currentTerm[c.from]
    <2>1. TakesTerm(c.from, c.t) /\ UNCHANGED <<commitIndex, matchIndex>>
        BY <1>1, <1>3, RaftAssumption DEF Appended, TakesTerm, index
    <2>2. \A m \in Nodes : Stays(m) \/ Rises(m, A)
        BY <2>1, <1>1, <1>2, <1>3, TakesTermNodes
    <2> QED BY <2>1, <2>2, <1>2, QuietCommits
<1>4. CASE c.t <= currentTerm[c.from] /\ InOffice(c) /\ c.ok
    BY <1>4, AckedCommits
<1>5. CASE c.t <= currentTerm[c.from] /\ ~(InOffice(c) /\ c.ok)
    <2>1. UNCHANGED <<node, commitIndex, matchIndex>>
        BY <1>1, <1>5, RaftAssumption DEF Appended, InOffice, index
    <2>2. \A m \in Nodes : Stays(m)
        BY <2>1, <1>2 DEF Stays, node
    <2> QED BY <2>1, <2>2, <1>2, QuietCommits
<1>6. c.t > currentTerm[c.from] \/ c.t <= currentTerm[c.from]
    BY <1>1, RaftAssumption
<1> QED BY <1>3, <1>4, <1>5, <1>6

\* A log that is as up to date as one with a choosable entry has the entry.
LEMMA UpToDateHas ==
    ASSUME NEW A \in SUBSET Seq(Entries), NEW K, LogOrder(A), LogsComplete(A, K),
           NEW l \in A, NEW u \in A, NEW t \in Nat, NEW i \in Nat,
           Has(u, i, t), Written(A, i, t), Choosable(K, i, t),
           \/ LastTerm(l) > LastTerm(u)
           \/ LastTerm(l) = LastTerm(u) /\ Len(l) >= Len(u)
    PROVE  Has(l, i, t)
<1>1. l \in Seq(Entries) /\ u \in Seq(Entries) /\ Len(l) \in Nat /\ Len(u) \in Nat
    OBVIOUS
<1>2. i \in 1..Len(u) /\ Len(u) \in 1..Len(u) /\ i <= Len(u) /\ u # <<>>
    BY <1>1 DEF Has
<1>3. LastTerm(u) = u[Len(u)].term /\ LastTerm(u) \in Nat /\ t <= LastTerm(u) /\ t >= 1
    <2>1. LastTerm(u) = u[Len(u)].term
        BY <1>2 DEF LastTerm
    <2>2. u[i].term <= u[Len(u)].term
        BY <1>2 DEF LogOrder
    <2>3. u[i] \in Entries
        BY <1>1, <1>2
    <2>4. t \in 1..MaxTerm
        BY <2>3 DEF Entries, Has
    <2> QED BY <2>1, <2>2, <2>4, <1>1, <1>2, EntryTerm DEF Has
<1>4. LastTerm(l) \in Nat /\ LastTerm(l) >= t
    BY <1>1, <1>3, LastTermType, RaftAssumption
<1>5. l # <<>> /\ Len(l) \in 1..Len(l) /\ LastTerm(l) = l[Len(l)].term
    <2>1. l # <<>>
        BY <1>3, <1>4 DEF LastTerm
    <2> QED BY <2>1, <1>1 DEF LastTerm
<1>6. CASE LastTerm(l) > t
    <2>1. t < l[Len(l)].term
        BY <1>6, <1>5, <1>4
    <2> QED BY <2>1, <1>5 DEF LogsComplete
<1>7. CASE LastTerm(l) = t
    <2>1. Has(l, Len(l), t)
        BY <1>7, <1>5 DEF Has
    <2>2. i <= Len(l)
        BY <1>7, <1>1, <1>2, <1>3
    <2> QED BY <2>1, <2>2, <1>1 DEF LogOrder
<1> QED BY <1>4, <1>6, <1>7

\* The voter's choosable entries are the candidate's too.
LEMMA GivenCommits ==
    ASSUME Types, Types', NEW V, NEW L, NEW A, NEW K, LogHistory(L, A), CommitRecords(V, L, A, K),
           NEW c \in calls, HandleRequestVote(c), VoteGiven(c)
    PROVE  CommitRecords(V \cup {<<c.to, c.from, c.term>>}, L, A, K)'
<1>1. VoteStep(c) /\ c \in VoteCalls /\ UNCHANGED <<log, commitIndex, matchIndex>>
    BY VoteStepTypes DEF HandleRequestVote, logs, index
<1>2. /\ c.to \in Nodes /\ c.from \in Nodes /\ c.from # c.to /\ c.term \in Nat /\ c.kind = "vote"
      /\ \A n \in Nodes : currentTerm[n] \in Nat /\ currentTerm'[n] \in Nat
    BY <1>1, CallKinds DEF VoteCalls, Types, NodeTypes
<1>3. PICK V2 : V2 = V \cup {<<c.to, c.from, c.term>>}
    OBVIOUS
<1>4. \A n \in Nodes :
        \/ UNCHANGED <<state[n], currentTerm[n]>>
        \/ currentTerm'[n] > currentTerm[n] /\ state'[n] # "leader"
    BY <1>1, <1>2 DEF VoteStep
<1>5. TermsGrow
    BY <1>2, <1>4 DEF TermsGrow
<1>6. \A n \in Nodes : state'[n] = "leader" => state[n] = "leader" /\ UNCHANGED currentTerm[n]
    BY <1>4
<1>7. \A d \in calls : Replicating(d) /\ InOffice(d)' => InOffice(d)
    BY <1>6, CallKinds DEF InOffice, Types
<1>8. ASSUME NEW d \in calls', d \notin calls PROVE CallKept(L, A, K, d)'
    <2>1. d.kind = "granted"
        BY <1>8 DEF VoteGiven
    <2> QED BY <2>1 DEF CallKept
<1>9. CommitRecords(V, L, A, K)'
    BY <1>1, <1>5, <1>6, <1>7, <1>8, KeepCommits
<1>10. VoteFor(L, K, c.to, c.from, c.term)'
    <2>1. AsksForVote(L, c) /\ EntriesHad(A, K) /\ LogOrder(A) /\ LogsComplete(A, K)
        BY <1>2 DEF CommitRecords
    <2>2. UNCHANGED currentTerm[c.from]
        BY <1>1, <1>2 DEF VoteStep
    <2>3. Narrows(K, K)
        BY <1>1, <1>5, <2>1, SameLogs
    <2>4. A \in SUBSET Seq(Entries) /\ log[c.from] \in A /\ log[c.to] \in A
        BY <1>2 DEF LogHistory
    <2>5. ASSUME c.term = currentTerm[c.from], Unled(L, c.term), NEW t \in Nat, NEW i \in Nat,
                 <<c.to, t, i>> \in K, Choosable(K, i, t)'
          PROVE  Has(log[c.from], i, t)
        <3>1. Choosable(K, i, t)
            BY <2>3, <2>5 DEF Narrows
        <3>2. Written(A, i, t) /\ Has(log[c.to], i, t)
            BY <3>1, <2>1, <2>5, <1>2 DEF EntriesHad
        <3>3. c.last = Len(log[c.from]) /\ c.lastTerm = LastTerm(log[c.from])
            BY <2>1, <2>5 DEF AsksForVote
        <3>4. \/ LastTerm(log[c.from]) > LastTerm(log[c.to])
              \/ /\ LastTerm(log[c.from]) = LastTerm(log[c.to])
                 /\ Len(log[c.from]) >= Len(log[c.to])
            BY <3>3 DEF VoteGiven, UpToDate
        <3> QED BY <3>1, <3>2, <3>4, <2>1, <2>4, UpToDateHas
    <2>6. c.term <= currentTerm'[c.from]
        BY <2>1, <2>2 DEF AsksForVote
    <2> QED BY <2>2, <2>5, <2>6, <1>1 DEF VoteFor
<1>11. CommitRecords(V2, L, A, K)'
    BY <1>3, <1>9, <1>10 DEF CommitRecords
<1> QED BY <1>3, <1>11

\* A candidate has all that may be chosen of what it has had itself.
LEMMA CandidateCommits ==
    ASSUME Types, Types', NEW V, NEW L, NEW A, NEW K, LogHistory(L, A), CommitRecords(V, L, A, K),
           slips' = {}, NEW n \in Nodes, RunCandidate(n),
           NEW V2, V2 = V \cup {<<n, n, currentTerm[n] + 1>>}
    PROVE  CommitRecords(V2, L, A, K)'
<1>1. PICK t \in Nat : t = currentTerm[n] + 1 /\ currentTerm[n] \in Nat
    BY DEF Types, NodeTypes
<1>2. /\ currentTerm' = [currentTerm EXCEPT ![n] = t] /\ state[n] # "leader"
      /\ UNCHANGED <<state, log, commitIndex, matchIndex>>
      /\ calls' = calls \cup
            {[kind |-> "vote", from |-> n, to |-> p, term |-> t, round |-> Len(votes[n]) + 1,
              last |-> Len(log[n]), lastTerm |-> LastTerm(log[n])] : p \in Peers(n)}
    BY <1>1 DEF RunCandidate, logs, index
<1>3. /\ \A m \in Nodes : currentTerm[m] \in Nat /\ currentTerm'[m] \in Nat
      /\ currentTerm'[n] = t /\ \A m \in Nodes : m # n => UNCHANGED currentTerm[m]
    BY <1>2 DEF Types, NodeTypes
<1>4. TermsGrow
    BY <1>1, <1>3 DEF TermsGrow
<1>5. \A m \in Nodes : state'[m] = "leader" => state[m] = "leader" /\ UNCHANGED currentTerm[m]
    BY <1>2, <1>3
<1>6. \A d \in calls : Replicating(d) /\ InOffice(d)' => InOffice(d)
    BY <1>5, CallKinds DEF InOffice, Types
<1>7. ASSUME NEW d \in calls', d \notin calls PROVE CallKept(L, A, K, d)'
    <2>1. /\ d.kind = "vote" /\ d.from = n /\ d.term = t
          /\ d.last = Len(log[n]) /\ d.lastTerm = LastTerm(log[n])
        BY <1>2, <1>7
    <2>2. AsksForVote(L, d)'
        BY <2>1, <1>2, <1>3 DEF AsksForVote
    <2> QED BY <2>1, <2>2 DEF CallKept
<1>8. CommitRecords(V, L, A, K)'
    BY <1>2, <1>4, <1>5, <1>6, <1>7, KeepCommits
<1>9. VoteFor(L, K, n, n, t)'
    <2>1. EntriesHad(A, K)'
        BY <1>8 DEF CommitRecords
    <2> QED BY <2>1, <1>3 DEF VoteFor, EntriesHad
<1> QED BY <1>1, <1>8, <1>9 DEF CommitRecords

LEMMA MajoritiesMeet ==
    ASSUME NEW P \in SUBSET Nodes, NEW Q \in SUBSET Nodes,
           Majority(Cardinality(P)), Majority(Cardinality(Q))
    PROVE  \E q \in Nodes : q \in P /\ q \in Q
<1>1. /\ IsFiniteSet(Nodes) /\ Cardinality(P) \in Nat /\ Cardinality(Q) \in Nat
      /\ Cardinality(Nodes) \in Nat
    BY RaftAssumption, FS_Subset, FS_CardinalityType
<1>2. Cardinality(P) + Cardinality(Q) > Cardinality(Nodes)
    BY <1>1 DEF Majority
<1>3. P \cap Q # {}
    BY <1>1, <1>2, FS_MajoritiesIntersect
<1> QED BY <1>3

\* A winner has all that may be chosen: one of its voters has had it.
LEMMA WinnerComplete ==
    ASSUME Types, NEW E, NEW H, NEW V, NEW L, NEW A, NEW K,
           VotesGiven(V), Ballots(E, H, V),
           \A q, m \in Nodes : \A w \in Nat : <<q, m, w>> \in V => VoteFor(L, K, q, m, w),
           NEW n \in Nodes, Elected(E, H, n, currentTerm[n]), Unled(L, currentTerm[n])
    PROVE  Complete(A, K, log[n], currentTerm[n])
<1>1. PICK w \in Nat : w = currentTerm[n]
    BY TermType
<1>2. SUFFICES ASSUME NEW t \in Nat, NEW i \in Nat, t < w, Choosable(K, i, t)
               PROVE  Has(log[n], i, t)
    BY <1>1 DEF Complete
<1>3. PICK Q \in SUBSET Nodes :
        /\ Majority(Cardinality(Q))
        /\ \A q \in Q : currentTerm[q] <= t \/ <<q, t, i>> \in K
    BY <1>2 DEF Choosable
<1>4. PICK r \in Nat : <<n, r, w>> \in E /\ Majority(Cardinality(Voters(H, n, r)))
    BY <1>1 DEF Elected
<1>5. Voters(H, n, r) \in SUBSET Nodes
    BY DEF Voters
<1>6. PICK q \in Nodes : q \in Voters(H, n, r) /\ q \in Q
    BY <1>3, <1>4, <1>5, MajoritiesMeet
<1>7. <<q, n, w>> \in V
    BY <1>4, <1>6 DEF Ballots, Voters
<1>8. w <= currentTerm[q] /\ currentTerm[q] \in Nat
    BY <1>7, TermType DEF VotesGiven
<1>9. <<q, t, i>> \in K
    BY <1>2, <1>3, <1>6, <1>8
<1>10. VoteFor(L, K, q, n, w)
    BY <1>7
<1> QED BY <1>1, <1>2, <1>9, <1>10 DEF VoteFor

LEMMA CountedCommits ==
    ASSUME Types, Types', NEW E, NEW H, NEW V, NEW L, NEW A, NEW K, NEW H2, NEW L2,
           Records(E, H, V, L, A), Records(E, H2, V, L2, A)', CommitRecords(V, L, A, K),
           slips = {}, slips' = {}, NEW c \in calls, VoteGranted(c),
           L2 = IF Wins(c) THEN L \cup {<<c.from, c.term>>} ELSE L
    PROVE  CommitRecords(V, L2, A, K)'
<1>1. Led(E, H, L) /\ LogHistory(L, A) /\ c.round \in 1..Len(votes[c.from])
    <2>1. c.kind = "granted"
        BY DEF VoteGranted
    <2> QED BY <2>1 DEF Records, NoSlip, Counting, Voting
<1>2. VotesGiven(V)' /\ Ballots(E, H2, V)' /\ Led(E, H2, L2)'
    BY DEF Records, NoSlip
<1>3. /\ c \in GrantedCalls /\ calls' = calls \ {c} /\ UNCHANGED <<log, commitIndex>>
      /\ Wins(c) \/ UNCHANGED node
    BY <1>1, VoteGrantedTypes DEF logs
<1>4. UNCHANGED currentTerm /\ TermsGrow
    <2>1. UNCHANGED currentTerm
        BY DEF VoteGranted
    <2> QED BY <2>1, TermType DEF TermsGrow
<1>5. PICK n \in Nodes : n = c.from
    BY <1>3 DEF GrantedCalls
<1>6. CASE ~Wins(c)
    <2>1. UNCHANGED <<node, matchIndex>>
        BY <1>3, <1>6 DEF VoteGranted, Wins
    <2>2. \A m \in Nodes : Stays(m)
        BY <2>1, <1>3 DEF Stays, node
    <2>3. L2 = L
        BY <1>6
    <2> QED BY <2>1, <2>2, <2>3, <1>3, QuietCommits
<1>7. CASE Wins(c)
    <2>1. PICK w \in Nat : w = c.term /\ w = currentTerm[n]
        BY <1>5, <1>7, TermType DEF Wins
    <2>2. /\ L2 = L \cup {<<n, w>>} /\ state[n] = "candidate" /\ state'[n] = "leader"
          /\ \A m \in Nodes : m # n => state'[m] = state[m]
          /\ matchIndex' = [matchIndex EXCEPT ![n] = [p \in Peers(n) |-> 0]]
        BY <2>1, <1>5, <1>7 DEF Wins, VoteGranted, Types, NodeTypes
    <2>3. Elected(E, H2, n, w)
        BY <2>1, <2>2, <1>2, <1>4 DEF Led
    <2>4. Unled(L, w)
        <3> SUFFICES ASSUME NEW m \in Nodes, <<m, w>> \in L PROVE FALSE
            BY DEF Unled
        <3>1. Elected(E, H2, m, w)
            BY <2>2, <1>2 DEF Led
        <3>2. m = n
            <4>1. Ballots(E, H2, V)
                BY <1>2 DEF Ballots
            <4> QED BY <4>1, <3>1, <2>3, OneElected
        <3> QED BY <3>2, <2>1, <2>2, <1>1 DEF Led
    <2>5. \A q \in Nodes : currentTerm[q] \in Nat
        BY TermType
    <2>6. Complete(A, K, log[n], w)
        <3>1. VotesGiven(V)
            <4>1. UNCHANGED votedFor /\ \A d \in calls : d \in calls' \/ d = c
                BY <1>3, <1>7 DEF Wins
            <4>2. VotesGiven(V)
                BY DEF Records, NoSlip
            <4> QED BY <4>2
        <3>2. Ballots(E, H2, V)
            BY <1>2 DEF Ballots
        <3>3. \A q, m \in Nodes : \A v \in Nat : <<q, m, v>> \in V => VoteFor(L, K, q, m, v)
            BY DEF CommitRecords
        <3> QED BY <3>1, <3>2, <3>3, <2>1, <2>3, <2>4, WinnerComplete
    <2>7. LeaderLog(A, K, n)'
        <3>1. ASSUME NEW i \in Nat, Written(A, i, w) PROVE FALSE
            BY <3>1, <2>4, <1>1 DEF Written, Has, LogHistory, Unled
        <3>2. Complete(A, K, log[n], w)'
            BY <2>6, <1>3, <1>4 DEF Complete, Choosable
        <3> QED BY <3>1, <3>2, <2>1, <1>4 DEF LeaderLog
    <2>8. LeaderMatch(K, n)'
        <3>1. \A p \in Peers(n) : matchIndex'[n][p] = 0
            BY <2>2 DEF Types, IndexTypes
        <3>2. Len(log'[n]) \in Nat
            BY LogType, <1>3
        <3> QED BY <3>1, <3>2 DEF LeaderMatch
    <2>9. \A m \in Nodes : m # n => UNCHANGED matchIndex[m]
        BY <2>2 DEF Types, IndexTypes
    <2>10. ASSUME NEW m \in Nodes, state'[m] = "leader"
           PROVE  \/ LeaderLog(A, K, m)' /\ LeaderMatch(K, m)'
                  \/ /\ state[m] = "leader" /\ UNCHANGED currentTerm[m]
                     /\ UNCHANGED matchIndex[m] \/ LeaderMatch(K, m)'
        BY <2>2, <2>7, <2>8, <2>9, <2>10, <1>4
    <2>11. ASSUME NEW d \in calls, Replicating(d), InOffice(d)' PROVE InOffice(d)
        <3>1. d.from \in Nodes /\ <<d.from, d.term>> \in L
            BY <2>11, <1>1, CallKinds DEF Led, Types
        <3>2. ~(d.from = n /\ d.term = w)
            BY <3>1, <2>4 DEF Unled
        <3> QED BY <3>1, <3>2, <2>1, <2>2, <2>11, <1>4 DEF InOffice
    <2>12. L \subseteq L2 /\ \A d \in calls' : d \in calls
        BY <2>2, <1>3
    <2> QED BY <2>10, <2>11, <2>12, <1>3, <1>4, KeepCommits
<1> QED BY <1>6, <1>7

\* What was not written before a later term has a leader never counts.
LEMMA NeverChoosable ==
    ASSUME Types, NEW E, NEW H, NEW V, NEW L, NEW A, NEW K, EntriesHad(A, K),
           VotesGiven(V), Ballots(E, H, V), Led(E, H, L),
           NEW m \in Nodes, NEW w \in Nat, <<m, w>> \in L,
           NEW t \in Nat, NEW i \in Nat, t < w, Choosable(K, i, t)
    PROVE  Written(A, i, t)
<1>1. PICK Q \in SUBSET Nodes :
        /\ Majority(Cardinality(Q))
        /\ \A q \in Q : currentTerm[q] <= t \/ <<q, t, i>> \in K
    BY DEF Choosable
<1>2. PICK r \in Nat : <<m, r, w>> \in E /\ Majority(Cardinality(Voters(H, m, r)))
    BY DEF Led, Elected
<1>3. Voters(H, m, r) \in SUBSET Nodes
    BY DEF Voters
<1>4. PICK q \in Nodes : q \in Voters(H, m, r) /\ q \in Q
    BY <1>1, <1>2, <1>3, MajoritiesMeet
<1>5. <<q, m, w>> \in V
    BY <1>2, <1>4 DEF Ballots, Voters
<1>6. w <= currentTerm[q] /\ currentTerm[q] \in Nat
    BY <1>5, TermType DEF VotesGiven
<1>7. <<q, t, i>> \in K
    BY <1>1, <1>4, <1>6
<1> QED BY <1>7 DEF EntriesHad

\* The log u is l with an entry of term w.
Extends(u, l, w) ==
    /\ Len(u) = Len(l) + 1 /\ u[Len(u)].term = w
    /\ \A i \in 1..Len(l) : u[i] = l[i]

LEMMA ExtendedHas ==
    ASSUME NEW l \in Seq(Entries), NEW u, NEW w, Extends(u, l, w), NEW i \in Nat, NEW t
    PROVE  /\ Has(l, i, t) => Has(u, i, t)
           /\ Has(u, i, t) => Has(l, i, t) \/ (i = Len(l) + 1 /\ t = w)
           /\ Has(u, Len(l) + 1, w) /\ ~Has(l, Len(l) + 1, t)
<1>1. Len(l) \in Nat
    OBVIOUS
<1> QED BY <1>1 DEF Has, Extends

\* The leader n has u in place of its log, a log u longer by the k-th entry, which
\* is not choosable if there has been a later term.
Grown(A, K, n, u, k, A2, K2) ==
    /\ Extends(u, log[n], currentTerm[n]) /\ k = Len(log[n]) + 1
    /\ A2 = A \cup {u} /\ K2 = K \cup {<<n, currentTerm[n], k>>}
    /\ log' = [log EXCEPT ![n] = u] /\ UNCHANGED currentTerm
    /\ \A t, i \in Nat : Choosable(K2, i, t)' => Choosable(K, i, t)
    /\ \A s \in A : \A j \in 1..Len(s) :
          Choosable(K, k, currentTerm[n]) => s[j].term <= currentTerm[n]

LEMMA GrownLogs ==
    ASSUME Types, NEW L, NEW A, NEW K, LogHistory(L, A),
           EntriesHad(A, K), LogOrder(A), LogsComplete(A, K),
           NEW n \in Nodes, LeaderLog(A, K, n),
           NEW u, NEW k, NEW A2, NEW K2, Grown(A, K, n, u, k, A2, K2)
    PROVE  /\ \A i, t \in Nat : Written(A2, i, t) =>
                 Written(A, i, t) \/ (i = k /\ t = currentTerm[n])
           /\ EntriesHad(A2, K2)' /\ LogOrder(A2)' /\ LogsComplete(A2, K2)'
<1> USE DEF Grown
<1>1. PICK w \in Nat : w = currentTerm[n]
    BY TermType
<1>2. PICK l \in Seq(Entries) : l = log[n] /\ l \in A /\ Len(l) \in Nat
    BY LogType DEF LogHistory
<1>3. /\ Extends(u, l, w) /\ k = Len(l) + 1 /\ log'[n] = u /\ k \in Nat
      /\ \A m \in Nodes : m # n => log'[m] = log[m]
    BY <1>1, <1>2 DEF Types, LogTypes
<1>4. /\ \A i, t \in Nat : Has(l, i, t) => Has(u, i, t)
      /\ \A i, t \in Nat : Has(u, i, t) => Has(l, i, t) \/ (i = k /\ t = w)
      /\ Has(u, k, w) /\ \A t \in Nat : ~Has(l, k, t)
    BY <1>2, <1>3, ExtendedHas
<1>5. \A i, t \in Nat : Written(A2, i, t) => Written(A, i, t) \/ (i = k /\ t = w)
    BY <1>2, <1>4 DEF Written
<1>6. \A i, t \in Nat : Written(A, i, t) => Written(A2, i, t)
    BY DEF Written
<1>7. Written(A2, k, w)
    BY <1>4 DEF Written
<1>8. \A i \in Nat : Written(A, i, w) => Has(l, i, w)
    BY <1>1, <1>2 DEF LeaderLog
<1>9. EntriesHad(A2, K2)'
    <2>1. ASSUME NEW q \in Nodes, NEW t \in Nat, NEW i \in Nat, <<q, t, i>> \in K2
          PROVE  /\ t <= currentTerm[q] /\ Written(A2, i, t)
                 /\ Choosable(K2, i, t)' => Has(log'[q], i, t)
        <3>1. CASE <<q, t, i>> \in K
            <4>1. /\ t <= currentTerm[q] /\ Written(A2, i, t)
                  /\ Choosable(K2, i, t)' => Has(log[q], i, t)
                BY <3>1, <1>6 DEF EntriesHad
            <4> QED BY <4>1, <1>2, <1>3, <1>4
        <3>2. CASE q = n /\ t = w /\ i = k
            BY <3>2, <1>1, <1>3, <1>4, <1>7
        <3> QED BY <3>1, <3>2, <2>1, <1>1
    <2>2. ASSUME NEW q \in Nodes, NEW i \in Nat, Has(log'[q], i, currentTerm[q])
          PROVE  <<q, currentTerm[q], i>> \in K2
        <3>1. Has(log[q], i, currentTerm[q]) \/ (q = n /\ i = k)
            BY <2>2, <1>1, <1>2, <1>3, <1>4
        <3> QED BY <3>1 DEF EntriesHad
    <2> QED BY <2>1, <2>2 DEF EntriesHad
<1>10. \A j \in 1..Len(u) : \/ j \in 1..Len(l) /\ u[j] = l[j]
                            \/ j = k /\ u[j].term = w
    BY <1>2, <1>3 DEF Extends
<1>11. \A j \in 1..Len(l) : l[j].term <= w /\ l[j].term \in Nat /\ j < k
    BY <1>1, <1>2, <1>3, EntryTerm DEF LogOrder
<1>12. LogOrder(A2)'
    <2>1. ASSUME NEW s \in A2, NEW i \in 1..Len(s), NEW j \in 1..Len(s), i <= j
          PROVE  s[i].term <= s[j].term
        <3>1. CASE s \in A
            BY <3>1, <2>1 DEF LogOrder
        <3>2. CASE s = u
            <4>1. CASE j = k
                BY <4>1, <3>2, <1>10, <1>11, <1>3
            <4>2. CASE j # k
                <5>1. j \in 1..Len(l) /\ i \in 1..Len(l) /\ u[j] = l[j] /\ u[i] = l[i]
                    BY <4>2, <3>2, <2>1, <1>2, <1>3, <1>10
                <5> QED BY <5>1, <3>2, <2>1, <1>2 DEF LogOrder
            <4> QED BY <4>1, <4>2
        <3> QED BY <3>1, <3>2
    <2>2. ASSUME NEW m \in Nodes, NEW i \in 1..Len(log'[m])
          PROVE  log'[m][i].term <= currentTerm[m]
        <3>1. CASE m # n
            BY <3>1, <1>3 DEF LogOrder
        <3>2. CASE m = n
            BY <3>2, <1>1, <1>3, <1>10, <1>11
        <3> QED BY <3>1, <3>2
    <2>3. ASSUME NEW s \in A2, NEW i \in Nat, NEW j \in Nat, NEW t \in Nat,
                 Has(s, j, t), Written(A2, i, t), i <= j
          PROVE  Has(s, i, t)
        <3>1. CASE s \in A /\ Written(A, i, t)
            BY <3>1, <2>3 DEF LogOrder
        <3>2. CASE s \in A /\ i = k /\ t = w
            <4>1. Has(l, j, w)
                BY <3>2, <2>3, <1>8 DEF Written
            <4> QED BY <4>1, <3>2, <2>3, <1>11 DEF Has
        <3>3. CASE s = u /\ Written(A, i, t) /\ t = w
            BY <3>3, <1>4, <1>8
        <3>4. CASE s = u /\ Written(A, i, t) /\ t # w
            <4>1. Has(l, j, t)
                BY <3>4, <2>3, <1>4
            <4>2. Has(l, i, t)
                BY <4>1, <3>4, <2>3, <1>2 DEF LogOrder
            <4> QED BY <4>2, <3>4, <1>4
        <3>5. CASE s = u /\ i = k /\ t = w
            BY <3>5, <1>4
        <3> QED BY <3>1, <3>2, <3>3, <3>4, <3>5, <2>3, <1>5
    <2> QED BY <2>1, <2>2, <2>3 DEF LogOrder
<1>13. LogsComplete(A2, K2)'
    <2> SUFFICES ASSUME NEW s \in A2, NEW j \in 1..Len(s), NEW t \in Nat, NEW i \in Nat,
                        t < s[j].term, Written(A2, i, t), Choosable(K, i, t)
                 PROVE  Has(s, i, t) /\ i < j
        BY DEF LogsComplete
    <2>1. CASE s \in A
        <3>1. ~(i = k /\ t = w)
            <4> SUFFICES ASSUME i = k, t = w PROVE FALSE
                OBVIOUS
            <4>1. s[j].term <= w /\ s[j].term \in Nat
                BY <2>1, <1>1, EntryTerm DEF LogHistory
            <4> QED BY <4>1
        <3>2. Written(A, i, t)
            BY <3>1, <1>5
        <3> QED BY <3>2, <2>1 DEF LogsComplete
    <2>2. CASE s = u
        <3>1. t < w
            BY <2>2, <1>10, <1>11
        <3>2. Written(A, i, t)
            <4>1. t # w
                BY <3>1
            <4> QED BY <4>1, <1>5
        <3>3. CASE j \in 1..Len(l) /\ u[j] = l[j]
            <4>1. Has(l, i, t) /\ i < j
                BY <3>2, <3>3, <2>2, <1>2 DEF LogsComplete
            <4> QED BY <4>1, <2>2, <1>4
        <3>4. CASE j = k
            <4>1. Has(l, i, t)
                BY <3>1, <3>2, <1>1, <1>2 DEF LeaderLog, Complete
            <4>2. i < k
                BY <4>1, <1>11 DEF Has
            <4> QED BY <4>1, <4>2, <3>4, <2>2, <1>4
        <3> QED BY <3>3, <3>4, <2>2, <1>10
    <2> QED BY <2>1, <2>2
<1> QED BY <1>1, <1>5, <1>9, <1>12, <1>13

\* A proposed entry cannot be chosen if a later term has a leader.
LEMMA ProposedCommits ==
    ASSUME Types, Types', NEW E, NEW H, NEW V, NEW L, NEW A, NEW K, NEW A2, NEW K2,
           Records(E, H, V, L, A), CommitRecords(V, L, A, K), slips = {},
           NEW n \in Nodes, Propose(n), A2 = A \cup {log'[n]},
           K2 = K \cup {<<n, currentTerm[n], Len(log[n]) + 1>>}
    PROVE  CommitRecords(V, L, A2, K2)'
<1>1. PICK w \in Nat : w = currentTerm[n]
    BY TermType
<1>2. PICK l \in Seq(Entries) : l = log[n] /\ Len(l) \in Nat
    BY LogType
<1>3. PICK k \in Nat : k = Len(l) + 1
    BY <1>2
<1>4. PICK u : /\ u = log'[n] /\ Extends(u, l, w) /\ log' = [log EXCEPT ![n] = u]
               /\ \A m \in Nodes : m # n => log'[m] = log[m]
    <2>1. /\ Len(log'[n]) = Len(l) + 1 /\ log'[n][Len(l) + 1].term = w
          /\ \A i \in 1..Len(l) : log'[n][i] = l[i]
        BY <1>1, <1>2, ProposeTypes
    <2>2. log' = [log EXCEPT ![n] = log'[n]] /\ \A m \in Nodes : m # n => log'[m] = log[m]
        BY DEF Propose, Types, LogTypes
    <2> QED BY <2>1, <2>2 DEF Extends
<1>5. /\ state[n] = "leader"
      /\ UNCHANGED <<state, currentTerm, commitIndex, matchIndex, calls>>
    BY DEF Propose, node, index
<1>6. /\ VotesGiven(V) /\ Ballots(E, H, V) /\ Led(E, H, L) /\ LogHistory(L, A)
      /\ EntriesHad(A, K) /\ LogOrder(A) /\ LogsComplete(A, K) /\ LeaderLog(A, K, n)
    BY <1>5 DEF Records, NoSlip, CommitRecords
<1>7. /\ <<n, w>> \in L
      /\ \A m \in Nodes : <<m, w>> \in L => m = n
    <2>1. <<n, w>> \in L
        BY <1>1, <1>5, <1>6 DEF Led
    <2>2. ASSUME NEW m \in Nodes, <<m, w>> \in L PROVE m = n
        <3>1. Elected(E, H, m, w) /\ Elected(E, H, n, w)
            BY <2>1, <2>2, <1>6 DEF Led
        <3> QED BY <3>1, <1>6, OneElected
    <2> QED BY <2>1, <2>2
<1>8. \A t, i \in Nat : Choosable(K2, i, t)' => Choosable(K, i, t)
    <2>1. TermsGrow
        BY <1>5, TermType DEF TermsGrow
    <2>2. ASSUME NEW t \in Nat, NEW i \in Nat, NEW q \in Nodes, <<q, t, i>> \in K2
          PROVE  <<q, t, i>> \in K \/ currentTerm[q] <= t
        BY <2>2, <1>1
    <2> QED BY <2>1, <2>2, ChoosableBefore
<1>9. ~Written(A, k, w)
    <2>1. Written(A, k, w) => Has(l, k, w)
        BY <1>1, <1>2, <1>6 DEF LeaderLog
    <2> QED BY <2>1, <1>2, <1>3 DEF Has
<1>10. \A m \in Nodes : \A v \in Nat : <<m, v>> \in L /\ w < v => ~Choosable(K, k, w)
    BY <1>6, <1>9, NeverChoosable
<1>11. ASSUME NEW s \in A, NEW j \in 1..Len(s), Choosable(K, k, w) PROVE s[j].term <= w
    <2>1. s[j].term \in Nat /\ \E m \in Nodes : <<m, s[j].term>> \in L
        BY <1>6, EntryTerm DEF LogHistory
    <2> QED BY <2>1, <1>10, <1>11
<1>12. /\ \A i, t \in Nat : Written(A2, i, t) => Written(A, i, t) \/ (i = k /\ t = w)
       /\ EntriesHad(A2, K2)' /\ LogOrder(A2)' /\ LogsComplete(A2, K2)'
    <2>1. Extends(u, log[n], currentTerm[n]) /\ k = Len(log[n]) + 1 /\ A2 = A \cup {u}
        BY <1>1, <1>2, <1>3, <1>4
    <2>2. K2 = K \cup {<<n, currentTerm[n], k>>}
        BY <1>2, <1>3
    <2>3. \A s \in A : \A j \in 1..Len(s) :
            Choosable(K, k, currentTerm[n]) => s[j].term <= currentTerm[n]
        BY <1>1, <1>11
    <2>4. /\ \A i, t \in Nat : Written(A2, i, t) =>
                Written(A, i, t) \/ (i = k /\ t = currentTerm[n])
          /\ EntriesHad(A2, K2)' /\ LogOrder(A2)' /\ LogsComplete(A2, K2)'
        <3>1. Grown(A, K, n, u, k, A2, K2)
            BY <2>1, <2>2, <2>3, <1>4, <1>5, <1>8 DEF Grown
        <3> QED BY <3>1, <1>6, GrownLogs
    <2> QED BY <2>4, <1>1
<1>13. /\ \A i, t \in Nat : Has(l, i, t) => Has(u, i, t)
       /\ \A i, t \in Nat : Has(u, i, t) => Has(l, i, t) \/ (i = k /\ t = w)
       /\ Has(u, k, w)
    BY <1>2, <1>3, <1>4, ExtendedHas
<1>14. \A m \in Nodes :
         /\ \A i, t \in Nat : Has(log[m], i, t) => Has(log'[m], i, t)
         /\ Len(log[m]) \in Nat /\ Len(log'[m]) \in Nat /\ Len(log[m]) <= Len(log'[m])
         /\ \A i \in 1..Len(log[m]) : log'[m][i] = log[m][i]
    BY <1>2, <1>3, <1>4, <1>13, LogType DEF Extends
<1>15. ASSUME NEW s, NEW v \in Nat, Complete(A, K, s, v),
              w < v => \E m \in Nodes : <<m, v>> \in L
       PROVE  Complete(A2, K2, s, v)'
    <2> SUFFICES ASSUME NEW t \in Nat, NEW i \in Nat, t < v, Written(A2, i, t),
                        Choosable(K, i, t)
                 PROVE  Has(s, i, t)
        BY <1>8 DEF Complete
    <2>1. ~(i = k /\ t = w)
        BY <1>10, <1>15
    <2>2. Written(A, i, t)
        BY <2>1, <1>12
    <2> QED BY <2>2, <1>15 DEF Complete
<1>16. ASSUME NEW m \in Nodes, state'[m] = "leader"
       PROVE  LeaderLog(A2, K2, m)' /\ LeaderMatch(K2, m)'
    <2>1. LeaderLog(A, K, m) /\ LeaderMatch(K, m)
        BY <1>5, <1>16 DEF CommitRecords
    <2>2. PICK v \in Nat : v = currentTerm[m] /\ v = currentTerm'[m] /\ <<m, v>> \in L
        BY <1>5, <1>6, <1>16, TermType DEF Led
    <2>3. Complete(A2, K2, log[m], v)'
        <3>1. PICK s : s = log[m]
            OBVIOUS
        <3>2. Complete(A2, K2, s, v)'
            BY <3>1, <2>1, <2>2, <1>15 DEF LeaderLog
        <3>3. \A t, i \in Nat : Has(s, i, t) => Has(log'[m], i, t)
            BY <3>1, <1>14
        <3> QED BY <3>2, <3>3 DEF Complete
    <2>4. ASSUME NEW i \in Nat, Written(A2, i, v) PROVE Has(log'[m], i, v)
        <3>1. CASE Written(A, i, v)
            BY <3>1, <2>1, <2>2, <1>14 DEF LeaderLog
        <3>2. CASE i = k /\ v = w
            BY <3>2, <2>2, <1>4, <1>7, <1>13
        <3> QED BY <3>1, <3>2, <2>4, <1>12
    <2>5. LeaderLog(A2, K2, m)'
        BY <2>2, <2>3, <2>4 DEF LeaderLog
    <2>6. ASSUME NEW p \in Peers(m)
          PROVE  /\ matchIndex[m][p] <= Len(log'[m])
                 /\ \A i \in 1..matchIndex[m][p] :
                       Has(log'[m], i, v) => <<p, v, i>> \in K2
        <3>1. matchIndex[m][p] \in Nat /\ matchIndex[m][p] <= Len(log[m])
            BY <2>1 DEF LeaderMatch, Types, IndexTypes
        <3>2. ASSUME NEW i \in 1..matchIndex[m][p], Has(log'[m], i, v)
              PROVE  <<p, v, i>> \in K2
            <4>1. i \in 1..Len(log[m])
                BY <3>1, <1>14
            <4>2. Has(log[m], i, v)
                BY <4>1, <3>2, <1>14 DEF Has
            <4> QED BY <4>2, <3>2, <2>1, <2>2 DEF LeaderMatch
        <3> QED BY <3>1, <3>2, <1>14
    <2>7. LeaderMatch(K2, m)'
        BY <2>2, <2>6, <1>5 DEF LeaderMatch
    <2> QED BY <2>5, <2>7
<1>17. ASSUME NEW m \in Nodes PROVE Committed(K2, log[m], commitIndex[m])'
    <2>1. Committed(K2, log[m], commitIndex[m])
        BY StillCommitted DEF CommitRecords
    <2> QED BY <2>1, <1>5, <1>14 DEF Committed, Chosen
<1>18. ASSUME NEW c \in calls, c.kind = "append"
       PROVE  (\E s \in A2 : LeadersLog(A2, K2, c, s))'
    <2>1. PICK s \in A : LeadersLog(A, K, c, s)
        BY <1>18 DEF CommitRecords
    <2>2. c.from \in Nodes /\ c.term \in Nat /\ <<c.from, c.term>> \in L
        BY <1>6, <1>18, CallKinds DEF Led, Replicating, Types, AppendCalls
    <2>3. Complete(A2, K2, s, c.term)'
        BY <2>1, <2>2, <1>15 DEF LeadersLog
    <2>4. Carries(c, s)' /\ Committed(K2, s, c.commit)'
        <3>1. Committed(K2, s, c.commit)
            BY <2>1, StillCommitted DEF LeadersLog
        <3> QED BY <3>1, <2>1 DEF LeadersLog, Carries, Committed, Chosen
    <2>5. InOffice(c) => /\ Len(s) <= Len(log'[c.from]) /\ Len(s) <= Len(log[c.from])
                         /\ \A j \in 1..Len(s) : s[j] = log'[c.from][j]
        <3>1. Len(s) \in Nat
            BY <1>6 DEF LogHistory
        <3> SUFFICES ASSUME InOffice(c)
                     PROVE  /\ Len(s) <= Len(log'[c.from]) /\ Len(s) <= Len(log[c.from])
                            /\ \A j \in 1..Len(s) : s[j] = log'[c.from][j]
            OBVIOUS
        <3>2. Len(s) <= Len(log[c.from]) /\ \A j \in 1..Len(s) : s[j] = log[c.from][j]
            BY <2>1 DEF LeadersLog
        <3>3. /\ Len(log[c.from]) \in Nat /\ Len(log'[c.from]) \in Nat
              /\ Len(log[c.from]) <= Len(log'[c.from])
              /\ \A i \in 1..Len(log[c.from]) : log'[c.from][i] = log[c.from][i]
            BY <2>2, <1>14
        <3> QED BY <3>1, <3>2, <3>3
    <2>6. ASSUME NEW x \in A2, NEW i \in Nat, Has(x, i, c.term), NEW j \in 1..i, j <= Len(s)
          PROVE  x[j] = s[j]
        <3>1. CASE x \in A
            BY <3>1, <2>1, <2>6 DEF LeadersLog
        <3>2. CASE x = u /\ Has(l, i, c.term)
            <4>1. l \in A /\ j \in 1..Len(l)
                BY <3>2, <1>2, <1>6 DEF LogHistory, Has
            <4>2. l[j] = s[j]
                BY <4>1, <3>2, <2>1, <2>6 DEF LeadersLog
            <4> QED BY <4>1, <4>2, <3>2, <1>4 DEF Extends
        <3>3. CASE x = u /\ i = k /\ c.term = w
            <4>1. InOffice(c) /\ c.from = n
                BY <3>3, <2>2, <1>1, <1>5, <1>7 DEF InOffice
            <4>2. j \in 1..Len(s)
                <5>1. Len(s) \in Nat
                    BY <1>6 DEF LogHistory
                <5> QED BY <5>1, <2>6
            <4> QED BY <4>1, <4>2, <3>3, <2>5, <1>4
        <3> QED BY <3>1, <3>2, <3>3, <2>2, <2>6, <1>4, <1>13
    <2>7. LeadersLog(A2, K2, c, s)'
        <3>1. InOffice(c)' => InOffice(c)
            BY <1>5 DEF InOffice
        <3> QED BY <3>1, <2>1, <2>3, <2>4, <2>5, <2>6 DEF LeadersLog
    <2> QED BY <2>7
<1>19. ASSUME NEW c \in calls, c.kind = "appended" PROVE Acknowledges(K2, c)'
    <2>1. Acknowledges(K, c) /\ c.from \in Nodes /\ c.upTo \in Nat
        BY <1>19, CallKinds DEF CommitRecords, Types, AppendedCalls
    <2>2. SUFFICES ASSUME InOffice(c), c.ok
                   PROVE  /\ c.upTo <= Len(log'[c.from])
                          /\ \A i \in 1..c.upTo :
                                Has(log'[c.from], i, c.term) => <<c.to, c.term, i>> \in K2
        BY <1>5 DEF Acknowledges, InOffice
    <2>3. c.upTo <= Len(log[c.from])
        BY <2>1, <2>2 DEF Acknowledges
    <2>4. ASSUME NEW i \in 1..c.upTo, Has(log'[c.from], i, c.term)
          PROVE  <<c.to, c.term, i>> \in K
        <3>1. i \in 1..Len(log[c.from])
            BY <2>1, <2>3, <1>14
        <3>2. Has(log[c.from], i, c.term)
            BY <3>1, <2>1, <2>4, <1>14 DEF Has
        <3> QED BY <3>2, <2>1, <2>2, <2>4 DEF Acknowledges
    <2> QED BY <2>1, <2>3, <2>4, <1>14
<1>20. ASSUME NEW c \in calls, c.kind = "vote" PROVE AsksForVote(L, c)'
    <2>1. AsksForVote(L, c) /\ c.from \in Nodes
        BY <1>20, CallKinds DEF CommitRecords, Types
    <2>2. c.term = currentTerm[c.from] /\ Unled(L, c.term) => c.from # n
        BY <1>1, <1>7 DEF Unled
    <2>3. c.from # n => log'[c.from] = log[c.from]
        BY <2>1, <1>4
    <2> QED BY <2>1, <2>2, <2>3, <1>5 DEF AsksForVote
<1>21. ASSUME NEW q \in Nodes, NEW m \in Nodes, NEW v \in Nat, <<q, m, v>> \in V
       PROVE  VoteFor(L, K2, q, m, v)'
    <2>1. VoteFor(L, K, q, m, v)
        BY <1>21 DEF CommitRecords
    <2>2. SUFFICES ASSUME v = currentTerm[m], Unled(L, v), NEW t \in Nat, NEW i \in Nat,
                          t < v, <<q, t, i>> \in K2, Choosable(K, i, t)
                   PROVE  Has(log'[m], i, t)
        BY <2>1, <1>5, <1>8 DEF VoteFor
    <2>3. <<q, t, i>> \in K
        <3> SUFFICES ASSUME q = n, t = w PROVE FALSE
            BY <2>2, <1>1
        <3>1. v <= w
            BY <1>1, <1>6, <1>21 DEF VotesGiven
        <3> QED BY <3>1, <2>2
    <2> QED BY <2>1, <2>2, <2>3, <1>14 DEF VoteFor
<1> QED BY <1>5, <1>12, <1>16, <1>17, <1>18, <1>19, <1>20, <1>21 DEF CommitRecords

\* A call the follower accepts, and what becomes of its log, its commit index and
\* the answer.
Accepts(c) ==
    c.term >= currentTerm[c.to] /\ Consistent(log[c.to], c.prev, c.prevTerm)

LEMMA AppendEffects ==
    ASSUME Types, NEW c \in calls, HandleAppendEntries(c)
    PROVE  /\ log'[c.to] = IF Accepts(c) THEN Merged(log[c.to], c.prev, c.entries)
                           ELSE log[c.to]
           /\ \A n \in Nodes : n # c.to => UNCHANGED <<log[n], commitIndex[n]>>
           /\ \/ UNCHANGED commitIndex[c.to]
              \/ Accepts(c) /\ commitIndex'[c.to] = Min({c.commit, Len(log'[c.to])})
           /\ \A d \in calls' : d \in calls \/
                 /\ d.kind = "appended" /\ d.from = c.from /\ d.to = c.to /\ d.term = c.term
                 /\ d.ok => Accepts(c) /\ d.upTo = c.prev + Len(c.entries)
           /\ UNCHANGED matchIndex
<1> DEFINE n == c.to
           ok == ~(c.term < currentTerm[n]) /\ Consistent(log[n], c.prev, c.prevTerm)
           l == IF ok THEN Merged(log[n], c.prev, c.entries) ELSE log[n]
           answer == [kind |-> "appended", from |-> c.from, to |-> n, term |-> c.term,
                      by |-> c.by, ok |-> ok, t |-> currentTerm'[n],
                      upTo |-> IF ok THEN c.prev + Len(c.entries) ELSE 0]
<1>1. c \in AppendCalls /\ n \in Nodes /\ c.term \in Nat /\ currentTerm[n] \in Nat
    BY CallKinds DEF HandleAppendEntries, AppendCalls, Types, NodeTypes
<1>2. /\ log' = [log EXCEPT ![n] = l]
      /\ commitIndex' = [commitIndex EXCEPT ![n] =
            IF ok /\ c.commit > @ THEN Min({c.commit, Len(l)}) ELSE @]
      /\ calls' = (calls \ {c}) \cup {answer}
      /\ UNCHANGED matchIndex
    BY DEF HandleAppendEntries, index
<1>3. ok <=> Accepts(c)
    BY <1>1 DEF Accepts
<1>4. /\ answer.kind = "appended" /\ answer.from = c.from /\ answer.to = n
      /\ answer.term = c.term /\ answer.ok = ok
      /\ ok => answer.upTo = c.prev + Len(c.entries)
    OBVIOUS
<1>5. l = IF ok THEN Merged(log[n], c.prev, c.entries) ELSE log[n]
    OBVIOUS
<1> HIDE DEF ok, l, answer
<1>6. log'[n] = l /\ \A m \in Nodes : m # n => UNCHANGED <<log[m], commitIndex[m]>>
    BY <1>1, <1>2 DEF Types, LogTypes
<1>7. \/ UNCHANGED commitIndex[n]
      \/ ok /\ commitIndex'[n] = Min({c.commit, Len(l)})
    BY <1>1, <1>2 DEF Types, LogTypes
<1>8. \A d \in calls' : d \in calls \/ d = answer
    BY <1>2
<1> QED BY <1>2, <1>3, <1>4, <1>5, <1>6, <1>7, <1>8

\* An accepted call leaves the follower with the log it carries at the start of
\* its own, and takes no choosable entry away.
LEMMA AcceptedLog ==
    ASSUME Types, NEW L, NEW A, NEW K, LogHistory(L, A), LogOrder(A),
           NEW c \in calls, HandleAppendEntries(c), Accepts(c),
           NEW s \in A, LeadersLog(A, K, c, s)
    PROVE  /\ log'[c.to] = log[c.to] \/ log'[c.to] = s
           /\ Len(s) <= Len(log'[c.to]) /\ \A j \in 1..Len(s) : log'[c.to][j] = s[j]
           /\ \A t, i \in Nat : Has(log[c.to], i, t) /\ Choosable(K, i, t) =>
                 Has(log'[c.to], i, t)
<1>1. c \in AppendCalls /\ c.to \in Nodes /\ c.term \in Nat /\ currentTerm[c.to] \in Nat
    BY CallKinds DEF HandleAppendEntries, AppendCalls, Types, NodeTypes
<1>2. PICK l \in Seq(Entries) : l = log[c.to] /\ l \in A /\ Len(l) \in Nat
    BY <1>1, LogType DEF LogHistory
<1>3. /\ s \in Seq(Entries) /\ Len(s) \in Nat /\ Match(l, s) /\ Match(s, l)
      /\ Carries(c, s) /\ Consistent(l, c.prev, c.prevTerm)
    BY <1>2 DEF LogHistory, LeadersLog, Accepts
<1>4. \/ /\ Merged(l, c.prev, c.entries) = l
         /\ Len(s) <= Len(l) /\ \A j \in 1..Len(s) : l[j] = s[j]
      \/ /\ Merged(l, c.prev, c.entries) = s
         /\ \E j \in 1..Len(s) : j > Len(l) \/ l[j].term # s[j].term
    BY <1>1, <1>2, <1>3, MergedIsKnown
<1>5. log'[c.to] = Merged(l, c.prev, c.entries)
    BY <1>2, AppendEffects
<1>6. CASE /\ Merged(l, c.prev, c.entries) = l
           /\ Len(s) <= Len(l) /\ \A j \in 1..Len(s) : l[j] = s[j]
    BY <1>2, <1>5, <1>6
<1>7. CASE /\ Merged(l, c.prev, c.entries) = s
           /\ \E j \in 1..Len(s) : j > Len(l) \/ l[j].term # s[j].term
    <2>1. ASSUME NEW t \in Nat, NEW i \in Nat, Has(l, i, t), Choosable(K, i, t)
          PROVE  Has(s, i, t)
        <3>1. Written(A, i, t) /\ t <= c.term
            <4>1. t <= currentTerm[c.to]
                BY <2>1, <1>1, <1>2 DEF Has, LogOrder
            <4> QED BY <4>1, <2>1, <1>1, <1>2 DEF Written, Accepts
        <3>2. CASE t < c.term
            BY <3>1, <3>2, <2>1 DEF LeadersLog, Complete
        <3>3. CASE t = c.term
            <4>1. \A j \in 1..i : j <= Len(s) => l[j] = s[j]
                BY <3>3, <2>1, <1>2 DEF LeadersLog
            <4>2. i \in 1..Len(l)
                BY <2>1 DEF Has
            <4>3. i <= Len(s)
                <5> SUFFICES ASSUME i > Len(s) PROVE FALSE
                    BY <1>3
                <5>1. PICK j \in 1..Len(s) : j > Len(l) \/ l[j].term # s[j].term
                    BY <1>7
                <5>2. j \in 1..i /\ j <= Len(s) /\ ~(j > Len(l))
                    BY <5>1, <4>2, <1>2, <1>3
                <5> QED BY <5>1, <5>2, <4>1
            <4>4. s[i] = l[i] /\ i \in 1..Len(s)
                BY <4>1, <4>2, <4>3, <1>2, <1>3
            <4> QED BY <4>4, <2>1 DEF Has
        <3> QED BY <3>1, <3>2, <3>3, <1>1
    <2> QED BY <2>1, <1>2, <1>3, <1>5, <1>7
<1> QED BY <1>4, <1>6, <1>7

\* A follower has the entries of the call's term in that term.
LEMMA AppendCommits ==
    ASSUME Types, Types', NEW V, NEW L, NEW A, NEW K, NEW K2, LogHistory(L, A), VotesGiven(V),
           CommitRecords(V, L, A, K), NEW c \in calls, HandleAppendEntries(c),
           <<c.from, c.term>> \in L,
           K2 = K \cup {<<c.to, c.term, i>> : i \in {j \in Nat :
                   c.term >= currentTerm[c.to] /\ Has(log'[c.to], j, c.term)}}
    PROVE  CommitRecords(V, L, A, K2)'
<1>1. /\ AppendStep(c) /\ c \in AppendCalls /\ c.kind = "append"
      /\ c.from \in Nodes /\ c.to # c.from
    BY AppendStepTypes, CallKinds DEF HandleAppendEntries, Types
<1>2. PICK q \in Nodes : q = c.to /\ q # c.from
    BY <1>1 DEF AppendCalls
<1>3. PICK w \in Nat : w = c.term
    BY <1>1 DEF AppendCalls
<1>4. PICK s \in A : LeadersLog(A, K, c, s)
    BY <1>1 DEF CommitRecords
<1>5. \A n \in Nodes : currentTerm[n] \in Nat /\ currentTerm'[n] \in Nat
    BY DEF Types, NodeTypes
<1>6. /\ \A n \in Nodes : n # q =>
            UNCHANGED <<state[n], currentTerm[n], log[n], commitIndex[n]>>
      /\ UNCHANGED matchIndex
    BY <1>2, AppendEffects, <1>1 DEF AppendStep
<1>7. EntriesHad(A, K) /\ LogOrder(A) /\ LogsComplete(A, K)
    BY DEF CommitRecords
<1>8. /\ log'[q] = log[q] \/ log'[q] = s
      /\ Accepts(c) => Len(s) <= Len(log'[q]) /\ \A j \in 1..Len(s) : log'[q][j] = s[j]
      /\ \A t, i \in Nat : Has(log[q], i, t) /\ Choosable(K, i, t) => Has(log'[q], i, t)
    <2>1. CASE Accepts(c)
        <3>1. /\ log'[c.to] = log[c.to] \/ log'[c.to] = s
              /\ Len(s) <= Len(log'[c.to]) /\ \A j \in 1..Len(s) : log'[c.to][j] = s[j]
              /\ \A t, i \in Nat : Has(log[c.to], i, t) /\ Choosable(K, i, t) =>
                    Has(log'[c.to], i, t)
            BY <2>1, <1>4, <1>7, AcceptedLog
        <3> QED BY <3>1, <1>2
    <2>2. CASE ~Accepts(c)
        BY <2>2, <1>2, AppendEffects
    <2> QED BY <2>1, <2>2
<1>9. CASE w < currentTerm[q]
    <2>1. ~Accepts(c) /\ UNCHANGED node
        BY <1>1, <1>2, <1>3, <1>5, <1>9 DEF Accepts, AppendStep
    <2>2. UNCHANGED log
        <3>1. log'[q] = log[q] /\ DOMAIN log' = DOMAIN log
            BY <2>1, <1>2, AppendEffects DEF Types, LogTypes
        <3> QED BY <3>1, <1>6 DEF Types, LogTypes
    <2>3. \A n \in Nodes : UNCHANGED commitIndex[n]
        BY <2>1, <1>2, <1>6, AppendEffects
    <2>4. ASSUME NEW d \in calls', d \notin calls PROVE CallKept(L, A, K, d)'
        <3>1. d.kind = "appended" /\ ~d.ok
            BY <2>1, <2>4, AppendEffects
        <3> QED BY <3>1 DEF CallKept, Acknowledges
    <2>5. \A n \in Nodes : Stays(n)
        BY <2>1, <2>2 DEF Stays, node
    <2>6. K2 = K
        BY <1>2, <1>3, <1>5, <1>9
    <2> QED BY <2>2, <2>3, <2>4, <2>5, <2>6, <1>6, QuietCommits
<1>10. CASE w >= currentTerm[q]
    <2>1. currentTerm'[q] = w /\ state'[q] = "follower"
        BY <1>1, <1>2, <1>3, <1>5, <1>10 DEF AppendStep
    <2>2. /\ K \subseteq K2
          /\ \A p \in Nodes : \A t, i \in Nat : <<p, t, i>> \in K2 =>
                <<p, t, i>> \in K \/ (p = q /\ t = w /\ Has(log'[q], i, w))
          /\ \A i \in Nat : Has(log'[q], i, w) => <<q, w, i>> \in K2
        BY <1>2, <1>3, <1>10
    <2>3. TermsGrow
        BY <2>1, <1>5, <1>6, <1>10 DEF TermsGrow
    <2>4. Narrows(K, K2)
        <3>1. ASSUME NEW t \in Nat, NEW i \in Nat, NEW p \in Nodes, <<p, t, i>> \in K2
              PROVE  <<p, t, i>> \in K \/ currentTerm[p] <= t
            BY <3>1, <2>2, <1>5, <1>10
        <3> QED BY <3>1, <2>2, <2>3, ChoosableBefore DEF Narrows
    <2>5. log'[q] \in A /\ log[q] \in A
        BY <1>8 DEF LogHistory
    <2>6. \A t, i \in Nat : Has(log[q], i, t) /\ Choosable(K, i, t) => Has(log'[q], i, t)
        BY <1>8
    <2>7. EntriesHad(A, K2)'
        <3>1. ASSUME NEW p \in Nodes, NEW t \in Nat, NEW i \in Nat, <<p, t, i>> \in K2
              PROVE  /\ t <= currentTerm'[p] /\ Written(A, i, t)
                     /\ Choosable(K2, i, t)' => Has(log'[p], i, t)
            <4>1. CASE <<p, t, i>> \in K
                <5>1. /\ t <= currentTerm[p] /\ Written(A, i, t)
                      /\ Choosable(K2, i, t)' => Choosable(K, i, t) /\ Has(log[p], i, t)
                    BY <4>1, <2>4, <1>7 DEF EntriesHad, Narrows
                <5>2. t <= currentTerm'[p]
                    BY <5>1, <2>3, <1>5 DEF TermsGrow
                <5> QED BY <5>1, <5>2, <2>6, <1>6
            <4>2. CASE p = q /\ t = w /\ Has(log'[q], i, w)
                BY <4>2, <2>1, <2>5 DEF Written
            <4> QED BY <4>1, <4>2, <3>1, <2>2
        <3>2. ASSUME NEW p \in Nodes, NEW i \in Nat, Has(log'[p], i, currentTerm'[p])
              PROVE  <<p, currentTerm'[p], i>> \in K2
            <4>1. CASE p = q
                BY <4>1, <3>2, <2>1, <2>2
            <4>2. CASE p # q
                <5>1. <<p, currentTerm[p], i>> \in K
                    BY <4>2, <3>2, <1>6, <1>7 DEF EntriesHad
                <5> QED BY <5>1, <4>2, <2>2, <1>6
            <4> QED BY <4>1, <4>2
        <3> QED BY <3>1, <3>2 DEF EntriesHad
    <2>8. LogOrder(A)' /\ LogsComplete(A, K2)'
        <3>1. ASSUME NEW n \in Nodes, NEW i \in 1..Len(log'[n])
              PROVE  log'[n][i].term <= currentTerm'[n]
            <4>1. CASE n # q
                BY <4>1, <1>6, <1>7 DEF LogOrder
            <4>2. CASE n = q /\ log'[q] = log[q]
                <5>1. log[q][i].term <= currentTerm[q] /\ log[q][i].term \in Nat
                    BY <4>2, <1>7, LogType, EntryTerm DEF LogOrder
                <5> QED BY <5>1, <4>2, <2>1, <1>5, <1>10
            <4>3. CASE n = q /\ log'[q] = s
                BY <4>3, <2>1, <1>3, <1>4 DEF LeadersLog
            <4>4. log'[q] = log[q] \/ log'[q] = s
                BY <1>8
            <4> QED BY <4>1, <4>2, <4>3, <4>4
        <3>2. LogOrder(A)'
            BY <3>1, <1>7 DEF LogOrder
        <3> QED BY <3>2, <2>4, <1>7 DEF LogsComplete, Narrows
    <2>9. ASSUME NEW n \in Nodes, state'[n] = "leader"
          PROVE  LeaderLog(A, K2, n)' /\ LeaderMatch(K2, n)'
        <3>1. n # q /\ state[n] = "leader" /\ UNCHANGED <<log[n], currentTerm[n]>>
            BY <2>1, <2>9, <1>6
        <3>2. LeaderLog(A, K, n) /\ LeaderMatch(K, n)
            BY <3>1 DEF CommitRecords
        <3>3. LeaderLog(A, K2, n)'
            BY <3>1, <3>2, <2>4, SameLeader
        <3>4. LeaderMatch(K2, n)'
            BY <3>1, <3>2, <2>2, <1>6 DEF LeaderMatch
        <3> QED BY <3>3, <3>4
    <2>10. ASSUME NEW n \in Nodes PROVE Committed(K2, log'[n], commitIndex'[n])
        <3>1. Committed(K, log[n], commitIndex[n])
            BY DEF CommitRecords
        <3>2. CASE n # q
            BY <3>1, <3>2, <2>2, <1>6, StillCommitted
        <3>3. CASE n = q /\ UNCHANGED commitIndex[q]
            <4>1. Committed(K, log'[q], commitIndex[q])
                BY <3>1, <3>3, <2>6, ChosenIsChoosable DEF Committed
            <4> QED BY <4>1, <3>3, <2>2, StillCommitted
        <3>4. CASE n = q /\ Accepts(c) /\ commitIndex'[q] = Min({c.commit, Len(log'[q])})
            <4>1. /\ c.commit \in Nat /\ Len(log'[q]) \in Nat /\ Len(s) \in Nat
                  /\ Len(s) <= Len(log'[q]) /\ \A j \in 1..Len(s) : log'[q][j] = s[j]
                <5>1. c.commit \in Nat /\ Len(log'[q]) \in Nat /\ Len(s) \in Nat
                    BY <2>5, <1>1 DEF LogHistory, AppendCalls
                <5> QED BY <5>1, <3>4, <1>8
            <4>2. commitIndex'[q] <= c.commit /\ commitIndex'[q] \in Nat
                <5>1. Min({c.commit, Len(log'[q])}) =
                        IF c.commit <= Len(log'[q]) THEN c.commit ELSE Len(log'[q])
                    BY <4>1, MinOfTwo
                <5> QED BY <5>1, <4>1, <3>4
            <4>3. Committed(K, s, c.commit)
                BY <1>4 DEF LeadersLog
            <4>4. CASE c.commit = 0
                BY <4>2, <4>4, <3>4 DEF Committed
            <4>5. CASE c.commit # 0
                <5>1. PICK i \in Nat, t \in Nat : c.commit <= i /\ Has(s, i, t) /\ Chosen(K, i, t)
                    BY <4>3, <4>5 DEF Committed
                <5>2. Has(log'[q], i, t) /\ commitIndex'[q] <= i
                    BY <5>1, <4>1, <4>2 DEF Has
                <5>3. Committed(K, log'[q], commitIndex'[q])
                    BY <5>1, <5>2 DEF Committed
                <5> QED BY <5>3, <3>4, <2>2, StillCommitted
            <4> QED BY <4>4, <4>5
        <3> QED BY <3>2, <3>3, <3>4, <1>2, AppendEffects
    <2>11. \A d : d.from \in Nodes /\ InOffice(d)' =>
             d.from # q /\ InOffice(d) /\ UNCHANGED log[d.from]
        BY <2>1, <1>6 DEF InOffice
    <2>12. ~Unled(L, w)
        BY <1>1, <1>3 DEF Unled
    <2>13. ASSUME NEW d \in calls', d \in calls PROVE CallKept(L, A, K2, d)'
        <3>1. d.from \in Nodes /\ (d.kind = "vote" => d.term \in Nat)
            BY <2>13, CallKinds DEF Types, VoteCalls
        <3>2. InOffice(d)' => InOffice(d) /\ UNCHANGED log[d.from]
            BY <3>1, <2>11
        <3>3. ASSUME d.kind = "append" PROVE (\E u \in A : LeadersLog(A, K2, d, u))'
            <4>1. PICK u \in A : LeadersLog(A, K, d, u)
                BY <3>3, <2>13 DEF CommitRecords
            <4>2. LeadersLog(A, K2, d, u)'
                BY <4>1, <3>2, <2>4, SameAppend
            <4> QED BY <4>2
        <3>4. ASSUME d.kind = "appended" PROVE Acknowledges(K2, d)'
            <4>1. Acknowledges(K, d)
                BY <3>4, <2>13 DEF CommitRecords
            <4> QED BY <4>1, <3>2, <2>2, SameAnswer
        <3>5. ASSUME d.kind = "vote" PROVE AsksForVote(L, d)'
            <4>1. AsksForVote(L, d)
                BY <3>5, <2>13 DEF CommitRecords
            <4>2. CASE d.from # q
                BY <4>1, <4>2, <3>1, <3>5, <2>3, <1>6, SameAsking
            <4>3. CASE d.from = q
                <5>1. d.term <= currentTerm'[q]
                    BY <4>1, <4>3, <3>1, <3>5, <2>1, <1>5, <1>10 DEF AsksForVote
                <5> QED BY <5>1, <4>3, <2>1, <2>12 DEF AsksForVote
            <4> QED BY <4>2, <4>3
        <3> QED BY <3>3, <3>4, <3>5 DEF CallKept
    <2>14. ASSUME NEW d \in calls', d \notin calls PROVE CallKept(L, A, K2, d)'
        <3>1. /\ d.kind = "appended" /\ d.from = c.from /\ d.to = q /\ d.term = w
              /\ d.ok => Accepts(c) /\ d.upTo = c.prev + Len(c.entries)
            BY <2>14, <1>2, <1>3, AppendEffects
        <3>2. ASSUME InOffice(d)', d.ok
              PROVE  /\ d.upTo <= Len(log'[c.from])
                     /\ \A i \in 1..d.upTo :
                           Has(log'[c.from], i, w) => <<q, w, i>> \in K2
            <4>1. InOffice(c) /\ UNCHANGED log[c.from]
                BY <3>1, <3>2, <2>11, <1>1, <1>3 DEF InOffice
            <4>2. /\ d.upTo = Len(s) /\ Len(s) <= Len(log[c.from])
                  /\ \A j \in 1..Len(s) : s[j] = log[c.from][j]
                BY <4>1, <3>1, <3>2, <1>4 DEF LeadersLog, Carries
            <4>3. /\ Len(s) <= Len(log'[q]) /\ Len(s) \in Nat /\ Len(log'[q]) \in Nat
                  /\ \A j \in 1..Len(s) : log'[q][j] = s[j]
                <5>1. Len(s) \in Nat /\ Len(log'[q]) \in Nat
                    BY <2>5 DEF LogHistory
                <5> QED BY <5>1, <3>1, <3>2, <1>8
            <4>4. ASSUME NEW i \in 1..d.upTo, Has(log'[c.from], i, w) PROVE <<q, w, i>> \in K2
                <5>1. i \in 1..Len(s) /\ i \in 1..Len(log'[q]) /\ i \in Nat
                    BY <4>2, <4>3
                <5>2. Has(log'[q], i, w)
                    BY <5>1, <4>1, <4>2, <4>3, <4>4 DEF Has
                <5> QED BY <5>1, <5>2, <2>2
            <4> QED BY <4>1, <4>2, <4>4
        <3>3. Acknowledges(K2, d)'
            BY <3>1, <3>2 DEF Acknowledges
        <3> QED BY <3>1, <3>3 DEF CallKept
    <2>15. ASSUME NEW p \in Nodes, NEW n \in Nodes, NEW v \in Nat, <<p, n, v>> \in V
           PROVE  VoteFor(L, K2, p, n, v)'
        <3>1. VoteFor(L, K, p, n, v)
            BY <2>15 DEF CommitRecords
        <3>2. CASE n # q
            <4>1. ASSUME NEW t \in Nat, NEW i \in Nat, <<p, t, i>> \in K2
                  PROVE  <<p, t, i>> \in K \/ v <= t
                <5>1. p = q => v <= w
                    <6>1. v <= currentTerm[p]
                        BY <2>15 DEF VotesGiven
                    <6> QED BY <6>1, <1>5, <1>10
                <5> QED BY <5>1, <4>1, <2>2
            <4> QED BY <4>1, <3>1, <3>2, <2>3, <2>4, <1>6, SameVote
        <3>3. CASE n = q
            <4>1. v <= currentTerm'[q]
                BY <3>1, <3>3, <2>1, <1>5, <1>10 DEF VoteFor
            <4> QED BY <4>1, <3>3, <2>1, <2>12 DEF VoteFor
        <3> QED BY <3>2, <3>3
    <2>16. \A d \in calls' : CallKept(L, A, K2, d)'
        BY <2>13, <2>14
    <2> QED BY <2>7, <2>8, <2>9, <2>10, <2>15, <2>16 DEF CommitRecords, CallKept
<1> QED BY <1>5, <1>9, <1>10

-----------------------------------------------------------------------------
(* The invariant, and what it says                                         *)

LEMMA InitCommits == Init => CommitRecords({}, {}, {<<>>}, {})
<1> SUFFICES ASSUME Init PROVE CommitRecords({}, {}, {<<>>}, {})
    OBVIOUS
<1>1. /\ calls = {} /\ \A n \in Nodes : log[n] = <<>> /\ commitIndex[n] = 0
      /\ \A n \in Nodes : state[n] # "leader"
    BY DEF Init
<1>2. Len(<<>>) = 0 /\ \A i, t : ~Has(<<>>, i, t)
    BY DEF Has
<1>3. EntriesHad({<<>>}, {})
    BY <1>1, <1>2 DEF EntriesHad
<1>4. LogOrder({<<>>}) /\ LogsComplete({<<>>}, {})
    BY <1>1, <1>2 DEF LogOrder, LogsComplete
<1> QED BY <1>1, <1>3, <1>4 DEF CommitRecords, Committed

\* The code never takes a slip back.
LEMMA SlipsStay == Next => slips \subseteq slips'
<1> USE DEF Dispatch, FollowerTimeout, RunCandidate, CandidateWaitEnds, LeaderTick, Propose,
            ProposeReplicates, HandleRequestVote, HandleAppendEntries, LoseAppend,
            VoteGranted, VoteRefused, Appended
<1> QED BY DEF Next

LEMMA UnchangedInv == RaftInv /\ UNCHANGED vars => RaftInv'
<1> SUFFICES ASSUME RaftInv, UNCHANGED vars PROVE RaftInv'
    OBVIOUS
<1> USE DEF vars, node, logs, index
<1>1. PICK E, H, V, L, A, K : AllRecords(E, H, V, L, A, K)
    BY DEF RaftInv
<1>2. NodeTypes' /\ LogTypes' /\ IndexTypes' /\ CallTypes' /\ Leading'
    BY DEF RaftInv, Types, NodeTypes, LogTypes, IndexTypes, CallTypes, Leading
<1>3. Types /\ Types'
    BY <1>2 DEF RaftInv, Types
<1>4. \A n \in Nodes : Stays(n)
    BY DEF Stays
<1>5. Records(E, H, V, L, A)'
    BY <1>1, <1>3, <1>4, KeepRecords DEF AllRecords
<1>6. ASSUME slips' = {} PROVE CommitRecords(V, L, A, K)'
    <2>1. CommitRecords(V, L, A, K) /\ UNCHANGED <<log, matchIndex, commitIndex, calls>>
        BY <1>1, <1>6 DEF AllRecords
    <2> QED BY <2>1, <1>3, <1>4, QuietCommits
<1>7. AllRecords(E, H, V, L, A, K)'
    BY <1>5, <1>6 DEF AllRecords
<1>8. (\E E2, H2, V2, L2, A2, K2 : AllRecords(E2, H2, V2, L2, A2, K2))'
    BY <1>7, Zenon
<1> QED BY <1>3, <1>8 DEF RaftInv

LEMMA NextRaftInv == RaftInv /\ [Next]_vars => RaftInv'
<1> SUFFICES ASSUME RaftInv, Next PROVE RaftInv'
    BY UnchangedInv
<1>1. Types
    BY DEF RaftInv
<1>2. PICK E, H, V, L, A, K : AllRecords(E, H, V, L, A, K)
    BY DEF RaftInv
<1>3. Records(E, H, V, L, A)
    BY <1>2 DEF AllRecords
<1>4. ASSUME slips' = {}
      PROVE  /\ slips = {} /\ VotesGiven(V) /\ Led(E, H, L) /\ LogHistory(L, A)
             /\ CommitRecords(V, L, A, K)
    <2>1. slips = {}
        BY <1>4, SlipsStay
    <2> QED BY <2>1, <1>2 DEF AllRecords, Records, NoSlip
<1>5. ASSUME NEW E2, NEW H2, NEW V2, NEW L2, NEW A2, NEW K2, Types',
             Records(E2, H2, V2, L2, A2)', slips' = {} => CommitRecords(V2, L2, A2, K2)'
      PROVE  RaftInv'
    <2>1. AllRecords(E2, H2, V2, L2, A2, K2)'
        BY <1>5 DEF AllRecords
    <2>2. (\E E3, H3, V3, L3, A3, K3 : AllRecords(E3, H3, V3, L3, A3, K3))'
        BY <2>1, Zenon
    <2> QED BY <2>2, <1>5 DEF RaftInv
<1>6. ASSUME NEW n \in Nodes,
             \/ Dispatch(n) \/ FollowerTimeout(n) \/ CandidateWaitEnds(n)
             \/ LeaderTick(n) \/ ProposeReplicates(n)
      PROVE  RaftInv'
    <2>1. Types' /\ Records(E, H, V, L, A)'
        BY <1>1, <1>3, <1>6, NodeRecords
    <2>2. slips' = {} => CommitRecords(V, L, A, K)'
        BY <1>1, <1>4, <1>6, <2>1, NodeCommits
    <2> QED BY <2>1, <2>2, <1>5
<1>7. ASSUME NEW n \in Nodes, RunCandidate(n) PROVE RaftInv'
    <2>1. Types' /\ \E E2, H2, V2 : /\ V2 = V \cup {<<n, n, currentTerm[n] + 1>>}
                                    /\ Records(E2, H2, V2, L, A)'
        BY <1>1, <1>3, <1>7, CandidateRecords
    <2>2. PICK E2, H2, V2 : /\ V2 = V \cup {<<n, n, currentTerm[n] + 1>>}
                            /\ Records(E2, H2, V2, L, A)'
        BY <2>1
    <2>3. slips' = {} => CommitRecords(V2, L, A, K)'
        BY <1>1, <1>4, <1>7, <2>1, <2>2, CandidateCommits
    <2> QED BY <2>1, <2>2, <2>3, <1>5
<1>8. ASSUME NEW n \in Nodes, Propose(n) PROVE RaftInv'
    <2>1. Types' /\ \E A2 : A2 = A \cup {log'[n]} /\ Records(E, H, V, L, A2)'
        BY <1>1, <1>3, <1>8, ProposedRecords
    <2>2. PICK A2 : A2 = A \cup {log'[n]} /\ Records(E, H, V, L, A2)'
        BY <2>1
    <2>3. PICK K2 : K2 = K \cup {<<n, currentTerm[n], Len(log[n]) + 1>>}
        OBVIOUS
    <2>4. slips' = {} => CommitRecords(V, L, A2, K2)'
        BY <1>1, <1>3, <1>4, <1>8, <2>1, <2>2, <2>3, ProposedCommits
    <2> QED BY <2>1, <2>2, <2>4, <1>5
<1>9. ASSUME NEW c \in calls, HandleRequestVote(c) PROVE RaftInv'
    <2>1. CASE VoteWithheld(c)
        <3>1. Types' /\ Records(E, H, V, L, A)'
            BY <1>1, <1>3, <1>9, <2>1, WithheldRecords
        <3>2. slips' = {} => CommitRecords(V, L, A, K)'
            BY <1>1, <1>4, <1>9, <2>1, <3>1, WithheldCommits
        <3> QED BY <3>1, <3>2, <1>5
    <2>2. CASE VoteGiven(c)
        <3>1. Types' /\ Records(E, H, V \cup {<<c.to, c.from, c.term>>}, L, A)'
            BY <1>1, <1>3, <1>9, <2>2, GivenRecords
        <3>2. slips' = {} => CommitRecords(V \cup {<<c.to, c.from, c.term>>}, L, A, K)'
            BY <1>1, <1>4, <1>9, <2>2, <3>1, GivenCommits
        <3> QED BY <3>1, <3>2, <1>5
    <2> QED BY <1>1, <1>9, <2>1, <2>2, VoteStepTypes DEF VoteStep
<1>10. ASSUME NEW c \in calls, HandleAppendEntries(c) PROVE RaftInv'
    <2>1. Types' /\ Records(E, H, V, L, A)'
        BY <1>1, <1>3, <1>10, AppendRecords
    <2>2. PICK K2 : K2 = K \cup {<<c.to, c.term, i>> : i \in {j \in Nat :
                        c.term >= currentTerm[c.to] /\ Has(log'[c.to], j, c.term)}}
        OBVIOUS
    <2>3. slips' = {} => <<c.from, c.term>> \in L
        BY <1>4, <1>10 DEF HandleAppendEntries, Led, Replicating
    <2>4. slips' = {} => CommitRecords(V, L, A, K2)'
        BY <1>1, <1>4, <1>10, <2>1, <2>2, <2>3, AppendCommits
    <2> QED BY <2>1, <2>4, <1>5
<1>11. ASSUME NEW c \in calls, LoseAppend(c) \/ Appended(c) \/ VoteRefused(c) PROVE RaftInv'
    <2>1. Types' /\ Records(E, H, V, L, A)'
        BY <1>1, <1>3, <1>11, AnswerRecords
    <2>2. slips' = {} => CommitRecords(V, L, A, K)'
        BY <1>1, <1>4, <1>11, <2>1, LostCommits, AnswerCommits, RefusedCommits
    <2> QED BY <2>1, <2>2, <1>5
<1>12. ASSUME NEW c \in calls, VoteGranted(c) PROVE RaftInv'
    <2>1. Types' /\ \E H2, L2 :
            /\ L2 = IF Wins(c) THEN L \cup {<<c.from, c.term>>} ELSE L
            /\ Records(E, H2, V, L2, A)'
        BY <1>1, <1>3, <1>12, CountedRecords
    <2>2. PICK H2, L2 : /\ L2 = IF Wins(c) THEN L \cup {<<c.from, c.term>>} ELSE L
                        /\ Records(E, H2, V, L2, A)'
        BY <2>1
    <2>3. slips' = {} => CommitRecords(V, L2, A, K)'
        BY <1>1, <1>3, <1>4, <1>12, <2>1, <2>2, CountedCommits
    <2> QED BY <2>1, <2>2, <2>3, <1>5
<1> QED BY <1>6, <1>7, <1>8, <1>9, <1>10, <1>11, <1>12 DEF Next

\* raft.go: there are records of elections, votes, leaders, logs and of who has had
\* which entry that explain the state, whatever is lost, late or reordered.
THEOREM RaftInvariant == Spec => []RaftInv
<1>1. Init => RaftInv
    <2> SUFFICES ASSUME Init PROVE RaftInv
        OBVIOUS
    <2>1. Types /\ AllRecords({}, {}, {}, {}, {<<>>}, {})
        BY InitTypes, InitRecords, InitCommits DEF AllRecords
    <2>2. \E E, H, V, L, A, K : AllRecords(E, H, V, L, A, K)
        BY <2>1, Zenon
    <2> QED BY <2>1, <2>2 DEF RaftInv
<1> QED BY <1>1, NextRaftInv, PTL DEF Spec

\* runCandidate counts no more votes than there are nodes, and a leader's
\* nextIndex stays within its log.
THEOREM RaftTypes == Spec => []TypeOK
<1>1. RaftInv => TypeOK
    <2> SUFFICES ASSUME RaftInv PROVE TypeOK
        OBVIOUS
    <2>1. NodeTypes /\ LogTypes /\ IndexTypes /\ Leading
        BY DEF RaftInv, Types
    <2>2. PICK E, H, V, L, A : Records(E, H, V, L, A)
        BY DEF RaftInv, AllRecords
    <2>3. ASSUME NEW n \in Nodes PROVE votes[n] \in Seq(1..Cardinality(Nodes))
        <3>1. votes[n] \in Seq(Nat \ {0})
            BY <2>1 DEF NodeTypes
        <3>2. ASSUME NEW r \in 1..Len(votes[n]) PROVE votes[n][r] \in 1..Cardinality(Nodes)
            <4>1. votes[n][r] = Cardinality(Voters(H, n, r))
                BY <2>2 DEF Records, Counting
            <4>2. /\ Cardinality(Voters(H, n, r)) \in Nat /\ Cardinality(Nodes) \in Nat
                  /\ Cardinality(Voters(H, n, r)) <= Cardinality(Nodes)
                BY VotersFinite
            <4>3. votes[n][r] \in Nat \ {0}
                BY <3>1
            <4> QED BY <4>1, <4>2, <4>3
        <3> QED BY <3>1, <3>2, SmallerSeq
    <2> QED BY <2>1, <2>3 DEF TypeOK, NodeTypes, LogTypes, IndexTypes, Leading
<1> QED BY <1>1, RaftInvariant, PTL

\* HandleRequestVote and runCandidate: no two leaders of one term.
THEOREM RaftOneLeader == Spec => []OneLeaderPerTerm
<1>1. RaftInv => OneLeaderPerTerm
    <2> SUFFICES ASSUME RaftInv, slips \cap {"forgot", "usurped"} = {},
                        NEW m \in Nodes, NEW n \in Nodes, state[m] = "leader",
                        state[n] = "leader", currentTerm[m] = currentTerm[n]
                 PROVE  m = n
        BY DEF OneLeaderPerTerm
    <2>1. PICK E, H, V, L, A : Records(E, H, V, L, A)
        BY DEF RaftInv, AllRecords
    <2>2. Ballots(E, H, V) /\ Led(E, H, L)
        BY <2>1 DEF Records, NoSlip
    <2>3. PICK t \in Nat : t = currentTerm[m]
        BY DEF RaftInv, Types, NodeTypes
    <2>4. Elected(E, H, m, t) /\ Elected(E, H, n, t)
        BY <2>2, <2>3 DEF Led
    <2> QED BY <2>2, <2>4, OneElected
<1> QED BY <1>1, RaftInvariant, PTL

\* HandleAppendEntries and Propose: logs with the same term at an index are the
\* same up to it.
THEOREM RaftLogMatching == Spec => []LogMatching
<1>1. RaftInv => LogMatching
    <2> SUFFICES ASSUME RaftInv, slips \cap {"forgot", "usurped"} = {},
                        NEW m \in Nodes, NEW n \in Nodes,
                        NEW i \in 1..Min({Len(log[m]), Len(log[n])}),
                        log[m][i].term = log[n][i].term
                 PROVE  SubSeq(log[m], 1, i) = SubSeq(log[n], 1, i)
        BY DEF LogMatching
    <2>1. PICK E, H, V, L, A : Records(E, H, V, L, A)
        BY DEF RaftInv, AllRecords
    <2>2. LogHistory(L, A)
        BY <2>1 DEF Records, NoSlip
    <2>3. PICK s \in Seq(Entries) : s = log[m] /\ Len(s) \in Nat
        BY DEF RaftInv, Types, LogTypes
    <2>4. PICK u \in Seq(Entries) : u = log[n] /\ Len(u) \in Nat
        BY DEF RaftInv, Types, LogTypes
    <2>5. Min({Len(s), Len(u)}) = IF Len(s) <= Len(u) THEN Len(s) ELSE Len(u)
        BY <2>3, <2>4, MinOfTwo
    <2>6. i \in 1..Len(s) /\ i \in 1..Len(u)
        BY <2>3, <2>4, <2>5
    <2>7. \A j \in 1..i : s[j] = u[j]
        BY <2>2, <2>3, <2>4, <2>6 DEF LogHistory, Match
    <2>8. SubSeq(s, 1, i) = SubSeq(u, 1, i)
        BY <2>6, <2>7
    <2> QED BY <2>3, <2>4, <2>8
<1> QED BY <1>1, RaftInvariant, PTL

\* Two logs with chosen entries agree up to the lower of them: an entry that may
\* be chosen is in every log with an entry of a later term.
LEMMA ChosenAgree ==
    ASSUME NEW L, NEW A, NEW K, LogHistory(L, A), LogOrder(A), LogsComplete(A, K),
           NEW s \in A, NEW u \in A, NEW a \in Nat, NEW b \in Nat, NEW t \in Nat, NEW v \in Nat,
           Has(s, a, t), Has(u, b, v), Chosen(K, a, t), t <= v
    PROVE  \A i \in 1..a : i <= b => s[i] = u[i]
<1>1. s \in Seq(Entries) /\ u \in Seq(Entries) /\ Match(s, u) /\ Len(s) \in Nat /\ Len(u) \in Nat
    BY DEF LogHistory
<1>2. Written(A, a, t) /\ Written(A, b, v) /\ Choosable(K, a, t)
    BY ChosenIsChoosable DEF Written
<1>3. CASE Has(u, a, t)
    BY <1>1, <1>3 DEF Has, Match
<1>4. CASE t < v
    <2>1. b \in 1..Len(u) /\ t < u[b].term
        BY <1>4 DEF Has
    <2> QED BY <2>1, <1>2, <1>3 DEF LogsComplete
<1>5. CASE t = v /\ a <= b
    BY <1>2, <1>3, <1>5 DEF LogOrder
<1>6. CASE t = v /\ b < a
    <2>1. Has(s, b, t)
        BY <1>2, <1>6 DEF LogOrder
    <2>2. b \in 1..Len(s) /\ b <= Len(u) /\ s[b].term = u[b].term
        BY <2>1, <1>1, <1>6 DEF Has
    <2> QED BY <2>2, <1>1 DEF Match
<1> QED BY <1>4, <1>5, <1>6

\* advanceCommitLocked and HandleAppendEntries: what is applied at one node is
\* never lost there and never contradicted at another.
THEOREM RaftAppliedAgree == Spec => []AppliedAgree
<1>1. RaftInv => AppliedAgree
    <2> SUFFICES ASSUME RaftInv, slips = {}
                 PROVE  /\ \A n \in Nodes : commitIndex[n] <= Len(log[n])
                        /\ \A m, n \in Nodes :
                              \A i \in 1..Min({commitIndex[m], commitIndex[n]}) :
                                  log[m][i] = log[n][i]
        BY DEF AppliedAgree
    <2>1. PICK E, H, V, L, A, K : Records(E, H, V, L, A) /\ CommitRecords(V, L, A, K)
        BY DEF RaftInv, AllRecords
    <2>2. LogHistory(L, A) /\ LogOrder(A) /\ LogsComplete(A, K)
        BY <2>1 DEF Records, NoSlip, CommitRecords
    <2>3. \A n \in Nodes : /\ log[n] \in A /\ Len(log[n]) \in Nat /\ commitIndex[n] \in Nat
                           /\ Committed(K, log[n], commitIndex[n])
        BY <2>1, <2>2, LogType DEF RaftInv, Types, LogTypes, LogHistory, CommitRecords
    <2>4. ASSUME NEW n \in Nodes PROVE commitIndex[n] <= Len(log[n])
        BY <2>3 DEF Committed, Has
    <2>5. ASSUME NEW m \in Nodes, NEW n \in Nodes,
                 NEW i \in 1..Min({commitIndex[m], commitIndex[n]})
          PROVE  log[m][i] = log[n][i]
        <3>1. Min({commitIndex[m], commitIndex[n]}) =
                IF commitIndex[m] <= commitIndex[n] THEN commitIndex[m] ELSE commitIndex[n]
            BY <2>3, MinOfTwo
        <3>2. /\ i \in Nat /\ 1 <= i /\ i <= commitIndex[m] /\ i <= commitIndex[n]
              /\ commitIndex[m] # 0 /\ commitIndex[n] # 0
            BY <3>1, <2>3
        <3>3. PICK a \in Nat, t \in Nat :
                commitIndex[m] <= a /\ Has(log[m], a, t) /\ Chosen(K, a, t)
            BY <3>2, <2>3 DEF Committed
        <3>4. PICK b \in Nat, v \in Nat :
                commitIndex[n] <= b /\ Has(log[n], b, v) /\ Chosen(K, b, v)
            BY <3>2, <2>3 DEF Committed
        <3>5. i \in 1..a /\ i \in 1..b /\ i <= a /\ i <= b
            BY <3>2, <3>3, <3>4, <2>3
        <3>6. CASE t <= v
            <4>1. \A j \in 1..a : j <= b => log[m][j] = log[n][j]
                BY <3>3, <3>4, <3>6, <2>2, <2>3, ChosenAgree
            <4> QED BY <4>1, <3>5
        <3>7. CASE v <= t
            <4>1. \A j \in 1..b : j <= a => log[n][j] = log[m][j]
                BY <3>3, <3>4, <3>7, <2>2, <2>3, ChosenAgree
            <4> QED BY <4>1, <3>5
        <3> QED BY <3>6, <3>7
    <2> QED BY <2>4, <2>5
<1> QED BY <1>1, RaftInvariant, PTL
=============================================================================
