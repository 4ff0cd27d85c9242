----------------------------- MODULE RaftProofs -----------------------------
(***************************************************************************)
(* Proofs about Raft, for any finite set of nodes and any bounds.          *)
(***************************************************************************)
EXTENDS Raft, NumberProofs, FiniteSetTheorems, SequenceTheorems, TLAPS

\* The part of the state that elections use.
VoteTypes ==
  /\ currentTerm \in [Nodes -> Nat]
  /\ votedFor \in [Nodes -> Nodes \cup {Nil}]
  /\ state \in [Nodes -> {"follower", "candidate", "leader"}]
  /\ votesReceived \in [Nodes -> SUBSET Nodes]

\* A call in progress has peers left to visit, never the caller itself.
OpShape ==
  op = Idle \/ /\ op \in [call : {"elect"}, node : Nodes, todo : Seq(Nodes), term : Nat]
                         \cup [call : {"replicate"}, node : Nodes, todo : Seq(Nodes)]
               /\ op.todo # <<>>
               /\ \A i \in DOMAIN op.todo : op.todo[i] # op.node

\* The one vote request of an election still speaks for its candidate.
RequestIsCurrent ==
  op.call = "elect" /\ state[op.node] = "candidate" => op.term = currentTerm[op.node]

\* Whoever voted for a node that is not a follower has reached its term.
VotersFollow ==
  \A n \in Nodes : state[n] # "follower" =>
    \A v \in votesReceived[n] : currentTerm[v] >= currentTerm[n]

LeadersHaveMajority ==
  \A n \in Nodes : state[n] = "leader" => Cardinality(votesReceived[n]) >= Majority

IInv == VoteTypes /\ OpShape /\ RequestIsCurrent /\ VotersFollow /\ LeadersHaveMajority
-----------------------------------------------------------------------------
\* A list of reachable peers is a sequence of nodes other than the caller.
LEMMA PeersAreOthers ==
  ASSUME NEW n \in Nodes, NEW peers \in Reachable(n)
  PROVE  peers \in Seq(Nodes) /\ \A i \in DOMAIN peers : peers[i] # n
<1>1. PICK up \in SUBSET (Nodes \ {n}) : peers \in [1..Cardinality(up) -> up]
  BY DEF Reachable
<1>2. IsFiniteSet(up)
  BY <1>1, FS_Subset, RaftAssumption DEF Nodes
<1>3. Cardinality(up) \in Nat
  BY <1>2, FS_CardinalityType
<1>4. peers \in [1..Cardinality(up) -> Nodes]
  BY <1>1
<1>5. peers \in Seq(Nodes)
  BY <1>3, <1>4, IsASeq
<1>6. QED
  BY <1>1, <1>5

\* The rest of a call's visits are visits of the same call.
LEMMA RestKeepsShape ==
  ASSUME OpShape, op # Idle
  PROVE  /\ Rest = Idle \/ (/\ Rest.call = op.call /\ Rest.node = op.node
                            /\ op.call = "elect" => Rest.term = op.term)
         /\ OpShape /\ op' = Rest => OpShape'
<1> DEFINE tail == Tail(op.todo)
<1>1. /\ op.todo \in Seq(Nodes) /\ op.todo # <<>>
      /\ \A i \in DOMAIN op.todo : op.todo[i] # op.node
  BY DEF OpShape
<1>2. tail \in Seq(Nodes) /\ \A i \in DOMAIN tail : tail[i] # op.node
  BY <1>1, HeadTailProperties
<1>3. Rest = IF tail = <<>> THEN Idle ELSE [op EXCEPT !.todo = tail]
  BY DEF Rest, Begin
<1>4. CASE op \in [call : {"elect"}, node : Nodes, todo : Seq(Nodes), term : Nat]
  BY <1>2, <1>3, <1>4 DEF OpShape
<1>5. CASE op \in [call : {"replicate"}, node : Nodes, todo : Seq(Nodes)]
  BY <1>2, <1>3, <1>5 DEF OpShape
<1>6. QED
  BY <1>4, <1>5 DEF OpShape

LEMMA InitInvariant == Init => IInv
<1> SUFFICES ASSUME Init PROVE IInv
  OBVIOUS
<1>1. VoteTypes
  BY DEF Init, VoteTypes
<1>2. OpShape /\ RequestIsCurrent
  BY DEF Init, OpShape, RequestIsCurrent, Idle
<1>3. VotersFollow /\ LeadersHaveMajority
  BY DEF Init, VotersFollow, LeadersHaveMajority
<1>4. QED
  BY <1>1, <1>2, <1>3 DEF IInv

LEMMA ElectionStep ==
  ASSUME IInv, NEW c \in Nodes, StartElection(c)
  PROVE  IInv'
<1> USE DEF IInv
<1>1. PICK peers \in Reachable(c) :
        op' = Begin([call |-> "elect", node |-> c, todo |-> peers,
                     term |-> currentTerm[c] + 1])
  BY DEF StartElection
<1>2. VoteTypes'
  BY DEF StartElection, VoteTypes
<1>3. OpShape'
  BY <1>1, PeersAreOthers DEF OpShape, Begin, VoteTypes
<1>4. RequestIsCurrent'
  BY <1>1 DEF RequestIsCurrent, Begin, Idle, StartElection, VoteTypes
<1>5. VotersFollow'
  BY DEF VotersFollow, StartElection, VoteTypes
<1>6. LeadersHaveMajority'
  BY DEF LeadersHaveMajority, StartElection, VoteTypes
<1>7. QED
  BY <1>2, <1>3, <1>4, <1>5, <1>6

LEMMA VoteStep ==
  ASSUME IInv, RequestVote
  PROVE  IInv'
<1> USE DEF IInv
<1> DEFINE c == op.node
           v == Head(op.todo)
           newer == op.term > currentTerm[v]
           vTerm == IF newer THEN op.term ELSE currentTerm[v]
           vVote == IF newer THEN Nil ELSE votedFor[v]
           granted == /\ op.term >= currentTerm[v]
                      /\ vVote \in {Nil, c}
                      /\ UpToDate(log[v], log[c])
           stale == vTerm > currentTerm[c]
           counts == ~stale /\ state[c] = "candidate"
           votes == IF counts /\ granted THEN votesReceived[c] \cup {v}
                                         ELSE votesReceived[c]
           wins == counts /\ Wins(votes, granted)
<1>1. /\ c \in Nodes /\ v \in Nodes /\ c # v /\ op.term \in Nat /\ op # Idle
      /\ state[c] = "candidate" => op.term = currentTerm[c]
  BY HeadTailProperties DEF RequestVote, OpShape, Idle, RequestIsCurrent
<1>2. /\ currentTerm' = [currentTerm EXCEPT ![v] = vTerm,
                                            ![c] = IF stale THEN vTerm ELSE @]
      /\ votedFor' = [votedFor EXCEPT ![v] = IF granted THEN c ELSE vVote,
                                      ![c] = IF stale THEN Nil ELSE @]
      /\ state' = [state EXCEPT ![v] = IF newer THEN "follower" ELSE @,
             ![c] = IF stale THEN "follower" ELSE IF wins THEN "leader" ELSE @]
      /\ votesReceived' = [votesReceived EXCEPT ![c] = votes]
      /\ op' = IF wins THEN Idle ELSE Rest
  BY DEF RequestVote
<1>3. /\ votes \in SUBSET Nodes
      /\ wins => Cardinality(votes) >= Majority /\ ~stale /\ state[c] = "candidate"
  BY <1>1 DEF VoteTypes, Wins
<1>4. vTerm \in Nat /\ vTerm >= currentTerm[v] /\ vVote \in Nodes \cup {Nil}
  BY <1>1 DEF VoteTypes
<1>5. VoteTypes'
  <2> HIDE DEF vTerm, vVote, votes, granted, stale, wins, newer
  <2> QED BY <1>1, <1>2, <1>3, <1>4 DEF VoteTypes
<1>6. OpShape'
  BY <1>1, <1>2, RestKeepsShape DEF OpShape
<1>7. RequestIsCurrent'
  <2>1. SUFFICES ASSUME (op.call = "elect")', (state[op.node] = "candidate")'
                 PROVE  (op.term = currentTerm[op.node])'
    BY DEF RequestIsCurrent
  <2>2. op' = Rest /\ op'.node = c /\ op'.term = op.term
    <3>1. op.call = "elect" /\ Idle.call # "elect"
      BY DEF RequestVote, Idle
    <3>2. op' = Rest /\ Rest # Idle
      <4> HIDE DEF vTerm, vVote, votes, granted, stale, wins, newer
      <4> QED BY <2>1, <3>1, <1>2
    <3>3. QED
      BY <1>1, <3>1, <3>2, RestKeepsShape
  <2>3. ~stale /\ state[c] = "candidate" /\ currentTerm'[c] = currentTerm[c]
    <3> HIDE DEF vTerm, vVote, votes, granted, stale, wins, newer
    <3> QED BY <2>1, <2>2, <1>1, <1>2 DEF VoteTypes
  <2>4. QED
    BY <2>2, <2>3, <1>1
<1>8. \A n \in Nodes : currentTerm'[n] >= currentTerm[n]
  BY <1>1, <1>2, <1>4 DEF VoteTypes
<1>9. VotersFollow'
  <2>1. SUFFICES ASSUME NEW n \in Nodes, state'[n] # "follower",
                        NEW w \in votesReceived'[n]
                 PROVE  currentTerm'[w] >= currentTerm'[n]
    BY DEF VotersFollow
  <2>2. w \in Nodes
    BY <1>5 DEF VoteTypes
  <2>3. state[n] # "follower" /\ currentTerm'[n] = currentTerm[n]
    BY <2>1, <1>1, <1>2 DEF VoteTypes, Wins
  <2>4. CASE w \in votesReceived[n]
    BY <2>2, <2>3, <2>4, <1>5, <1>8 DEF VoteTypes, VotersFollow
  <2>5. CASE w \notin votesReceived[n]
    <3>1. n = c /\ w = v /\ counts /\ granted
      BY <2>1, <2>5, <1>1, <1>2 DEF VoteTypes
    <3>2. op.term = currentTerm[c] /\ currentTerm'[v] = op.term
      BY <3>1, <1>1, <1>2 DEF VoteTypes
    <3>3. QED
      BY <3>1, <3>2, <2>3, <1>1 DEF VoteTypes
  <2>6. QED
    BY <2>4, <2>5
<1>10. LeadersHaveMajority'
  <2> HIDE DEF vTerm, vVote, granted, stale, wins, newer
  <2>1. SUFFICES ASSUME NEW n \in Nodes, state'[n] = "leader"
                 PROVE  Cardinality(votesReceived'[n]) >= Majority
    BY DEF LeadersHaveMajority
  <2>2. CASE n # c
    BY <2>1, <2>2, <1>1, <1>2 DEF VoteTypes, LeadersHaveMajority
  <2>3. CASE n = c /\ wins
    BY <2>3, <1>1, <1>2, <1>3 DEF VoteTypes
  <2>4. CASE n = c /\ ~wins
    BY <2>1, <2>4, <1>1, <1>2 DEF VoteTypes, LeadersHaveMajority
  <2>5. QED
    BY <2>2, <2>3, <2>4
<1>11. QED
  BY <1>5, <1>6, <1>7, <1>9, <1>10

LEMMA ReplicateStep ==
  ASSUME IInv, NEW n \in Nodes, StartReplicate(n)
  PROVE  IInv'
<1> USE DEF IInv
<1>1. PICK peers \in Reachable(n) :
        op' = Begin([call |-> "replicate", node |-> n, todo |-> peers])
  BY DEF StartReplicate
<1>2. VoteTypes' /\ VotersFollow' /\ LeadersHaveMajority'
  BY DEF StartReplicate, VoteTypes, VotersFollow, LeadersHaveMajority
<1>3. OpShape' /\ RequestIsCurrent'
  BY <1>1, PeersAreOthers DEF OpShape, Begin, RequestIsCurrent, Idle
<1>4. QED
  BY <1>2, <1>3

LEMMA AppendStep ==
  ASSUME IInv, AppendEntries
  PROVE  IInv'
<1> USE DEF IInv
<1> DEFINE n == op.node
           f == Head(op.todo)
           current == currentTerm[n] >= currentTerm[f]
           fTerm == IF current THEN currentTerm[n] ELSE currentTerm[f]
           stale == fTerm > currentTerm[n]
<1>1. n \in Nodes /\ f \in Nodes /\ n # f /\ op # Idle /\ op.call = "replicate"
  <2>1. op.call = "replicate" /\ op # Idle
    <3>1. op.call = "replicate"
      BY DEF AppendEntries
    <3>2. QED
      BY <3>1 DEF Idle
  <2>2. /\ n \in Nodes /\ op.todo \in Seq(Nodes) /\ op.todo # <<>>
        /\ \A i \in DOMAIN op.todo : op.todo[i] # n
    BY <2>1 DEF OpShape
  <2>3. f \in Nodes /\ f # n
    BY <2>2, HeadTailProperties
  <2>4. QED
    BY <2>1, <2>2, <2>3
<1>2. /\ currentTerm' = [currentTerm EXCEPT ![f] = fTerm,
                                            ![n] = IF stale THEN fTerm ELSE @]
      /\ votedFor' = [votedFor EXCEPT ![f] = IF current THEN Nil ELSE @,
                                      ![n] = IF stale THEN Nil ELSE @]
      /\ state' = [state EXCEPT ![f] = IF current THEN "follower" ELSE @,
                                ![n] = IF stale THEN "follower" ELSE @]
      /\ votesReceived' = votesReceived
      /\ op' = Rest
  BY DEF AppendEntries, Prepare
<1>3. fTerm \in Nat /\ fTerm >= currentTerm[f]
  BY <1>1 DEF VoteTypes
<1>4. VoteTypes'
  BY <1>1, <1>2, <1>3 DEF VoteTypes
<1>5. OpShape' /\ RequestIsCurrent'
  BY <1>1, <1>2, RestKeepsShape DEF RequestIsCurrent, Idle
<1>6. /\ \A m \in Nodes : currentTerm'[m] >= currentTerm[m]
      /\ \A m \in Nodes : state'[m] # "follower" =>
           state[m] = state'[m] /\ currentTerm'[m] = currentTerm[m]
  BY <1>1, <1>2, <1>3 DEF VoteTypes
<1>7. VotersFollow'
  <2>1. SUFFICES ASSUME NEW m \in Nodes, state'[m] # "follower",
                        NEW w \in votesReceived[m]
                 PROVE  currentTerm'[w] >= currentTerm'[m]
    BY <1>2 DEF VotersFollow
  <2>2. currentTerm[w] >= currentTerm[m] /\ w \in Nodes
    BY <2>1, <1>6 DEF VotersFollow, VoteTypes
  <2>3. QED
    BY <2>1, <2>2, <1>4, <1>6 DEF VoteTypes
<1>8. LeadersHaveMajority'
  BY <1>2, <1>6 DEF LeadersHaveMajority
<1>9. QED
  BY <1>4, <1>5, <1>7, <1>8

\* Elections and replications, interrupted by lost links and newer terms, keep
\* the invariant.
THEOREM Invariance == Spec => []IInv
<1>1. IInv /\ [Next]_vars => IInv'
  <2> SUFFICES ASSUME IInv, [Next]_vars PROVE IInv'
    OBVIOUS
  <2>1. ASSUME NEW n \in Nodes, StartElection(n) PROVE IInv'
    BY <2>1, ElectionStep
  <2>2. ASSUME NEW n \in Nodes, ClientRequest(n) PROVE IInv'
    BY <2>2 DEF ClientRequest, IInv, VoteTypes, OpShape, RequestIsCurrent,
                VotersFollow, LeadersHaveMajority
  <2>3. ASSUME NEW n \in Nodes, StartReplicate(n) PROVE IInv'
    BY <2>3, ReplicateStep
  <2>4. CASE RequestVote
    BY <2>4, VoteStep
  <2>5. CASE AppendEntries
    BY <2>5, AppendStep
  <2>6. CASE UNCHANGED vars
    BY <2>6 DEF vars, IInv, VoteTypes, OpShape, RequestIsCurrent,
                VotersFollow, LeadersHaveMajority
  <2>7. QED
    BY <2>1, <2>2, <2>3, <2>4, <2>5, <2>6 DEF Next
<1>2. QED
  BY InitInvariant, <1>1, PTL DEF Spec

\* In a cluster of any size, whatever links fail and whoever is deposed in the
\* middle of a call, a leader holds the votes of a majority and every voter has
\* reached its term (elect_leader, handle_vote_response).
THEOREM LeaderWasElectedHolds == Spec => []LeaderWasElected
<1>1. IInv => LeaderWasElected
  BY DEF IInv, VotersFollow, LeadersHaveMajority, LeaderWasElected
<1>2. QED
  BY Invariance, <1>1, PTL
-----------------------------------------------------------------------------
(* Logs *)

\* A log up to term t: indices are positions, terms rise.
Shaped(l, t) == /\ l \in Seq(Entries)
                /\ \A i \in 1 .. Len(l) : l[i].index = i /\ l[i].term <= t
                /\ \A i \in 1 .. (Len(l) - 1) : l[i].term <= l[i + 1].term

\* e can follow what d has before it.
Fits(d, e) == /\ e.index <= Len(d) + 1
              /\ e.index > 1 => d[e.index - 1].term <= e.term

LEMMA AddEntryShape ==
  ASSUME NEW t \in Nat, NEW d, Shaped(d, t), NEW e \in Entries, e.term <= t, Fits(d, e)
  PROVE  /\ Shaped(AddEntry(d, e), t) /\ e.index <= Len(AddEntry(d, e))
         /\ AddEntry(d, e)[e.index].term = e.term
<1>1. /\ d \in Seq(Entries) /\ Len(d) \in Nat /\ e.index \in Nat \ {0} /\ e.term \in Nat
      /\ \A i \in 1 .. Len(d) : d[i] \in Entries /\ d[i].term \in Nat
  <2>1. d \in Seq(Entries)
    BY DEF Shaped
  <2>2. Len(d) \in Nat /\ \A i \in 1 .. Len(d) : d[i] \in Entries
    BY <2>1, LenProperties, ElementOfSeq
  <2>3. \A entry \in Entries : entry.index \in Nat \ {0} /\ entry.term \in Nat
    BY RaftAssumption DEF Entries
  <2>4. QED
    BY <2>1, <2>2, <2>3
\* The entry e after the k entries before it.
<1>2. ASSUME NEW k \in 0 .. Len(d), k + 1 = e.index, NEW s \in Seq(Entries), Len(s) = k,
             \A i \in 1 .. k : s[i] = d[i]
      PROVE  /\ Shaped(Append(s, e), t) /\ e.index <= Len(Append(s, e))
             /\ Append(s, e)[e.index].term = e.term
  <2> DEFINE r == Append(s, e)
  <2>1. /\ r \in Seq(Entries) /\ Len(r) = k + 1 /\ r[k + 1] = e
        /\ \A i \in 1 .. k : r[i] = s[i]
    BY <1>2, AppendProperties
  <2> HIDE DEF r
  <2>2. \A i \in 1 .. k : r[i] = d[i]
    BY <1>2, <2>1
  <2>3. \A i \in 1 .. Len(r) : r[i].index = i /\ r[i].term <= t
    <3> TAKE i \in 1 .. Len(r)
    <3>1. CASE i = k + 1
      BY <1>2, <2>1, <3>1
    <3>2. CASE i # k + 1
      <4>1. i \in 1 .. k /\ i \in 1 .. Len(d)
        BY <1>1, <1>2, <2>1, <3>2
      <4>2. QED
        BY <2>2, <4>1 DEF Shaped
    <3>3. QED
      BY <3>1, <3>2
  <2>4. \A i \in 1 .. (Len(r) - 1) : r[i].term <= r[i + 1].term
    <3> TAKE i \in 1 .. (Len(r) - 1)
    <3>1. CASE i = k
      <4>1. k > 0 /\ e.index > 1 /\ e.index - 1 = k /\ r[k] = d[k]
        BY <1>1, <1>2, <2>1, <2>2, <3>1
      <4>2. QED
        BY <2>1, <3>1, <4>1 DEF Fits
    <3>2. CASE i # k
      <4>1. i \in 1 .. k /\ i + 1 \in 1 .. k /\ i \in 1 .. (Len(d) - 1)
        BY <1>1, <1>2, <2>1, <3>2
      <4>2. QED
        BY <2>2, <4>1 DEF Shaped
    <3>3. QED
      BY <3>1, <3>2
  <2>5. QED
    BY <1>2, <2>1, <2>3, <2>4 DEF Shaped, r
<1>3. CASE e.index > Len(d)
  <2>1. e.index = Len(d) + 1 /\ Len(d) \in 0 .. Len(d)
    BY <1>1, <1>3 DEF Fits
  <2>2. AddEntry(d, e) = Append(d, e)
    BY <1>3 DEF AddEntry
  <2>3. QED
    BY <1>1, <1>2, <2>1, <2>2
<1>4. CASE ~(e.index > Len(d)) /\ d[e.index].term # e.term
  <2> DEFINE k == e.index - 1
             s == SubSeq(d, 1, k)
  <2>1. k \in 0 .. Len(d) /\ k + 1 = e.index
    BY <1>1, <1>4
  <2>2. s \in Seq(Entries) /\ Len(s) = k /\ \A i \in 1 .. k : s[i] = d[i]
    BY <1>1, <2>1, SubSeqProperties
  <2>3. AddEntry(d, e) = Append(s, e)
    BY <1>4 DEF AddEntry
  <2> HIDE DEF s
  <2>4. QED
    BY <1>2, <2>1, <2>2, <2>3
<1>5. CASE ~(e.index > Len(d)) /\ d[e.index].term = e.term
  BY <1>1, <1>5 DEF AddEntry
<1>6. QED
  BY <1>3, <1>4, <1>5

\* The recursion of Extended has a solution.
LEMMA ExtendedIs ==
  ASSUME NEW l, NEW es \in Seq(Entries)
  PROVE  \E f : /\ f = [i \in 0 .. Len(es) |-> IF i = 0 THEN l ELSE AddEntry(f[i - 1], es[i])]
                /\ Extended(l, es) = f[Len(es)]
<1> DEFINE Def(f, i) == IF i = 0 THEN l ELSE AddEntry(f[i - 1], es[i])
           Solved == {n \in Nat : \E f : f = [i \in 0 .. n |-> Def(f, i)]}
<1>1. 0 \in Solved
  <2> DEFINE f == [i \in 0 .. 0 |-> l]
  <2>1. f = [i \in 0 .. 0 |-> Def(f, i)]
    OBVIOUS
  <2>2. QED
    BY <2>1
<1>2. ASSUME NEW n \in 0 .. (Len(es) - 1), n \in Solved PROVE n + 1 \in Solved
  <2>1. PICK f : f = [i \in 0 .. n |-> Def(f, i)]
    BY <1>2
  <2> DEFINE g == [i \in 0 .. (n + 1) |-> IF i = n + 1 THEN Def(f, n + 1) ELSE f[i]]
  <2>0. \A i \in 0 .. n : f[i] = Def(f, i)
    BY <2>1
  <2>2. \A i \in 0 .. (n + 1) : g[i] = Def(g, i)
    <3> TAKE i \in 0 .. (n + 1)
    <3>1. CASE i = n + 1
      <4>1. g[i] = Def(f, i) /\ i - 1 \in 0 .. n /\ i - 1 # n + 1 /\ g[i - 1] = f[i - 1]
        BY <3>1
      <4>2. QED
        BY <4>1
    <3>2. CASE i # n + 1
      <4>1. i \in 0 .. n /\ g[i] = f[i]
        BY <3>2
      <4>2. i # 0 => g[i - 1] = f[i - 1]
        BY <4>1
      <4>3. QED
        BY <2>0, <4>1, <4>2
    <3>3. QED
      BY <3>1, <3>2
  <2>3. g = [i \in 0 .. (n + 1) |-> Def(g, i)]
    BY <2>2
  <2>4. \E h : h = [i \in 0 .. (n + 1) |-> Def(h, i)]
    <3> WITNESS g
    <3> QED
      BY <2>3
  <2>5. n + 1 \in Nat
    BY <1>2
  <2>6. QED
    BY <2>4, <2>5, Zenon
<1>3. Len(es) \in Nat
  BY LenProperties
<1>4. Len(es) \in Solved
  <2> HIDE DEF Solved
  <2>1. \A i \in 0 .. Len(es) : i \in Solved
    BY <1>1, <1>2, <1>3, UpTo
  <2>2. QED
    BY <1>3, <2>1
<1>5. PICK f : f = [i \in 0 .. Len(es) |-> Def(f, i)]
  BY <1>4
<1> DEFINE K == CHOOSE done : done = [i \in 0 .. Len(es) |-> Def(done, i)]
<1>6. K = [i \in 0 .. Len(es) |-> Def(K, i)]
  BY <1>5
<1>7. Extended(l, es) = K[Len(es)]
  BY DEF Extended
<1>8. QED
  BY <1>6, <1>7

\* The entries of a request keep the shape of a log that has what precedes them.
LEMMA ExtendedShape ==
  ASSUME NEW t \in Nat, NEW l, Shaped(l, t), NEW es \in Seq(Entries), NEW b \in 0 .. Len(l),
         \A i \in 1 .. Len(es) : es[i].index = b + i /\ es[i].term <= t,
         \A i \in 1 .. (Len(es) - 1) : es[i].term <= es[i + 1].term,
         b > 0 /\ es # <<>> => l[b].term <= es[1].term
  PROVE  Shaped(Extended(l, es), t)
<1> PICK n : n = Len(es)
  OBVIOUS
<1>1. n \in Nat /\ \A i \in 1 .. n : es[i] \in Entries
  BY LenProperties, ElementOfSeq
<1>2. PICK f : /\ f = [i \in 0 .. n |-> IF i = 0 THEN l ELSE AddEntry(f[i - 1], es[i])]
               /\ Extended(l, es) = f[n]
  BY ExtendedIs
<1>3. f[0] = l /\ \A i \in 1 .. n : f[i] = AddEntry(f[i - 1], es[i])
  <2>1. \A i \in 0 .. n : f[i] = IF i = 0 THEN l ELSE AddEntry(f[i - 1], es[i])
    BY <1>2
  <2>2. 0 \in 0 .. n /\ \A i \in 1 .. n : i \in 0 .. n /\ i # 0
    BY <1>1
  <2>3. QED
    BY <2>1, <2>2
<1> DEFINE Good == {i \in 0 .. n : /\ Shaped(f[i], t) /\ b + i <= Len(f[i])
                                   /\ i < n => Fits(f[i], es[i + 1])}
<1>4. 0 \in Good
  <2>1. Len(l) \in Nat
    BY LenProperties DEF Shaped
  <2>2. ASSUME 0 < n PROVE Fits(l, es[1])
    <3>1. es # <<>> /\ es[1].index = b + 1 /\ es[1].index - 1 = b
      BY <1>1, <2>2, EmptySeq
    <3>2. QED
      BY <2>1, <3>1 DEF Fits
  <2>3. QED
    BY <1>1, <1>3, <2>1, <2>2
<1>5. ASSUME NEW i \in 0 .. (n - 1), i \in Good PROVE i + 1 \in Good
  <2> PICK d, e, r : d = f[i] /\ e = es[i + 1] /\ r = f[i + 1]
    OBVIOUS
  <2>1. /\ i + 1 \in 1 .. n /\ (i + 1) - 1 = i /\ i < n /\ i + 1 \in 0 .. n
        /\ e \in Entries /\ e.index = b + (i + 1) /\ e.term <= t
    BY <1>1, <1>5
  <2>2. r = AddEntry(d, e) /\ Shaped(d, t) /\ Fits(d, e)
    BY <1>3, <1>5, <2>1
  <2>3. Shaped(r, t) /\ e.index <= Len(r) /\ r[e.index].term = e.term
    BY <2>1, <2>2, AddEntryShape
  <2>4. ASSUME i + 1 < n PROVE Fits(r, es[(i + 1) + 1])
    <3> PICK g : g = es[(i + 1) + 1]
      OBVIOUS
    <3>1. (i + 1) + 1 \in 1 .. n /\ i + 1 \in 1 .. (n - 1)
      BY <1>1, <2>1, <2>4
    <3>2. g.index = b + ((i + 1) + 1) /\ e.term <= g.term
      BY <3>1
    <3>3. g.index - 1 = e.index /\ g.index <= Len(r) + 1
      BY <2>1, <2>3, <3>2, LenProperties DEF Shaped
    <3>4. QED
      BY <2>3, <3>2, <3>3 DEF Fits
  <2>5. QED
    BY <2>1, <2>3, <2>4
<1>6. n \in Good
  <2> HIDE DEF Good
  <2>1. \A i \in 0 .. n : i \in Good
    BY <1>1, <1>4, <1>5, UpTo
  <2>2. QED
    BY <1>1, <2>1
<1>7. QED
  BY <1>2, <1>6

\* next_index is a dictionary with positions as values.
Positions == UNION {[S -> Nat \ {0}] : S \in SUBSET Nodes}

\* What LogShape rests on: requests start at a position, no term is out of bounds,
\* and only an election makes a node more than a follower.
LogInv == /\ currentTerm \in [Nodes -> 0 .. MaxTerm] /\ requests \in 0 .. MaxRequests
          /\ commitIndex \in [Nodes -> Nat] /\ lastApplied \in [Nodes -> Nat]
          /\ DOMAIN log = Nodes /\ \A n \in Nodes : Shaped(log[n], currentTerm[n])
          /\ nextIndex \in [Nodes -> Positions]
          /\ op.call = "elect" => op.term \in 0 .. MaxTerm
          /\ \A n \in Nodes : state[n] # "follower" => currentTerm[n] > 0

LEMMA LogSafe == IInv /\ LogInv => LogShape
<1> SUFFICES ASSUME IInv, LogInv PROVE LogShape
  OBVIOUS
<1>1. ASSUME NEW n \in Nodes
      PROVE  /\ \A i \in DOMAIN log[n] : log[n][i] \in Entries /\ log[n][i].index = i
                                         /\ log[n][i].term <= currentTerm[n]
             /\ \A i \in 1 .. (Len(log[n]) - 1) : log[n][i].term <= log[n][i + 1].term
  <2>1. log[n] \in Seq(Entries) /\ Shaped(log[n], currentTerm[n])
    BY DEF LogInv, Shaped
  <2>2. DOMAIN log[n] = 1 .. Len(log[n]) /\ \A i \in 1 .. Len(log[n]) : log[n][i] \in Entries
    BY <2>1, LenProperties, ElementOfSeq
  <2>3. QED
    BY <2>1, <2>2 DEF Shaped
<1>2. TypeOK
  BY <1>1 DEF IInv, VoteTypes, LogInv, TypeOK
<1>3. QED
  BY <1>1, <1>2 DEF LogShape

LEMMA ShapedLater ==
  ASSUME NEW t \in Nat, NEW u \in Nat, t <= u, NEW l, Shaped(l, t)
  PROVE  Shaped(l, u)
<1>1. l \in Seq(Entries) /\ Len(l) \in Nat
  BY LenProperties DEF Shaped
<1>2. \A i \in 1 .. Len(l) : l[i].term \in Nat
  <2>1. \A i \in 1 .. Len(l) : l[i] \in Entries
    BY <1>1, ElementOfSeq
  <2>2. \A entry \in Entries : entry.term \in Nat
    BY RaftAssumption DEF Entries
  <2>3. QED
    BY <2>1, <2>2
<1>3. \A i \in 1 .. Len(l) : l[i].term <= u
  BY <1>2 DEF Shaped
<1>4. QED
  BY <1>3 DEF Shaped

LEMMA LogInit == Init => LogInv
<1> SUFFICES ASSUME Init PROVE LogInv
  OBVIOUS
<1>1. <<>> \in Seq(Entries) /\ Len(<<>>) = 0
  BY EmptySeq
<1>2. \A n \in Nodes : log[n] = <<>> /\ Shaped(log[n], currentTerm[n])
  BY <1>1 DEF Init, Shaped
<1>3. Empty \in Positions
  BY DEF Empty, Positions
<1>4. QED
  BY <1>2, <1>3, RaftAssumption DEF Init, LogInv, Idle

\* A step that leaves the logs alone.
LEMMA LogsKept ==
  ASSUME IInv, LogInv, UNCHANGED <<log, progress>>, requests' \in 0 .. MaxRequests,
         currentTerm' \in [Nodes -> 0 .. MaxTerm],
         \A n \in Nodes : currentTerm'[n] >= currentTerm[n],
         nextIndex' \in [Nodes -> Positions],
         op'.call = "elect" => op'.term \in 0 .. MaxTerm,
         \A n \in Nodes : state'[n] # "follower" => state[n] # "follower" \/ currentTerm'[n] > 0
  PROVE  LogInv'
<1>1. \A n \in Nodes : currentTerm[n] \in Nat /\ currentTerm'[n] \in Nat
  BY RaftAssumption DEF LogInv
<1>2. \A n \in Nodes : Shaped(log'[n], currentTerm'[n])
  BY <1>1, ShapedLater DEF LogInv
<1>3. \A n \in Nodes : state'[n] # "follower" => currentTerm'[n] > 0
  BY <1>1 DEF LogInv
<1>4. QED
  BY <1>2, <1>3 DEF LogInv, progress

LEMMA LogElectionStep ==
  ASSUME IInv, LogInv, NEW c \in Nodes, StartElection(c)
  PROVE  LogInv'
<1>1. PICK peers \in Reachable(c) :
        op' = Begin([call |-> "elect", node |-> c, todo |-> peers,
                     term |-> currentTerm[c] + 1])
  BY DEF StartElection
<1>2. /\ UNCHANGED <<log, progress, requests, nextIndex>> /\ currentTerm[c] < MaxTerm
      /\ currentTerm' = [currentTerm EXCEPT ![c] = @ + 1]
      /\ state' = [state EXCEPT ![c] = "candidate"]
  BY DEF StartElection, leading
<1>3. currentTerm[c] \in Nat /\ currentTerm[c] + 1 \in 0 .. MaxTerm
  BY <1>2, RaftAssumption DEF LogInv
<1>4. currentTerm' \in [Nodes -> 0 .. MaxTerm]
  BY <1>2, <1>3 DEF LogInv
<1>5. \A n \in Nodes : currentTerm'[n] >= currentTerm[n]
  BY <1>2, <1>3, RaftAssumption DEF LogInv
<1>6. op'.call = "elect" => op'.term \in 0 .. MaxTerm
  BY <1>1, <1>3 DEF Begin, Idle
<1>7. \A n \in Nodes : state'[n] # "follower" => state[n] # "follower" \/ currentTerm'[n] > 0
  BY <1>2, <1>3 DEF IInv, VoteTypes, LogInv
<1>8. QED
  BY <1>2, <1>4, <1>5, <1>6, <1>7, LogsKept DEF LogInv

LEMMA LogVoteStep ==
  ASSUME IInv, LogInv, RequestVote
  PROVE  LogInv'
<1> DEFINE c == op.node
           v == Head(op.todo)
           newer == op.term > currentTerm[v]
           vTerm == IF newer THEN op.term ELSE currentTerm[v]
           granted == /\ op.term >= currentTerm[v]
                      /\ (IF newer THEN Nil ELSE votedFor[v]) \in {Nil, c}
                      /\ UpToDate(log[v], log[c])
           stale == vTerm > currentTerm[c]
           counts == ~stale /\ state[c] = "candidate"
           votes == IF counts /\ granted THEN votesReceived[c] \cup {v}
                                         ELSE votesReceived[c]
           wins == counts /\ Wins(votes, granted)
<1>1. c \in Nodes /\ v \in Nodes /\ op # Idle /\ op.call = "elect" /\ op.term \in 0 .. MaxTerm
  BY HeadTailProperties DEF RequestVote, IInv, OpShape, Idle, LogInv
<1>2. /\ currentTerm' = [currentTerm EXCEPT ![v] = vTerm,
                                            ![c] = IF stale THEN vTerm ELSE @]
      /\ state' = [state EXCEPT ![v] = IF newer THEN "follower" ELSE @,
             ![c] = IF stale THEN "follower" ELSE IF wins THEN "leader" ELSE @]
      /\ nextIndex' = IF wins THEN [nextIndex EXCEPT
             ![c] = [f \in Nodes \ {c} |-> LastIndex(log[c]) + 1]] ELSE nextIndex
      /\ op' = IF wins THEN Idle ELSE Rest
      /\ UNCHANGED <<log, progress, requests>>
  BY DEF RequestVote
<1>3. vTerm \in 0 .. MaxTerm /\ vTerm >= currentTerm[v] /\ currentTerm[c] \in Nat
  BY <1>1, RaftAssumption DEF LogInv
<1>4. wins => state[c] # "follower"
  BY <1>1
<1> HIDE DEF vTerm, granted, votes, wins, newer
<1>5. currentTerm' \in [Nodes -> 0 .. MaxTerm]
  BY <1>1, <1>2, <1>3 DEF LogInv
<1>6. \A n \in Nodes : currentTerm'[n] >= currentTerm[n]
  BY <1>1, <1>2, <1>3, RaftAssumption DEF LogInv
<1>7. nextIndex' \in [Nodes -> Positions]
  <2>1. [f \in Nodes \ {c} |-> LastIndex(log[c]) + 1] \in Positions
    <3>1. LastIndex(log[c]) + 1 \in Nat \ {0}
      BY <1>1, LenProperties DEF LogInv, Shaped, LastIndex
    <3>2. [f \in Nodes \ {c} |-> LastIndex(log[c]) + 1] \in [Nodes \ {c} -> Nat \ {0}]
      BY <3>1
    <3>3. Nodes \ {c} \in SUBSET Nodes
      OBVIOUS
    <3>4. QED
      BY <3>2, <3>3 DEF Positions
  <2>2. QED
    BY <1>1, <1>2, <2>1 DEF LogInv
<1>8. op'.call = "elect" => op'.term \in 0 .. MaxTerm
  <2>1. op' = Idle \/ op' = Rest
    BY <1>2
  <2>2. Rest = Idle \/ Rest.term = op.term
    BY <1>1, RestKeepsShape DEF IInv
  <2>3. QED
    BY <1>1, <2>1, <2>2 DEF Idle
<1>9. \A n \in Nodes : state'[n] # "follower" => state[n] # "follower"
  BY <1>1, <1>2, <1>4 DEF IInv, VoteTypes
<1>10. QED
  BY <1>2, <1>5, <1>6, <1>7, <1>8, <1>9, LogsKept DEF LogInv

LEMMA LogRequestStep ==
  ASSUME IInv, LogInv, NEW n \in Nodes, ClientRequest(n)
  PROVE  LogInv'
<1>1. /\ state[n] = "leader" /\ requests < MaxRequests /\ requests' = requests + 1
      /\ log' = [log EXCEPT ![n] = Append(@, NewEntry(n))]
      /\ UNCHANGED <<currentTerm, state, progress, nextIndex, op>>
  BY DEF ClientRequest
<1>2. /\ requests \in Nat /\ requests' \in 0 .. MaxRequests
      /\ currentTerm[n] \in 1 .. MaxTerm /\ Shaped(log[n], currentTerm[n])
  <2>1. requests \in Nat /\ requests' \in 0 .. MaxRequests
    BY <1>1, RaftAssumption DEF LogInv
  <2>2. currentTerm[n] \in 0 .. MaxTerm /\ currentTerm[n] > 0
    BY <1>1 DEF LogInv
  <2>3. QED
    BY <2>1, <2>2 DEF LogInv
<1>3. log[n] \in Seq(Entries) /\ Len(log[n]) \in Nat
  BY <1>2, LenProperties DEF Shaped
<1> PICK e : e = NewEntry(n)
  OBVIOUS
<1>4. e \in Entries /\ e.index = Len(log[n]) + 1 /\ e.term = currentTerm[n]
  BY <1>2, <1>3 DEF NewEntry, LastIndex, Entries
<1>5. Fits(log[n], e)
  BY <1>2, <1>3, <1>4 DEF Fits, Shaped
<1>6. AddEntry(log[n], e) = Append(log[n], e)
  BY <1>3, <1>4 DEF AddEntry
<1>7. Shaped(Append(log[n], e), currentTerm[n])
  <2>1. Shaped(AddEntry(log[n], e), currentTerm[n])
    <3> PICK d, t : d = log[n] /\ t = currentTerm[n]
      OBVIOUS
    <3>1. t \in Nat /\ Shaped(d, t) /\ Fits(d, e) /\ e \in Entries /\ e.term <= t
      BY <1>2, <1>4, <1>5
    <3>2. Shaped(AddEntry(d, e), t)
      BY <3>1, AddEntryShape
    <3>3. QED
      BY <3>2
  <2>2. QED
    BY <1>6, <2>1
<1>8. DOMAIN log' = Nodes /\ \A m \in Nodes : Shaped(log'[m], currentTerm'[m])
  BY <1>1, <1>7 DEF LogInv
<1>9. QED
  BY <1>1, <1>2, <1>8 DEF LogInv, progress

LEMMA LogAppendStep ==
  ASSUME IInv, LogInv, AppendEntries
  PROVE  LogInv'
<1> DEFINE n == op.node
           f == Head(op.todo)
           req == Prepare(n, f)
           next == Get(nextIndex[n], f, LastIndex(log[n]) + 1)
           current == req.term >= currentTerm[f]
           success == current /\ Consistent(log[f], req)
           fTerm == IF current THEN req.term ELSE currentTerm[f]
           fLog == IF success THEN Extended(log[f], req.entries) ELSE log[f]
           fCommit == IF success /\ req.commit > commitIndex[f]
                      THEN Min({req.commit, Len(fLog)}) ELSE commitIndex[f]
           stale == fTerm > currentTerm[n]
           leads == ~stale /\ state[n] = "leader"
           match == IF leads /\ success THEN Put(matchIndex[n], f, Len(fLog))
                                      ELSE matchIndex[n]
           nCommit == IF leads /\ success THEN NewCommit(n, log[n], match)
                                        ELSE commitIndex[n]
<1>1. n \in Nodes /\ f \in Nodes /\ n # f /\ op # Idle /\ op.call = "replicate"
  <2>1. op.call = "replicate" /\ op # Idle
    <3>1. op.call = "replicate"
      BY DEF AppendEntries
    <3>2. QED
      BY <3>1 DEF Idle
  <2>2. /\ n \in Nodes /\ op.todo \in Seq(Nodes) /\ op.todo # <<>>
        /\ \A i \in DOMAIN op.todo : op.todo[i] # n
    BY <2>1 DEF IInv, OpShape
  <2>3. f \in Nodes /\ f # n
    BY <2>2, HeadTailProperties
  <2>4. QED
    BY <2>1, <2>2, <2>3
<1>2. /\ currentTerm' = [currentTerm EXCEPT ![f] = fTerm,
                                            ![n] = IF stale THEN fTerm ELSE @]
      /\ state' = [state EXCEPT ![f] = IF current THEN "follower" ELSE @,
                                ![n] = IF stale THEN "follower" ELSE @]
      /\ log' = [log EXCEPT ![f] = fLog]
      /\ nextIndex' = [nextIndex EXCEPT ![n] =
             IF ~leads THEN @
             ELSE Put(@, f, IF success THEN Len(fLog) + 1 ELSE Max({1, next - 1}))]
      /\ commitIndex' = [commitIndex EXCEPT ![f] = fCommit, ![n] = nCommit]
      /\ lastApplied' = [lastApplied EXCEPT ![f] = Max({@, fCommit}),
                                            ![n] = Max({@, nCommit})]
      /\ op' = Rest /\ UNCHANGED requests
  BY DEF AppendEntries
<1>3. /\ req.term = currentTerm[n] /\ req.prevIndex = next - 1
      /\ req.prevTerm = TermAt(log[n], next - 1) /\ req.commit = commitIndex[n]
      /\ req.entries = SubSeq(log[n], next, Len(log[n]))
  BY DEF Prepare, LastIndex
<1>4. /\ next \in Nat \ {0} /\ Shaped(log[n], currentTerm[n]) /\ Shaped(log[f], currentTerm[f])
      /\ log[n] \in Seq(Entries) /\ Len(log[n]) \in Nat
      /\ log[f] \in Seq(Entries) /\ Len(log[f]) \in Nat
      /\ currentTerm[n] \in Nat /\ currentTerm[f] \in Nat
  <2>1. Shaped(log[n], currentTerm[n]) /\ Shaped(log[f], currentTerm[f])
    BY <1>1 DEF LogInv
  <2>2. /\ log[n] \in Seq(Entries) /\ Len(log[n]) \in Nat
        /\ log[f] \in Seq(Entries) /\ Len(log[f]) \in Nat
    BY <2>1, LenProperties DEF Shaped
  <2>3. nextIndex[n] \in Positions
    BY <1>1 DEF LogInv
  <2>4. next \in Nat \ {0}
    BY <2>2, <2>3 DEF Get, Positions, LastIndex
  <2>5. QED
    BY <1>1, <2>1, <2>2, <2>4, RaftAssumption DEF LogInv
<1>5. /\ fTerm \in 0 .. MaxTerm /\ fTerm >= currentTerm[f]
      /\ current => fTerm = currentTerm[n]
  BY <1>1, <1>3, <1>4 DEF LogInv
<1>6. Shaped(fLog, fTerm)
  <2>1. Shaped(log[f], fTerm)
    BY <1>4, <1>5, ShapedLater
  <2>2. ASSUME success PROVE Shaped(Extended(log[f], req.entries), fTerm)
    <3> PICK l, m, es, t, x : /\ l = log[f] /\ m = log[n] /\ es = req.entries
                              /\ t = fTerm /\ x = next
      OBVIOUS
    <3>1. /\ t \in Nat /\ Shaped(l, t) /\ Shaped(m, t) /\ l \in Seq(Entries) /\ m \in Seq(Entries)
          /\ Len(l) \in Nat /\ Len(m) \in Nat /\ x \in Nat \ {0} /\ es = SubSeq(m, x, Len(m))
          /\ Consistent(l, req) /\ req.prevIndex = x - 1 /\ req.prevTerm = TermAt(m, x - 1)
      BY <1>3, <1>4, <1>5, <2>1, <2>2, RaftAssumption
    <3> HIDE DEF next, req, success, fTerm
    <3>2. CASE x > Len(m)
      <4>1. es = <<>> /\ es \in Seq(Entries) /\ Len(es) = 0
        <5>1. es = <<>>
          BY <3>1, <3>2
        <5>2. QED
          BY <5>1, EmptySeq
      <4>2. 0 \in 0 .. Len(l)
        BY <3>1
      <4>3. /\ \A i \in 1 .. Len(es) : es[i].index = 0 + i /\ es[i].term <= t
            /\ \A i \in 1 .. (Len(es) - 1) : es[i].term <= es[i + 1].term
        BY <4>1
      <4>4. t \in Nat /\ Shaped(l, t)
        BY <3>1
      <4>5. Shaped(Extended(l, es), t)
        BY ONLY <4>1, <4>2, <4>3, <4>4, ExtendedShape
      <4>6. QED
        BY <4>5
    <3>3. CASE ~(x > Len(m))
      <4> PICK b, size : b = x - 1 /\ size = Len(m) - b
        OBVIOUS
      <4>1. b \in Nat /\ size \in Nat /\ b + 1 = x /\ b + size = Len(m) /\ size > 0
        BY <3>1, <3>3
      <4>2. es \in Seq(Entries) /\ Len(es) = size /\ \A i \in 1 .. size : es[i] = m[b + i]
        <5>1. \A i \in x .. Len(m) : m[i] \in Entries
          BY <3>1, ElementOfSeq
        <5>2. /\ es \in Seq(Entries) /\ Len(es) = Len(m) - x + 1
              /\ \A i \in 1 .. (Len(m) - x + 1) : es[i] = m[x + i - 1]
          BY <3>1, <3>3, <5>1, SubSeqProperties
        <5>3. Len(m) - x + 1 = size /\ \A i \in 1 .. size : x + i - 1 = b + i
          BY <3>1, <4>1
        <5>4. QED
          BY <5>2, <5>3
      <4>3. b \in 0 .. Len(l) /\ (b > 0 => l[b].term = m[b].term)
        <5>1. DOMAIN l = 1 .. Len(l) /\ DOMAIN m = 1 .. Len(m)
          BY <3>1, LenProperties
        <5>2. b > 0 => b \in 1 .. Len(l) /\ l[b].term = TermAt(m, b)
          BY <3>1, <4>1, <5>1 DEF Consistent
        <5>3. b > 0 => TermAt(m, b) = m[b].term
          BY <3>1, <4>1, <5>1 DEF TermAt
        <5>4. QED
          BY <3>1, <4>1, <5>2, <5>3
      <4>4. \A i \in 1 .. size : es[i].index = b + i /\ es[i].term <= t
        <5> TAKE i \in 1 .. size
        <5>1. b + i \in 1 .. Len(m)
          BY <3>1, <4>1
        <5>2. QED
          BY <3>1, <4>2, <5>1 DEF Shaped
      <4>5. \A i \in 1 .. (size - 1) : es[i].term <= es[i + 1].term
        <5> TAKE i \in 1 .. (size - 1)
        <5>1. /\ i \in 1 .. size /\ i + 1 \in 1 .. size
              /\ b + (i + 1) = (b + i) + 1 /\ b + i \in 1 .. (Len(m) - 1)
          BY <3>1, <4>1
        <5>2. es[i] = m[b + i] /\ es[i + 1] = m[(b + i) + 1]
          BY <4>2, <5>1
        <5>3. QED
          BY <3>1, <5>1, <5>2 DEF Shaped
      <4>6. b > 0 => l[b].term <= es[1].term
        <5>1. 1 \in 1 .. size /\ (b > 0 => b \in 1 .. (Len(m) - 1))
          BY <3>1, <4>1
        <5>2. es[1] = m[b + 1]
          BY <4>2, <5>1
        <5>3. QED
          BY <3>1, <4>3, <5>1, <5>2 DEF Shaped
      <4>7. /\ \A i \in 1 .. Len(es) : es[i].index = b + i /\ es[i].term <= t
            /\ \A i \in 1 .. (Len(es) - 1) : es[i].term <= es[i + 1].term
            /\ b > 0 /\ es # <<>> => l[b].term <= es[1].term
        BY <4>2, <4>4, <4>5, <4>6
      <4>8. t \in Nat /\ Shaped(l, t) /\ es \in Seq(Entries) /\ b \in 0 .. Len(l)
        BY <3>1, <4>2, <4>3
      <4>9. Shaped(Extended(l, es), t)
        BY ONLY <4>7, <4>8, ExtendedShape
      <4>10. QED
        BY <4>9
    <3>4. QED
      BY <3>2, <3>3
  <2>3. QED
    BY <2>1, <2>2
<1>7. Len(fLog) \in Nat
  BY <1>6, LenProperties DEF Shaped
<1>8. fCommit \in Nat
  <2>1. \A a, b \in Nat : Min({a, b}) \in Nat
    BY DEF Min
  <2>2. QED
    BY <1>1, <1>3, <1>7, <2>1 DEF LogInv
<1>9. nCommit \in Nat
  <2>1. NewCommit(n, log[n], match) \in Nat
    <3> DEFINE S == {commitIndex[n]} \cup {i \in (commitIndex[n] + 1) .. Len(log[n]) :
                       /\ log[n][i].term = currentTerm[n]
                       /\ \E m \in DOMAIN match : match[m] >= i}
    <3>1. commitIndex[n] \in Nat
      BY <1>1 DEF LogInv
    <3>2. S \in SUBSET (0 .. (commitIndex[n] + Len(log[n]))) /\ S # {}
      BY <1>4, <3>1
    <3>3. NewCommit(n, log[n], match) = Max(S)
      BY DEF NewCommit
    <3>4. PICK N \in Nat : S \in SUBSET (0 .. N)
      <4>1. commitIndex[n] + Len(log[n]) \in Nat
        BY <1>4, <3>1
      <4> HIDE DEF S
      <4>2. QED
        BY <3>2, <4>1
    <3> HIDE DEF S
    <3>5. Max(S) \in S
      BY <3>2, <3>4, MaxProperty
    <3>6. Max(S) \in Nat
      <4>1. S \in SUBSET (0 .. N) /\ 0 .. N \subseteq Nat
        BY <3>4
      <4>2. QED
        BY <3>5, <4>1
    <3>7. QED
      BY <3>3, <3>6
  <2>2. QED
    BY <1>1, <2>1 DEF LogInv
<1>10. \A a, b \in Nat : Max({a, b}) \in {a, b}
  BY DEF Max
<1> HIDE DEF req, next, current, success, fTerm, fLog, fCommit, stale, leads, match, nCommit
<1>11. commitIndex' \in [Nodes -> Nat] /\ lastApplied' \in [Nodes -> Nat]
  <2>1. commitIndex' \in [Nodes -> Nat]
    BY <1>1, <1>2, <1>8, <1>9 DEF LogInv
  <2>2. Max({lastApplied[f], fCommit}) \in Nat /\ Max({lastApplied[n], nCommit}) \in Nat
    <3>1. lastApplied[f] \in Nat /\ lastApplied[n] \in Nat
      BY <1>1 DEF LogInv
    <3>2. QED
      BY <1>8, <1>9, <1>10, <3>1
  <2>3. lastApplied' \in [Nodes -> Nat]
    BY <1>1, <1>2, <2>2 DEF LogInv
  <2>4. QED
    BY <2>1, <2>3
<1>12. currentTerm' \in [Nodes -> 0 .. MaxTerm]
  BY <1>1, <1>2, <1>5 DEF LogInv
<1>13. /\ \A m \in Nodes : currentTerm'[m] >= currentTerm[m]
       /\ currentTerm'[f] = fTerm
  <2>1. /\ currentTerm'[f] = fTerm /\ currentTerm'[n] = IF stale THEN fTerm ELSE currentTerm[n]
        /\ \A m \in Nodes \ {f, n} : currentTerm'[m] = currentTerm[m]
    BY <1>1, <1>2 DEF LogInv
  <2>2. \A m \in Nodes : currentTerm[m] \in Nat
    BY RaftAssumption DEF LogInv
  <2>3. fTerm \in Nat /\ (stale => fTerm > currentTerm[n])
    BY <1>5, RaftAssumption DEF stale
  <2>4. currentTerm'[n] >= currentTerm[n]
    BY <1>1, <2>1, <2>2, <2>3
  <2>5. QED
    BY <1>1, <1>5, <2>1, <2>2, <2>4
<1>14. DOMAIN log' = Nodes /\ \A m \in Nodes : Shaped(log'[m], currentTerm'[m])
  <2>1. \A m \in Nodes : currentTerm[m] \in Nat /\ currentTerm'[m] \in Nat
    BY <1>12, RaftAssumption DEF LogInv
  <2>2. \A m \in Nodes \ {f} : Shaped(log'[m], currentTerm'[m])
    BY <1>2, <1>13, <2>1, ShapedLater DEF LogInv
  <2>3. Shaped(log'[f], currentTerm'[f])
    BY <1>1, <1>2, <1>6, <1>13 DEF LogInv
  <2>4. QED
    BY <1>2, <2>2, <2>3 DEF LogInv
<1>15. nextIndex' \in [Nodes -> Positions]
  <2>1. ASSUME NEW d \in Positions, NEW x \in Nat \ {0} PROVE Put(d, f, x) \in Positions
    <3>1. PICK S \in SUBSET Nodes : d \in [S -> Nat \ {0}]
      BY <2>1 DEF Positions
    <3>2. Put(d, f, x) \in [S \union {f} -> Nat \ {0}]
      BY <3>1 DEF Put
    <3>3. QED
      BY <1>1, <3>1, <3>2 DEF Positions
  <2>2. Max({1, next - 1}) \in Nat \ {0} /\ Len(fLog) + 1 \in Nat \ {0}
    <3>1. next - 1 \in Nat
      BY <1>4
    <3>2. Max({1, next - 1}) \in {1, next - 1} /\ Max({1, next - 1}) >= 1
      BY <3>1 DEF Max
    <3>3. QED
      BY <1>7, <3>1, <3>2
  <2>3. nextIndex[n] \in Positions
    BY <1>1 DEF LogInv
  <2>4. QED
    BY <1>1, <1>2, <2>1, <2>2, <2>3 DEF LogInv
<1>16. op'.call # "elect"
  <2>1. op' = Idle \/ op'.call = "replicate"
    BY <1>1, <1>2, RestKeepsShape DEF IInv
  <2>2. QED
    BY <2>1 DEF Idle
<1>17. \A m \in Nodes : state'[m] # "follower" => currentTerm'[m] > 0
  <2>1. \A m \in Nodes : state'[m] # "follower" => state[m] # "follower"
    BY <1>1, <1>2 DEF IInv, VoteTypes
  <2>2. \A m \in Nodes : currentTerm[m] \in Nat /\ currentTerm'[m] \in Nat
    BY <1>12, RaftAssumption DEF LogInv
  <2>3. QED
    BY <1>13, <2>1, <2>2 DEF LogInv
<1>18. QED
  BY <1>2, <1>11, <1>12, <1>14, <1>15, <1>16, <1>17 DEF LogInv

LEMMA LogNextStep == IInv /\ LogInv /\ [Next]_vars => LogInv'
<1> SUFFICES ASSUME IInv, LogInv, [Next]_vars PROVE LogInv'
  OBVIOUS
<1>1. ASSUME NEW n \in Nodes, StartReplicate(n) PROVE LogInv'
  <2>1. /\ \E peers \in Reachable(n) :
             op' = Begin([call |-> "replicate", node |-> n, todo |-> peers])
        /\ UNCHANGED <<currentTerm, log, state, progress, nextIndex, requests>>
    BY <1>1 DEF StartReplicate, leading
  <2>2. op'.call # "elect"
    BY <2>1 DEF Begin, Idle
  <2>3. QED
    BY <2>1, <2>2 DEF LogInv, progress
<1>2. CASE UNCHANGED vars
  BY <1>2 DEF vars, progress, leading, LogInv
<1>3. QED
  BY <1>1, <1>2, LogElectionStep, LogRequestStep, LogVoteStep, LogAppendStep DEF Next

\* However many nodes, elections and requests there are, and whatever links fail in
\* the middle of a call: entries stand at their index and the terms of a log rise
\* up to the node's own (handle_append_entries, prepare_append_entries).
THEOREM LogShapeHolds == Spec => []LogShape
BY Invariance, LogInit, LogSafe, LogNextStep, PTL DEF Spec
-----------------------------------------------------------------------------
(* Applied commands *)

\* The entries that are in some log.
Written == {e \in Entries : \E n \in Nodes : \E i \in 1 .. Len(log[n]) : log[n][i] = e}

\* The entries of W have the commands up to r, each at one index only.
OnePlace(W, r) == \A e \in W : /\ e.command <= r
                               /\ \A d \in W : d.command = e.command => d.index = e.index

\* What a node applied: commands up to r, each once, and none that stands behind `last`.
Ledger(app, last, W, r) ==
  /\ app \in Seq(0 .. r) /\ IsInjective(app)
  /\ \A k \in 1 .. Len(app) : \A e \in W : e.command = app[k] => e.index <= last

\* A command is written at one index, whichever logs it is copied to and cut from, and a
\* node applies indices in their order: so none is applied again when it comes back.
AppliedInv == /\ OnePlace(Written, requests) /\ DOMAIN appliedCommands = Nodes
              /\ \A n \in Nodes : Ledger(appliedCommands[n], lastApplied[n], Written, requests)

LEMMA LogsAreWritten ==
  ASSUME LogInv, NEW n \in Nodes
  PROVE  log[n] \in Seq(Written) /\ \A i \in 1 .. Len(log[n]) : log[n][i].index = i
<1>1. log[n] \in Seq(Entries) /\ \A i \in 1 .. Len(log[n]) : log[n][i].index = i
  BY DEF LogInv, Shaped
<1>2. Len(log[n]) \in Nat /\ \A i \in 1 .. Len(log[n]) : log[n][i] \in Written
  BY <1>1, LenProperties, ElementOfSeq DEF Written
<1>3. log[n] \in [1 .. Len(log[n]) -> Written]
  BY <1>1, <1>2, LenProperties
<1>4. QED
  BY <1>1, <1>2, <1>3, IsASeq

\* Adding the entries of a request writes nothing that was in no log.
LEMMA ExtendedIsWritten ==
  ASSUME NEW W \in SUBSET Entries, NEW l \in Seq(W), NEW es \in Seq(W)
  PROVE  Extended(l, es) \in Seq(W)
<1> PICK n : n = Len(es)
  OBVIOUS
<1>1. n \in Nat /\ \A i \in 1 .. n : es[i] \in W /\ es[i].index \in Nat \ {0}
  BY LenProperties, ElementOfSeq DEF Entries
<1>2. PICK f : /\ f = [i \in 0 .. n |-> IF i = 0 THEN l ELSE AddEntry(f[i - 1], es[i])]
               /\ Extended(l, es) = f[n]
  <2>1. es \in Seq(Entries)
    <3>1. es \in [1 .. n -> Entries]
      BY <1>1, LenProperties
    <3>2. QED
      BY <1>1, <3>1, IsASeq
  <2>2. QED
    BY <2>1, ExtendedIs
<1>3. f[0] = l /\ \A i \in 0 .. (n - 1) : f[i + 1] = AddEntry(f[i], es[i + 1])
  <2>1. \A i \in 0 .. n : f[i] = IF i = 0 THEN l ELSE AddEntry(f[i - 1], es[i])
    BY <1>2
  <2>2. 0 \in 0 .. n /\ \A i \in 0 .. (n - 1) : i + 1 \in 0 .. n /\ i + 1 # 0 /\ (i + 1) - 1 = i
    BY <1>1
  <2>3. QED
    BY <2>1, <2>2
<1> DEFINE Good == {i \in 0 .. n : f[i] \in Seq(W)}
<1>4. 0 \in Good
  BY <1>1, <1>3
<1>5. ASSUME NEW i \in 0 .. (n - 1), i \in Good PROVE i + 1 \in Good
  <2> PICK d, e : d = f[i] /\ e = es[i + 1]
    OBVIOUS
  <2>1. /\ d \in Seq(W) /\ e \in W /\ e.index \in Nat \ {0} /\ Len(d) \in Nat
        /\ f[i + 1] = AddEntry(d, e) /\ i + 1 \in 0 .. n
    BY <1>1, <1>3, <1>5, LenProperties
  <2>2. Append(d, e) \in Seq(W)
    BY <2>1, AppendProperties
  <2>3. ASSUME ~(e.index > Len(d)) PROVE Append(SubSeq(d, 1, e.index - 1), e) \in Seq(W)
    <3>1. 1 \in 1 .. Len(d) + 1 /\ e.index - 1 \in 0 .. Len(d)
      BY <2>1, <2>3
    <3>2. \A j \in 1 .. e.index - 1 : d[j] \in W
      BY <2>1, <3>1, ElementOfSeq
    <3>3. SubSeq(d, 1, e.index - 1) \in Seq(W)
      BY <2>1, <3>1, <3>2, SubSeqProperties
    <3>4. QED
      BY <2>1, <3>3, AppendProperties
  <2>4. AddEntry(d, e) \in Seq(W)
    BY <2>1, <2>2, <2>3 DEF AddEntry
  <2>5. QED
    BY <2>1, <2>4
<1>6. n \in Good
  <2> HIDE DEF Good
  <2>1. \A i \in 0 .. n : i \in Good
    BY <1>1, <1>4, <1>5, UpTo
  <2>2. QED
    BY <1>1, <2>1
<1>7. QED
  BY <1>2, <1>6

\* The range of _apply_committed.
LEMMA NewlyAppliedIs ==
  ASSUME NEW W \in SUBSET Entries, NEW l \in Seq(W), NEW from \in Nat, NEW to \in Nat
  PROVE  \E size \in Nat :
           /\ size > 0 => from + size <= to
           /\ \A k \in 1 .. size : from + k \in 1 .. Len(l)
           /\ DOMAIN NewlyApplied(l, from, to) = 1 .. size
           /\ \A k \in 1 .. size : NewlyApplied(l, from, to)[k] = l[from + k].command
<1> PICK top : top = Min({to, LastIndex(l)})
  OBVIOUS
<1>1. Len(l) \in Nat /\ top \in Nat /\ top <= to /\ top <= Len(l)
  <2>1. ASSUME NEW a \in Nat, NEW b \in Nat
        PROVE  Min({a, b}) \in Nat /\ Min({a, b}) <= a /\ Min({a, b}) <= b
    BY MinProperty
  <2>2. QED
    BY <2>1, LenProperties DEF LastIndex
<1> DEFINE new == SubSeq(l, from + 1, top)
<1>2. NewlyApplied(l, from, to) = [k \in DOMAIN new |-> new[k].command]
  BY DEF NewlyApplied
<1>3. CASE top <= from
  <2>1. DOMAIN new = 1 .. 0
    BY <1>1, <1>3
  <2>2. DOMAIN NewlyApplied(l, from, to) = 1 .. 0
    BY <1>2, <2>1
  <2> WITNESS 0 \in Nat
  <2>3. QED
    BY <2>2
<1>4. CASE top > from
  <2> PICK size : size = top - from
    OBVIOUS
  <2>1. size \in Nat /\ size = top - (from + 1) + 1 /\ from + size = top
    BY <1>1, <1>4
  <2>2. /\ DOMAIN new = 1 .. size
        /\ \A k \in 1 .. size : new[k] = l[from + k]
    <3>1. \A i \in (from + 1) .. top : l[i] \in W
      BY <1>1, ElementOfSeq
    <3>2. from + 1 \in 1 .. Len(l) + 1 /\ top \in from .. Len(l)
      BY <1>1, <1>4
    <3>3. /\ new \in Seq(W) /\ Len(new) = top - (from + 1) + 1
          /\ \A k \in 1 .. (top - (from + 1) + 1) : new[k] = l[from + 1 + k - 1]
      <4> PICK first : first = from + 1
        OBVIOUS
      <4>1. first \in Int /\ top \in Int /\ first <= top
        BY <1>1, <1>4
      <4>2. \A i \in first .. top : l[i] \in W
        BY <3>1
      <4>3. /\ SubSeq(l, first, top) \in Seq(W)
            /\ Len(SubSeq(l, first, top)) = IF first <= top THEN top - first + 1 ELSE 0
            /\ \A k \in 1 .. (top - first + 1) : SubSeq(l, first, top)[k] = l[first + k - 1]
        <5> HIDE DEF new
        <5>1. SubSeq(l, first, top) \in Seq(W)
          BY <4>1, <4>2, SubSeqProperties
        <5>2. Len(SubSeq(l, first, top)) = IF first <= top THEN top - first + 1 ELSE 0
          BY <4>1, <4>2, SubSeqProperties
        <5>3. \A k \in 1 .. (top - first + 1) : SubSeq(l, first, top)[k] = l[first + k - 1]
          BY <4>1, <4>2, SubSeqProperties
        <5>4. QED
          BY <5>1, <5>2, <5>3
      <4>4. new = SubSeq(l, first, top)
        OBVIOUS
      <4> HIDE DEF new
      <4>5. QED
        BY <4>1, <4>3, <4>4
    <3>4. \A k \in 1 .. size : from + 1 + k - 1 = from + k
      BY <2>1
    <3>5. DOMAIN new = 1 .. size
      BY <2>1, <3>3, LenProperties
    <3>6. QED
      BY <2>1, <3>3, <3>4, <3>5
  <2>3. \A k \in 1 .. size : from + k \in 1 .. Len(l)
    BY <1>1, <2>1
  <2> HIDE DEF new
  <2>4. /\ DOMAIN NewlyApplied(l, from, to) = 1 .. size
        /\ \A k \in 1 .. size : NewlyApplied(l, from, to)[k] = l[from + k].command
    BY <1>2, <2>2
  <2>5. size > 0 => from + size <= to
    BY <1>1, <2>1
  <2>6. QED
    BY <2>1, <2>3, <2>4, <2>5
<1>5. QED
  BY <1>1, <1>3, <1>4

\* _apply_committed adds what stands behind the last index applied.
LEMMA ApplyKeeps ==
  ASSUME NEW W \in SUBSET Entries, NEW r \in Nat, OnePlace(W, r), NEW l \in Seq(W),
         \A i \in 1 .. Len(l) : l[i].index = i,
         NEW from \in Nat, NEW to \in Nat, NEW app, Ledger(app, from, W, r)
  PROVE  Ledger(app \o NewlyApplied(l, from, to), Max({from, to}), W, r)
<1> PICK new : new = NewlyApplied(l, from, to)
  OBVIOUS
<1>0. \E size \in Nat :
        /\ size > 0 => from + size <= to
        /\ \A k \in 1 .. size : from + k \in 1 .. Len(l)
        /\ DOMAIN NewlyApplied(l, from, to) = 1 .. size
        /\ \A k \in 1 .. size : NewlyApplied(l, from, to)[k] = l[from + k].command
  BY NewlyAppliedIs
<1>1. PICK size \in Nat :
        /\ size > 0 => from + size <= to
        /\ \A k \in 1 .. size : from + k \in 1 .. Len(l)
        /\ DOMAIN new = 1 .. size
        /\ \A k \in 1 .. size : new[k] = l[from + k].command
  BY <1>0
<1>2. \A k \in 1 .. size : /\ l[from + k] \in W /\ l[from + k].index = from + k
                           /\ new[k] \in 0 .. r
  <2> TAKE k \in 1 .. size
  <2>1. l[from + k] \in W /\ l[from + k].index = from + k
    BY <1>1, ElementOfSeq
  <2>2. l[from + k].command \in Nat /\ l[from + k].command <= r
    BY <2>1 DEF Entries, OnePlace
  <2>3. QED
    BY <1>1, <2>1, <2>2
<1>3. new \in Seq(0 .. r) /\ Len(new) = size
  <2>1. new = NewlyApplied(l, from, to) /\ new = [k \in DOMAIN new |-> new[k]]
    BY DEF NewlyApplied
  <2>2. new \in [1 .. size -> 0 .. r]
    BY <1>1, <1>2, <2>1
  <2>3. new \in Seq(0 .. r)
    BY <2>2, IsASeq
  <2>4. QED
    BY <1>1, <2>3, LenProperties
<1>4. app \in Seq(0 .. r) /\ Len(app) \in Nat /\ DOMAIN app = 1 .. Len(app) /\ IsInjective(app)
  BY LenProperties DEF Ledger
<1> PICK a, both : a = Len(app) /\ both = app \o new
  OBVIOUS
<1>5. /\ both \in Seq(0 .. r) /\ Len(both) = a + size /\ DOMAIN both = 1 .. a + size
      /\ \A k \in 1 .. a + size : both[k] = IF k <= a THEN app[k] ELSE new[k - a]
  <2>1. both \in Seq(0 .. r) /\ Len(both) = a + size
    BY <1>3, <1>4, ConcatProperties
  <2>2. \A k \in 1 .. a + size : both[k] = IF k <= a THEN app[k] ELSE new[k - a]
    BY <1>3, <1>4, ConcatProperties
  <2>3. QED
    BY <2>1, <2>2, LenProperties
<1>6. \A k \in 1 .. a + size :
        \/ k \in 1 .. a /\ both[k] = app[k]
        \/ \E j \in 1 .. size : k = a + j /\ both[k] = l[from + j].command
  <2> TAKE k \in 1 .. a + size
  <2>1. CASE k <= a
    BY <1>4, <1>5, <2>1
  <2>2. CASE ~(k <= a)
    <3>1. k - a \in 1 .. size /\ k = a + (k - a)
      BY <1>1, <1>4, <2>2
    <3>2. both[k] = new[k - a]
      BY <1>5, <2>2
    <3>3. QED
      BY <1>1, <3>1, <3>2
  <2>3. QED
    BY <2>1, <2>2
\* A new command is none of the old ones, and new ones are at different places.
<1>7. \A j \in 1 .. size : \A k \in 1 .. a : app[k] # l[from + j].command
  <2> SUFFICES ASSUME NEW j \in 1 .. size, NEW k \in 1 .. a, app[k] = l[from + j].command
               PROVE  FALSE
    OBVIOUS
  <2>1. l[from + j] \in W /\ l[from + j].index = from + j
    BY <1>2
  <2>2. l[from + j].index <= from
    BY <1>4, <2>1 DEF Ledger
  <2>3. QED
    BY <2>1, <2>2
<1>8. \A i, j \in 1 .. size : l[from + i].command = l[from + j].command => i = j
  <2> SUFFICES ASSUME NEW i \in 1 .. size, NEW j \in 1 .. size,
                      l[from + i].command = l[from + j].command
               PROVE  i = j
    OBVIOUS
  <2>1. l[from + i].index = l[from + j].index
    BY <1>2 DEF OnePlace
  <2>2. from + i = from + j
    BY <1>2, <2>1
  <2>3. QED
    BY <2>2
<1>9. IsInjective(both)
  <2> SUFFICES ASSUME NEW i \in 1 .. a + size, NEW j \in 1 .. a + size, both[i] = both[j]
               PROVE  i = j
    BY <1>5 DEF IsInjective
  <2>1. CASE i \in 1 .. a /\ j \in 1 .. a /\ both[i] = app[i] /\ both[j] = app[j]
    BY <1>4, <2>1 DEF IsInjective
  <2>2. ASSUME NEW x \in 1 .. size, NEW y \in 1 .. size, i = a + x, j = a + y,
               both[i] = l[from + x].command, both[j] = l[from + y].command
        PROVE  i = j
    BY <1>8, <2>2
  <2>3. ~(i \in 1 .. a /\ both[i] = app[i] /\ \E y \in 1 .. size : both[j] = l[from + y].command)
    BY <1>7
  <2>4. ~(j \in 1 .. a /\ both[j] = app[j] /\ \E x \in 1 .. size : both[i] = l[from + x].command)
    BY <1>7
  <2>5. /\ \/ i \in 1 .. a /\ both[i] = app[i]
           \/ \E x \in 1 .. size : i = a + x /\ both[i] = l[from + x].command
        /\ \/ j \in 1 .. a /\ both[j] = app[j]
           \/ \E y \in 1 .. size : j = a + y /\ both[j] = l[from + y].command
    BY <1>6
  <2>6. QED
    BY <2>1, <2>2, <2>3, <2>4, <2>5
<1>10. Max({from, to}) \in Nat /\ Max({from, to}) >= from /\ Max({from, to}) >= to
  <2>1. PICK N \in Nat : {from, to} \in SUBSET (0 .. N)
    <3>1. {from, to} \in SUBSET (0 .. from + to) /\ from + to \in Nat
      OBVIOUS
    <3>2. QED
      BY <3>1
  <2>2. Max({from, to}) \in {from, to} /\ \A y \in {from, to} : y <= Max({from, to})
    BY <2>1, MaxProperty
  <2>3. QED
    BY <2>2
<1> PICK last : last = Max({from, to})
  OBVIOUS
<1>11. ASSUME NEW k \in 1 .. a + size, NEW e \in W, e.command = both[k] PROVE e.index <= last
  <2>0. e.index \in Nat
    BY <1>11 DEF Entries
  <2>1. CASE k \in 1 .. a /\ both[k] = app[k]
    <3>1. e.index <= from
      BY <1>11, <2>1 DEF Ledger
    <3>2. QED
      BY <1>10, <2>0, <3>1
  <2>2. ASSUME NEW j \in 1 .. size, both[k] = l[from + j].command PROVE e.index <= last
    <3>1. e.index = from + j
      BY <1>2, <1>11, <2>2 DEF OnePlace
    <3>2. from + j <= to
      BY <1>1
    <3>3. QED
      BY <1>10, <3>1, <3>2
  <2>3. QED
    BY <1>6, <2>1, <2>2
<1>12. QED
  BY <1>5, <1>9, <1>11 DEF Ledger

\* A node keeps its ledger while fewer entries are written and more is applied elsewhere.
LEMMA LedgerLater ==
  ASSUME NEW W \in SUBSET Entries, NEW V \in SUBSET W, NEW r \in Nat, NEW app, NEW last,
         Ledger(app, last, W, r)
  PROVE  Ledger(app, last, V, r)
BY DEF Ledger

LEMMA AppliedInit == Init => AppliedInv
<1> SUFFICES ASSUME Init PROVE AppliedInv
  OBVIOUS
<1>1. Written = {}
  BY EmptySeq DEF Init, Written
<1>2. Ledger(<<>>, 0, Written, 0)
  BY EmptySeq DEF Ledger, IsInjective
<1>3. QED
  BY <1>1, <1>2 DEF Init, AppliedInv, OnePlace

LEMMA AppliedRequestStep ==
  ASSUME LogInv, AppliedInv, NEW n \in Nodes, ClientRequest(n)
  PROVE  AppliedInv'
<1>1. /\ requests' = requests + 1 /\ log' = [log EXCEPT ![n] = Append(@, NewEntry(n))]
      /\ UNCHANGED progress
  BY DEF ClientRequest
<1>2. requests \in Nat /\ DOMAIN log = Nodes /\ Written \subseteq Entries
  BY RaftAssumption DEF LogInv, Written
<1>3. \A e \in Written' : e \in Written \/ (e.command = requests + 1 /\ e = NewEntry(n))
  <2> SUFFICES ASSUME NEW e \in Written', e # NewEntry(n) PROVE e \in Written
    BY DEF NewEntry
  <2>1. e \in Entries
    BY DEF Written
  <2>2. PICK m \in Nodes : \E i \in 1 .. Len(log'[m]) : log'[m][i] = e
    BY DEF Written
  <2>3. PICK i \in 1 .. Len(log'[m]) : log'[m][i] = e
    BY <2>2
  <2>4. CASE m # n
    BY <1>1, <1>2, <2>1, <2>3, <2>4 DEF Written
  <2>5. CASE m = n
    <3>1. log[n] \in Seq(Entries) /\ Len(log[n]) \in Nat
      BY LenProperties DEF LogInv, Shaped
    <3>2. log'[m] = Append(log[n], NewEntry(n))
      BY <1>1, <1>2, <2>5
    <3>3. /\ Len(log'[m]) = Len(log[n]) + 1 /\ log'[m][Len(log[n]) + 1] = NewEntry(n)
          /\ \A j \in 1 .. Len(log[n]) : log'[m][j] = log[n][j]
      BY <3>1, <3>2
    <3>4. i \in 1 .. Len(log[n])
      BY <2>3, <3>1, <3>3
    <3>5. QED
      BY <2>1, <2>3, <3>3, <3>4 DEF Written
  <2>6. QED
    BY <2>4, <2>5
<1>4. OnePlace(Written', requests + 1)
  <2> SUFFICES ASSUME NEW e \in Written'
               PROVE  /\ e.command <= requests + 1
                      /\ \A d \in Written' : d.command = e.command => d.index = e.index
    BY DEF OnePlace
  <2>1. \A d \in Written : d.command \in Nat /\ d.command <= requests
    BY <1>2 DEF AppliedInv, OnePlace, Entries
  <2>2. CASE e \in Written
    BY <1>2, <1>3, <2>1, <2>2 DEF AppliedInv, OnePlace
  <2>3. CASE e.command = requests + 1 /\ e = NewEntry(n)
    BY <1>2, <1>3, <2>1, <2>3
  <2>4. QED
    BY <1>3, <2>2, <2>3
<1>5. ASSUME NEW m \in Nodes
      PROVE  Ledger(appliedCommands[m], lastApplied[m], Written', requests + 1)
  <2> PICK app : app = appliedCommands[m]
    OBVIOUS
  <2>1. Ledger(app, lastApplied[m], Written, requests)
    BY DEF AppliedInv
  <2>2. app \in Seq(0 .. requests) /\ IsInjective(app) /\ Len(app) \in Nat
    BY <2>1, LenProperties DEF Ledger
  <2>3. \A k \in 1 .. Len(app) : app[k] \in 0 .. requests
    BY <2>2, ElementOfSeq
  <2>4. app \in Seq(0 .. requests + 1)
    <3>0. \A k \in 1 .. Len(app) : app[k] \in 0 .. (requests + 1)
      BY <1>2, <2>3
    <3> PICK R : R = 0 .. (requests + 1)
      OBVIOUS
    <3> PICK k : k = Len(app)
      OBVIOUS
    <3>1. k \in Nat /\ app \in [1 .. k -> R]
      BY <2>2, <3>0, LenProperties
    <3>2. [1 .. k -> R] \in {[1 .. i -> R] : i \in Nat}
      BY <3>1
    <3>3. app \in UNION {[1 .. i -> R] : i \in Nat}
      BY <3>1, <3>2
    <3>4. app \in Seq(R)
      BY <3>3, SeqDef, Zenon
    <3>5. QED
      BY <3>4
  <2>5. \A k \in 1 .. Len(app) : \A e \in Written' : e.command = app[k] => e.index <= lastApplied[m]
    BY <1>2, <1>3, <2>1, <2>3 DEF Ledger
  <2>6. QED
    BY <2>2, <2>4, <2>5 DEF Ledger
<1>6. QED
  BY <1>1, <1>4, <1>5 DEF AppliedInv, progress

LEMMA AppliedAppendStep ==
  ASSUME IInv, LogInv, LogInv', AppliedInv, AppendEntries
  PROVE  AppliedInv'
<1> DEFINE n == op.node
           f == Head(op.todo)
           req == Prepare(n, f)
           current == req.term >= currentTerm[f]
           success == current /\ Consistent(log[f], req)
           fTerm == IF current THEN req.term ELSE currentTerm[f]
           fLog == IF success THEN Extended(log[f], req.entries) ELSE log[f]
           fCommit == IF success /\ req.commit > commitIndex[f]
                      THEN Min({req.commit, Len(fLog)}) ELSE commitIndex[f]
           stale == fTerm > currentTerm[n]
           leads == ~stale /\ state[n] = "leader"
           match == IF leads /\ success THEN Put(matchIndex[n], f, Len(fLog))
                                      ELSE matchIndex[n]
           nCommit == IF leads /\ success THEN NewCommit(n, log[n], match)
                                        ELSE commitIndex[n]
<1>1. n \in Nodes /\ f \in Nodes /\ n # f
  <2>1. op.call = "replicate" /\ op # Idle
    <3>1. op.call = "replicate"
      BY DEF AppendEntries
    <3>2. QED
      BY <3>1 DEF Idle
  <2>2. /\ n \in Nodes /\ op.todo \in Seq(Nodes) /\ op.todo # <<>>
        /\ \A i \in DOMAIN op.todo : op.todo[i] # n
    BY <2>1 DEF IInv, OpShape
  <2>3. f \in Nodes /\ f # n
    BY <2>2, HeadTailProperties
  <2>4. QED
    BY <2>2, <2>3
<1>2. /\ log' = [log EXCEPT ![f] = fLog]
      /\ commitIndex' = [commitIndex EXCEPT ![f] = fCommit, ![n] = nCommit]
      /\ lastApplied' = [lastApplied EXCEPT ![f] = Max({@, fCommit}),
                                            ![n] = Max({@, nCommit})]
      /\ appliedCommands' = [appliedCommands EXCEPT
             ![f] = @ \o NewlyApplied(fLog, lastApplied[f], fCommit),
             ![n] = @ \o NewlyApplied(log[n], lastApplied[n], nCommit)]
      /\ UNCHANGED requests
  BY DEF AppendEntries
<1>3. req.entries = SubSeq(log[n], Get(nextIndex[n], f, LastIndex(log[n]) + 1), Len(log[n]))
  BY DEF Prepare, LastIndex
<1> PICK W, r, es, old : W = Written /\ r = requests /\ es = req.entries /\ old = log[f]
  OBVIOUS
<1>4. /\ W \subseteq Entries /\ r \in Nat /\ OnePlace(W, r) /\ DOMAIN log = Nodes
      /\ commitIndex \in [Nodes -> Nat] /\ lastApplied \in [Nodes -> Nat]
      /\ commitIndex' \in [Nodes -> Nat]
  BY RaftAssumption DEF LogInv, AppliedInv, Written
<1>5. log[n] \in Seq(W) /\ Len(log[n]) \in Nat /\ old \in Seq(W)
  BY <1>1, LogsAreWritten, LenProperties
<1>6. es \in Seq(W)
  <2> PICK x, m : x = Get(nextIndex[n], f, LastIndex(log[n]) + 1) /\ m = log[n]
    OBVIOUS
  <2>1. x \in Nat \ {0} /\ m \in Seq(W) /\ Len(m) \in Nat /\ es = SubSeq(m, x, Len(m))
    <3>1. nextIndex[n] \in Positions
      BY <1>1 DEF LogInv
    <3>2. x \in Nat \ {0}
      BY <1>5, <3>1 DEF Get, Positions, LastIndex
    <3>3. QED
      BY <1>3, <1>5, <3>2
  <2> HIDE DEF req
  <2>2. CASE x > Len(m)
    <3>1. es = <<>>
      BY <2>1, <2>2
    <3>2. QED
      BY <3>1, EmptySeq
  <2>3. CASE ~(x > Len(m))
    <3>1. \A i \in x .. Len(m) : m[i] \in W
      BY <2>1, ElementOfSeq
    <3>2. QED
      BY <2>1, <2>3, <3>1, SubSeqProperties
  <2>4. QED
    BY <2>2, <2>3
<1>7. fLog \in Seq(W)
  <2>1. Extended(old, es) \in Seq(W)
    BY <1>4, <1>5, <1>6, ExtendedIsWritten
  <2>2. QED
    BY <1>5, <2>1
<1> HIDE DEF req, current, success, fTerm, fLog, fCommit, stale, leads, match, nCommit
<1>8. log'[f] = fLog /\ \A m \in Nodes \ {f} : log'[m] = log[m]
  BY <1>1, <1>2, <1>4
<1>9. \A i \in 1 .. Len(fLog) : fLog[i].index = i
  BY <1>1, <1>8 DEF LogInv, Shaped
<1>10. Written' \subseteq W
  <2> SUFFICES ASSUME NEW e \in Written' PROVE e \in W
    OBVIOUS
  <2>1. PICK m \in Nodes : \E i \in 1 .. Len(log'[m]) : log'[m][i] = e
    BY DEF Written
  <2>2. PICK i \in 1 .. Len(log'[m]) : log'[m][i] = e
    BY <2>1
  <2>3. log'[m] \in Seq(W)
    <3>1. CASE m = f
      BY <1>7, <1>8, <3>1
    <3>2. CASE m # f
      BY <1>8, <3>2, LogsAreWritten
    <3>3. QED
      BY <3>1, <3>2
  <2>4. QED
    BY <2>2, <2>3, ElementOfSeq
<1>11. OnePlace(Written', requests')
  BY <1>2, <1>4, <1>10 DEF OnePlace
<1>12. fCommit \in Nat /\ nCommit \in Nat
  <2>1. commitIndex'[f] = fCommit /\ commitIndex'[n] = nCommit
    BY <1>1, <1>2, <1>4
  <2>2. QED
    BY <1>1, <1>4, <2>1
<1>13. ASSUME NEW m \in Nodes
       PROVE  Ledger(appliedCommands'[m], lastApplied'[m], Written', requests')
  <2>1. Ledger(appliedCommands[m], lastApplied[m], W, r) /\ lastApplied[m] \in Nat
    BY <1>4 DEF AppliedInv
  <2>2. Ledger(appliedCommands'[m], lastApplied'[m], W, r)
    <3>1. CASE m = f
      <4>1. /\ appliedCommands'[m] = appliedCommands[f] \o NewlyApplied(fLog, lastApplied[f], fCommit)
            /\ lastApplied'[m] = Max({lastApplied[f], fCommit})
        BY <1>1, <1>2, <1>4, <3>1 DEF AppliedInv
      <4>2. Ledger(appliedCommands[f] \o NewlyApplied(fLog, lastApplied[f], fCommit),
                   Max({lastApplied[f], fCommit}), W, r)
        BY <1>4, <1>7, <1>9, <1>12, <2>1, <3>1, ApplyKeeps
      <4>3. QED
        BY <4>1, <4>2
    <3>2. CASE m = n
      <4>1. /\ appliedCommands'[m] = appliedCommands[n] \o NewlyApplied(log[n], lastApplied[n], nCommit)
            /\ lastApplied'[m] = Max({lastApplied[n], nCommit})
        BY <1>1, <1>2, <1>4, <3>2 DEF AppliedInv
      <4>2. \A i \in 1 .. Len(log[n]) : log[n][i].index = i
        BY <1>1, LogsAreWritten
      <4>3. Ledger(appliedCommands[n] \o NewlyApplied(log[n], lastApplied[n], nCommit),
                   Max({lastApplied[n], nCommit}), W, r)
        BY <1>4, <1>5, <1>12, <2>1, <3>2, <4>2, ApplyKeeps
      <4>4. QED
        BY <4>1, <4>3
    <3>3. CASE m # f /\ m # n
      <4>1. appliedCommands'[m] = appliedCommands[m] /\ lastApplied'[m] = lastApplied[m]
        BY <1>2, <1>4, <3>3 DEF AppliedInv
      <4>2. QED
        BY <2>1, <4>1
    <3>4. QED
      BY <3>1, <3>2, <3>3
  <2>3. QED
    BY <1>2, <1>4, <1>10, <2>2, LedgerLater
<1>14. DOMAIN appliedCommands' = Nodes
  BY <1>2 DEF AppliedInv
<1>15. QED
  BY <1>11, <1>13, <1>14 DEF AppliedInv

\* No node applies a command twice, in any cluster, through conflicts that cut applied
\* entries off, deposed leaders that go on replicating and links that fail: the entries
\* of a command are all at one index, and _apply_committed never goes back.
THEOREM AppliedOnceHolds == Spec => []AppliedOnce
<1>1. IInv /\ LogInv /\ [Next]_vars => LogInv'
  BY LogNextStep
<1>2. IInv /\ LogInv /\ LogInv' /\ AppliedInv /\ [Next]_vars => AppliedInv'
  <2> SUFFICES ASSUME IInv, LogInv, LogInv', AppliedInv, [Next]_vars PROVE AppliedInv'
    OBVIOUS
  <2>1. ASSUME UNCHANGED <<log, progress, requests>> PROVE AppliedInv'
    <3>1. Written' = Written
      BY <2>1 DEF Written
    <3>2. QED
      BY <2>1, <3>1 DEF AppliedInv, progress
  <2>2. ASSUME NEW n \in Nodes, StartElection(n) PROVE AppliedInv'
    BY <2>1, <2>2 DEF StartElection
  <2>3. ASSUME NEW n \in Nodes, StartReplicate(n) PROVE AppliedInv'
    BY <2>1, <2>3 DEF StartReplicate
  <2>4. CASE RequestVote
    BY <2>1, <2>4 DEF RequestVote
  <2>5. CASE UNCHANGED vars
    BY <2>1, <2>5 DEF vars
  <2>6. QED
    BY <2>2, <2>3, <2>4, <2>5, AppliedRequestStep, AppliedAppendStep DEF Next
<1>3. AppliedInv => AppliedOnce
  BY DEF AppliedInv, Ledger, AppliedOnce
<1>4. QED
  BY Invariance, LogInit, AppliedInit, <1>1, <1>2, <1>3, PTL DEF Spec
=============================================================================
